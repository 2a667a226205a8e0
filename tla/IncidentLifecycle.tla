------------------------- MODULE IncidentLifecycle -------------------------
(***************************************************************************)
(* What one incident goes through and what its history says, as functions: *)
(* the transition table of src/contracts/incident.py, the events that      *)
(* IncidentManager.record_full_lifecycle emits for given evidence, the     *)
(* escalation rule, and the replay of a stored history (incident_state.py  *)
(* and correlation.py).  An event keeps its incident, its type and the     *)
(* state it leads to.                                                      *)
(***************************************************************************)
EXTENDS Integers, Sequences, FiniteSets

CONSTANTS Incidents,    (* incident_ids                                      *)
          Keys,         (* correlation_ids                                   *)
          Threshold     (* escalation.repeated_incident_threshold            *)

ASSUME LifecycleAssumption == Threshold \in Nat \ {0}

States == {"DETECTED", "ASSESSING", "VERIFYING", "MITIGATING", "RECOVERY",
           "RESOLVED", "ESCALATED"}
Terminal == {"RESOLVED", "ESCALATED"}

ValidTransitions == [DETECTED   |-> {"ASSESSING"},
                     ASSESSING  |-> {"VERIFYING", "MITIGATING"},
                     VERIFYING  |-> {"MITIGATING"},
                     MITIGATING |-> {"RECOVERY", "RESOLVED", "ESCALATED"},
                     RECOVERY   |-> {"RESOLVED", "ESCALATED"},
                     RESOLVED   |-> {},
                     ESCALATED  |-> {}]

(* validate_transition *)
Permits(from, to) == to \in ValidTransitions[from]

EventTypes == {"DETECTION_CREATED", "QUANTUM_ROUTING_REQUESTED",
               "QUANTUM_VERIFICATION_COMPLETED", "QUANTUM_VERIFICATION_FAILED",
               "HYBRID_DECISION_CREATED", "RISK_ASSESSED", "DEFENSE_ACTION_SELECTED",
               "DEFENSE_ACTION_EXECUTED", "DEFENSE_VERIFICATION_FAILED",
               "RECOVERY_STARTED", "RECOVERY_SUCCEEDED", "RECOVERY_FAILED",
               "ROLLBACK_EXECUTED", "INCIDENT_RESOLVED", "INCIDENT_ESCALATED",
               "IDEMPOTENT_SKIP"}

(* The evidence a message carries.  `severe' stands for the three          *)
(* conditions on risk, conflict and defense that escalate by themselves.   *)
Evidence == [key : Keys,
             quantum : {"not_required", "success", "failed"},
             recovery : {"NOT_ATTEMPTED", "SUCCESS", "FAILED"},
             rollback : BOOLEAN,
             severe : BOOLEAN]

(* evaluate_escalation, with every condition enabled as configured. *)
Escalates(e, count) == e.severe \/ e.recovery = "FAILED" \/ count >= Threshold

-----------------------------------------------------------------------------
To(type, state) == [type |-> type, to |-> state]

Assessment(e) ==
    LET outcome == IF e.quantum = "success" THEN "QUANTUM_VERIFICATION_COMPLETED"
                                            ELSE "QUANTUM_VERIFICATION_FAILED"
    IN  <<To("DETECTION_CREATED", "DETECTED"), To("QUANTUM_ROUTING_REQUESTED", "ASSESSING")>> \o
        IF e.quantum = "not_required"
        THEN <<To("QUANTUM_ROUTING_REQUESTED", "MITIGATING")>>
        ELSE <<To("QUANTUM_ROUTING_REQUESTED", "VERIFYING"), To(outcome, "VERIFYING"),
               To(outcome, "MITIGATING")>>

Mitigation == [n \in 1..4 |-> To(<<"HYBRID_DECISION_CREATED", "RISK_ASSESSED",
                  "DEFENSE_ACTION_SELECTED", "DEFENSE_ACTION_EXECUTED">>[n], "MITIGATING")]

Recovery(e) ==
    IF e.recovery = "NOT_ATTEMPTED" THEN << >>
    ELSE <<To("DEFENSE_VERIFICATION_FAILED", "RECOVERY"), To("RECOVERY_STARTED", "RECOVERY")>> \o
         (IF e.rollback THEN <<To("ROLLBACK_EXECUTED", "RECOVERY")>> ELSE << >>) \o
         <<To(IF e.recovery = "SUCCESS" THEN "RECOVERY_SUCCEEDED" ELSE "RECOVERY_FAILED",
              "RECOVERY")>>

(* record_full_lifecycle: what it emits for evidence e, as the count-th    *)
(* incident of its correlation key.                                        *)
Lifecycle(e, count) ==
    Assessment(e) \o Mitigation \o Recovery(e) \o
    <<IF Escalates(e, count) THEN To("INCIDENT_ESCALATED", "ESCALATED")
                             ELSE To("INCIDENT_RESOLVED", "RESOLVED")>>

-----------------------------------------------------------------------------
(* Replaying a store: a sequence of [incident, type, to].                  *)
Recorded(i, type, state) == [incident |-> i, type |-> type, to |-> state]
Event == [incident : Incidents, type : EventTypes, to : States]

(* Where the events of incident i stand in the store. *)
HistoryOf(i, store) == {n \in DOMAIN store : store[n].incident = i}

(* reconstruct_snapshot: the state of the last event, the number of events *)
(* (event_ids) and of escalations (escalation_reasons).                    *)
NoSnapshot == [state |-> "NONE", events |-> 0, escalations |-> 0]
Reconstruct(i, store) ==
    LET history == HistoryOf(i, store)
        last == CHOOSE n \in history : \A m \in history : m <= n
    IN  IF history = {} THEN NoSnapshot
        ELSE [state |-> store[last].to,
              events |-> Cardinality(history),
              escalations |-> Cardinality({n \in history :
                                  store[n].type = "INCIDENT_ESCALATED"})]

(* IncidentSnapshot refuses an escalation that nothing explains. *)
SnapshotAdmits(snapshot) ==
    /\ snapshot.state \in States
    /\ snapshot.state = "ESCALATED" => snapshot.escalations > 0

StateOf(i, store) == Reconstruct(i, store).state

Detected(store) == {ev.incident : ev \in {store[n] : n \in
                       {m \in DOMAIN store : store[m].type = "DETECTION_CREATED"}}}
=============================================================================
