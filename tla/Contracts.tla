------------------------------ MODULE Contracts ------------------------------
(***************************************************************************)
(* The objects the stages build for one sample (src/contracts/), as the    *)
(* stage fills them in, each with what its constructor insists on.  A      *)
(* constructor that raises would fail the same way on every retry, and the *)
(* sample would end in the dead letters undefended.                        *)
(***************************************************************************)
EXTENDS RiskAssessment

Probability == 0..One
Absent == -1                (* a confidence that is None *)

(* The Isolation Forest's raw score, low for an anomaly, over the range    *)
(* seen in training.                                                       *)
Normalized(raw, low, high) ==
    IF high <= low THEN One \div 2
    ELSE IF raw >= high THEN 0
    ELSE IF raw <= low THEN One
    ELSE ((high - raw) * One) \div (high - low)

DetectionResult(e) ==
    [prediction |-> Classical(e), confidence |-> ConfidenceOf(Attack(e)),
     attack |-> Attack(e), anomaly |-> e.anomaly, disagreement |-> Disagreement(e)]

DetectionAdmits(d) ==
    {d.confidence, d.attack, One - d.attack, d.anomaly, d.disagreement} \subseteq Probability

-----------------------------------------------------------------------------
(* What verify() hands back: the answer by argmax or, whatever was raised, *)
(* a failed result with the exception's text.  run_job makes a failed      *)
(* result of a timeout as well.                                            *)
QuantumResult(r) ==
    IF Answered(r)
    THEN [status |-> "success", prediction |-> LabelOf(r.attack),
          confidence |-> ConfidenceOf(r.attack), error |-> "none"]
    ELSE [status |-> "failed", prediction |-> "none",
          confidence |-> Absent, error |-> "raised"]

NoResult == [status |-> "none", prediction |-> "none", confidence |-> Absent, error |-> "none"]

QuantumAdmits(q) ==
    /\ q.status \in {"success", "failed"}
    /\ q.status = "success" => q.prediction # "none" /\ q.confidence \in Probability
    /\ q.status = "failed" => q.error # "none"

(* Why there is no answer: the breaker was open, or every attempt failed,  *)
(* the last one by a timeout or otherwise.                                 *)
Reasons == {"circuit_open", "timeout", "retries_exhausted"}

RoutingDecision(r, why) ==
    [status |-> r.status,
     quantum_result |-> IF r.status = "not_invoked" \/ (r.status = "fallback" /\ why = "circuit_open")
                        THEN NoResult ELSE QuantumResult(r),
     fallback_reason |-> IF r.status = "fallback" THEN why ELSE "none"]

RoutingAdmits(d) ==
    /\ d.status \in {"not_invoked", "pending", "success", "fallback"}
    /\ d.status = "pending" => d.quantum_result = NoResult
    /\ d.status = "success" => d.quantum_result # NoResult
    /\ d.status = "fallback" => d.fallback_reason # "none"
    /\ d.quantum_result # NoResult => QuantumAdmits(d.quantum_result)

-----------------------------------------------------------------------------
Greater(m, n) == IF m > n THEN m ELSE n

(* Mutant: an agreement adds the two confidences up. *)
ConfidencesAdd(e, r) ==
    IF Answered(r) /\ Agrees(e, r) THEN ConfidenceOf(Attack(e)) + ConfidenceOf(r.attack)
    ELSE IF Overrides(e, r) THEN ConfidenceOf(r.attack)
    ELSE ConfidenceOf(Attack(e))

FinalConfidence(e, r) ==
    IF Answered(r) /\ Agrees(e, r) THEN Greater(ConfidenceOf(Attack(e)), ConfidenceOf(r.attack))
    ELSE IF Overrides(e, r) THEN ConfidenceOf(r.attack)
    ELSE ConfidenceOf(Attack(e))

(* A fallback names the backend that was tried, although it was not used. *)
HybridDecision(e, r) ==
    [prediction |-> Prediction(e, r), confidence |-> FinalConfidence(e, r),
     status |-> Status(e, r), quantum_used |-> Answered(r),
     quantum_model |-> IF r.status = "not_invoked" THEN "none" ELSE "VQC",
     quantum_prediction |-> QuantumResult(r).prediction,
     quantum_confidence |-> QuantumResult(r).confidence]

HybridAdmits(d) ==
    /\ d.confidence \in Probability
    /\ d.quantum_confidence \in Probability \cup {Absent}
    /\ d.status \in {"confirmed", "uncertain", "normal"}
    /\ d.quantum_used => d.quantum_model # "none"

(* The decision carries no probabilities: the risk engine recovers the     *)
(* verifier's P(attack) from its label and its confidence.                 *)
QuantumAttack(d) == IF ~d.quantum_used THEN 0
                    ELSE IF d.quantum_prediction = "attack" THEN d.quantum_confidence
                    ELSE One - d.quantum_confidence

(* No clamp to [0,1] acts where these hold. *)
RiskAdmits(e, r) ==
    /\ RiskLevel(e, r) \in Levels
    /\ Threat(e, r) \in 0..100 * One
    /\ Uncertainty(e, r) \in 0..100 * One
    /\ Score(e, r) \in 0..Full

(* select_action finds an entry. *)
PolicyAdmits(e, r) == /\ RiskLevel(e, r) \in DOMAIN risk_action_map
                      /\ Status(e, r) \in DOMAIN risk_action_map[RiskLevel(e, r)]

(* No stage raises on what the stages before it computed from the evidence *)
(* e and the router's outcome r.                                           *)
Admitted(e, r) == /\ DetectionAdmits(DetectionResult(e))
                  /\ \A why \in Reasons : RoutingAdmits(RoutingDecision(r, why))
                  /\ HybridAdmits(HybridDecision(e, r))
                  /\ QuantumAttack(HybridDecision(e, r)) = r.attack
                  /\ RiskAdmits(e, r)
                  /\ PolicyAdmits(e, r)
=============================================================================
