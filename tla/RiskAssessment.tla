--------------------------- MODULE RiskAssessment ---------------------------
(***************************************************************************)
(* From a classical detection and the router's outcome to a risk level and *)
(* the action the defense policy maps it to: the ensemble's voting         *)
(* (ensemble_detector.py), the routing rule (policy.py), the hybrid        *)
(* decision (hybrid_engine.py), the risk score (risk_engine.py) and        *)
(* select_action (defense_policy.py), with the numbers of config/.         *)
(*                                                                         *)
(* A probability is a number of two-hundredths, so that the mean of two    *)
(* percentages is one; floating-point rounding is left out, and so are the *)
(* clamps to [0,1], which never act because every weight group sums to one.*)
(***************************************************************************)
EXTENDS Integers

One == 200
Percent(n) == 2 * n

(* argmax, which takes the first label, "normal", on a tie. *)
LabelOf(attack) == IF attack > One - attack THEN "attack" ELSE "normal"
ConfidenceOf(attack) == IF attack > One - attack THEN attack ELSE One - attack
Distance(m, n) == IF m > n THEN m - n ELSE n - m

(* The detector's evidence: the two classifiers' attack probabilities in   *)
(* percent and the normalized anomaly score.                               *)
Evidence == [rf : 0..100, xgb : 0..100, anomaly : 0..One]

Attack(e) == e.rf + e.xgb
Disagreement(e) == Percent(Distance(e.rf, e.xgb))
Classical(e) == LabelOf(Attack(e))

(* What the router hands on.  The attack probability of a quantum answer   *)
(* determines its label and its confidence.                                *)
NotInvoked == [status |-> "not_invoked", attack |-> 0]
Fallback == [status |-> "fallback", attack |-> 0]
Answer(p) == [status |-> "success", attack |-> p]
Routing == {NotInvoked, Fallback} \cup {Answer(p) : p \in 0..One}

ShouldInvoke(e) == \/ ConfidenceOf(Attack(e)) < Percent(70)
                   \/ e.anomaly > Percent(70)
                   \/ Disagreement(e) > Percent(30)

Outcomes(e, answers) == IF ShouldInvoke(e)
                        THEN {Fallback} \cup {Answer(p) : p \in answers}
                        ELSE {NotInvoked}

Answered(r) == r.status = "success"
Agrees(e, r) == LabelOf(r.attack) = Classical(e)

Overrides(e, r) == /\ Answered(r)
                   /\ ~Agrees(e, r)
                   /\ ConfidenceOf(r.attack) >= Percent(85)

-----------------------------------------------------------------------------
(* The hybrid decision *)

Prediction(e, r) == IF Overrides(e, r) THEN LabelOf(r.attack) ELSE Classical(e)

(* Neither an agreement nor an override: the conflict stays unresolved. *)
Conflict(e, r) == Answered(r) /\ ~Agrees(e, r) /\ ~Overrides(e, r)

(* An attack nobody contradicts, with a quantum agreement or override, or  *)
(* with a classical confidence that is enough by itself.                   *)
Solid(e, r) == \/ Answered(r)
               \/ ConfidenceOf(Attack(e)) >= Percent(90)

(* Mutant: whatever is sufficiently backed is confirmed, a normal          *)
(* prediction included.                                                    *)
StatusByEvidence(e, r) ==
    IF Conflict(e, r) THEN "uncertain"
    ELSE IF Solid(e, r) THEN "confirmed"
    ELSE IF Prediction(e, r) = "normal" THEN "normal" ELSE "uncertain"

Status(e, r) ==
    IF Conflict(e, r) THEN "uncertain"
    ELSE IF Prediction(e, r) = "normal" THEN "normal"
    ELSE IF Solid(e, r) THEN "confirmed" ELSE "uncertain"

-----------------------------------------------------------------------------
(* The risk assessment.  Scores count 1/(100 * 100 * One). *)

Full == 100 * 100 * One
Indicator(condition) == IF condition THEN One ELSE 0

(* Mutant: a failed verification counts as a quantum vote for attack. *)
ThreatWithFallback(e, r) ==
    40 * Attack(e) + 30 * e.anomaly
    + 30 * (IF r.status = "fallback" THEN One ELSE r.attack)

(* Mutant: without a quantum answer its weight goes to the other evidence. *)
ThreatRenormalised(e, r) ==
    IF Answered(r) THEN 40 * Attack(e) + 30 * r.attack + 30 * e.anomaly
                   ELSE (100 * (40 * Attack(e) + 30 * e.anomaly)) \div 70

Threat(e, r) == 40 * Attack(e) + 30 * r.attack + 30 * e.anomaly

Uncertainty(e, r) == 34 * Disagreement(e) + 33 * Indicator(Conflict(e, r))
                     + 33 * Indicator(r = Fallback)

Score(e, r) == 75 * Threat(e, r) + 25 * Uncertainty(e, r)

LevelFromScore(score) ==
    IF 4 * score < Full THEN "LOW"
    ELSE IF 2 * score < Full THEN "MEDIUM"
    ELSE IF 4 * score < 3 * Full THEN "HIGH"
    ELSE "CRITICAL"

Levels == {"LOW", "MEDIUM", "HIGH", "CRITICAL"}
Rank == [LOW |-> 1, MEDIUM |-> 2, HIGH |-> 3, CRITICAL |-> 4]
HighOrAbove == {"HIGH", "CRITICAL"}

(* A confirmed attack has the floor HIGH.  (No decision is "confirmed"     *)
(* with a normal prediction, so the status alone decides.)                 *)
RiskLevel(e, r) ==
    LET level == LevelFromScore(Score(e, r))
    IN  IF Status(e, r) = "confirmed" /\ level \notin HighOrAbove THEN "HIGH" ELSE level

-----------------------------------------------------------------------------
(* The actions the policy can select.  All of them are reversible; the     *)
(* catalog's TERMINATE_SIMULATED_SESSION is mapped to by no risk level.    *)
Actions == {"MONITOR", "INCREASE_MONITORING", "RATE_LIMIT", "ISOLATE", "BLOCK"}
CutsOff == {"ISOLATE", "BLOCK"}

By(normal, confirmed, uncertain) ==
    [normal |-> normal, confirmed |-> confirmed, uncertain |-> uncertain]

risk_action_map ==
    [LOW      |-> By("MONITOR", "MONITOR", "MONITOR"),
     MEDIUM   |-> By("INCREASE_MONITORING", "INCREASE_MONITORING", "INCREASE_MONITORING"),
     HIGH     |-> By("RATE_LIMIT", "ISOLATE", "RATE_LIMIT"),
     CRITICAL |-> By("ISOLATE", "BLOCK", "ISOLATE")]

SelectAction(e, r) == risk_action_map[RiskLevel(e, r)][Status(e, r)]
=============================================================================
