--------------------------- MODULE MCDefenseWorker ---------------------------
(* Evidence that reaches every action of the policy: quiet traffic, two    *)
(* classifiers that contradict each other, and an attack that is certain.  *)
(* With the answers of the configuration, which decide for normal, hesitate*)
(* and are certain of an attack, the hybrid decision takes each branch.    *)
EXTENDS DefenseWorker

See(rf, xgb, score) == [rf |-> rf, xgb |-> xgb, anomaly |-> Normalized(score, -60, -40)]

MCObservations == {See(5, 5, -42), See(100, 10, -60), See(100, 100, -65)}
=============================================================================
