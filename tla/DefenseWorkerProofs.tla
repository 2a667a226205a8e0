------------------------ MODULE DefenseWorkerProofs ------------------------
(***************************************************************************)
(* Theorems of the defense worker, for any samples, evidence, answers,     *)
(* retries, copies and crashes; before them, what the configured weights   *)
(* and thresholds of the risk engine imply, for every evidence a detector  *)
(* and every outcome a router can produce.                                 *)
(***************************************************************************)
EXTENDS DefenseWorker, TLAPS

(* An outcome by its two facts: whether there was an answer, and which. *)
LEMMA RoutingFacts ==
    ASSUME NEW r \in Routing
    PROVE  /\ r.attack \in 0..One
           /\ ~Answered(r) => r.attack = 0
           /\ r = Fallback => ~Answered(r)
  BY SMT DEF Routing, NotInvoked, Fallback, Answer, Answered, One

(* Two percentages whose mean is near one cannot be far apart. *)
LEMMA DistanceFacts ==
    ASSUME NEW m \in 0..100, NEW n \in 0..100
    PROVE  /\ Distance(m, n) \in 0..100
           /\ 2 * Distance(m, n) <= 2 * (One - (m + n))
  <1>1. CASE m > n
    BY <1>1 DEF Distance, One
  <1>2. CASE m <= n
    BY <1>2 DEF Distance, One
  <1>3. QED  BY <1>1, <1>2

LEMMA EvidenceFacts ==
    ASSUME NEW e \in Evidence
    PROVE  /\ e.rf \in 0..100 /\ e.xgb \in 0..100 /\ e.anomaly \in 0..One
           /\ Attack(e) = e.rf + e.xgb
           /\ Attack(e) \in 0..One
           /\ Disagreement(e) \in 0..One
           /\ Disagreement(e) <= 2 * (One - Attack(e))
  <1>1. e.rf \in 0..100 /\ e.xgb \in 0..100 /\ e.anomaly \in 0..One
    BY DEF Evidence
  <1>2. PICK m \in 0..100, n \in 0..100 : m = e.rf /\ n = e.xgb
    BY <1>1
  <1>3. Attack(e) = m + n /\ Disagreement(e) = 2 * Distance(m, n)
    BY <1>2 DEF Attack, Disagreement, Percent
  <1>4. m + n \in 0..One /\ 2 * Distance(m, n) \in 0..One
    <2>1. PICK k \in 0..100 : k = Distance(m, n)
      BY Zenon, DistanceFacts
    <2>2. QED  BY <2>1 DEF One
  <1>5. 2 * Distance(m, n) <= 2 * (One - (m + n))
    BY Zenon, DistanceFacts
  <1>6. QED  BY <1>1, <1>2, <1>3, <1>4, <1>5

(* The score as a sum of six numbers. *)
LEMMA ScoreFacts ==
    ASSUME NEW e \in Evidence, NEW r \in Routing
    PROVE  /\ Attack(e) \in 0..One /\ r.attack \in 0..One /\ e.anomaly \in 0..One
           /\ Disagreement(e) \in 0..One /\ Disagreement(e) <= 2 * (One - Attack(e))
           /\ Indicator(Conflict(e, r)) \in {0, One}
           /\ Indicator(Conflict(e, r)) = One <=> Conflict(e, r)
           /\ Indicator(r = Fallback) \in {0, One}
           /\ Indicator(r = Fallback) = One <=> r = Fallback
           /\ Score(e, r) = 75 * (40 * Attack(e) + 30 * r.attack + 30 * e.anomaly)
                            + 25 * (34 * Disagreement(e) + 33 * Indicator(Conflict(e, r))
                                    + 33 * Indicator(r = Fallback))
  <1>1. /\ Indicator(Conflict(e, r)) \in {0, One}
        /\ Indicator(Conflict(e, r)) = One <=> Conflict(e, r)
    BY DEF Indicator, One
  <1>2. /\ Indicator(r = Fallback) \in {0, One}
        /\ Indicator(r = Fallback) = One <=> r = Fallback
    BY DEF Indicator, One
  <1>3. Score(e, r) = 75 * (40 * Attack(e) + 30 * r.attack + 30 * e.anomaly)
                      + 25 * (34 * Disagreement(e) + 33 * Indicator(Conflict(e, r))
                              + 33 * Indicator(r = Fallback))
    BY DEF Score, Threat, Uncertainty
  <1>4. QED  BY Zenon, <1>1, <1>2, <1>3, EvidenceFacts, RoutingFacts

(* A level is the score's place among the thresholds. *)
LEMMA LevelFacts ==
    ASSUME NEW n \in Int
    PROVE  /\ LevelFromScore(n) \in Levels
           /\ LevelFromScore(n) = "CRITICAL" <=> 4 * n >= 3 * Full
           /\ LevelFromScore(n) \in HighOrAbove <=> 2 * n >= Full
           /\ LevelFromScore(n) = "LOW" <=> 4 * n < Full
  BY SMT DEF LevelFromScore, Levels, HighOrAbove, Full, One

(* The three conditions that a status or a level depends on. *)
LEMMA StatusFacts ==
    ASSUME NEW e \in Evidence, NEW r \in Routing
    PROVE  /\ Status(e, r) = "confirmed" <=>
                 ~Conflict(e, r) /\ Prediction(e, r) # "normal" /\ Solid(e, r)
           /\ Status(e, r) = "normal" <=> ~Conflict(e, r) /\ Prediction(e, r) = "normal"
           /\ Status(e, r) \in {"normal", "confirmed", "uncertain"}
  BY DEF Status

LEMMA RiskLevelFacts ==
    ASSUME NEW e \in Evidence, NEW r \in Routing
    PROVE  /\ Score(e, r) \in Int
           /\ RiskLevel(e, r) \in Levels
           /\ RiskLevel(e, r) = "CRITICAL" <=> 4 * Score(e, r) >= 3 * Full
           /\ RiskLevel(e, r) \in HighOrAbove <=>
                 2 * Score(e, r) >= Full \/ Status(e, r) = "confirmed"
  <1>1. Score(e, r) \in Int
    <2>1. PICK a \in 0..One, q \in 0..One, n \in 0..One, d \in 0..One :
            a = Attack(e) /\ q = r.attack /\ n = e.anomaly /\ d = Disagreement(e)
      BY Zenon, ScoreFacts
    <2>2. PICK c \in {0, One}, f \in {0, One} :
            c = Indicator(Conflict(e, r)) /\ f = Indicator(r = Fallback)
      BY Zenon, ScoreFacts
    <2>3. Score(e, r) = 75 * (40 * a + 30 * q + 30 * n) + 25 * (34 * d + 33 * c + 33 * f)
      BY Zenon, <2>1, <2>2, ScoreFacts
    <2>4. QED  BY <2>3 DEF One
  <1>2. QED  BY SMT, <1>1, LevelFacts DEF RiskLevel, Levels, HighOrAbove

-----------------------------------------------------------------------------
(* The level CRITICAL, and with it BLOCK, needs every piece of evidence to *)
(* be certain: both classifiers, the anomaly score and the quantum answer  *)
(* at one.  The weight of the threat equals the threshold, and where there *)
(* is no conflict and no fallback only the classifiers' disagreement adds  *)
(* to it, by less than it takes from their mean.                           *)
THEOREM CriticalNeedsCertainty ==
    ASSUME NEW e \in Evidence, NEW r \in Routing, RiskLevel(e, r) = "CRITICAL"
    PROVE  /\ e.rf = 100 /\ e.xgb = 100 /\ e.anomaly = One
           /\ Answered(r) /\ r.attack = One
  <1>n. PICK a \in 0..One, q \in 0..One, n \in 0..One, d \in 0..One :
            a = Attack(e) /\ q = r.attack /\ n = e.anomaly /\ d = Disagreement(e)
    BY Zenon, ScoreFacts
  <1>i. PICK c \in {0, One}, f \in {0, One} :
            c = Indicator(Conflict(e, r)) /\ f = Indicator(r = Fallback)
    BY Zenon, ScoreFacts
  <1>1. /\ a = Attack(e) /\ q = r.attack /\ n = e.anomaly
        /\ d <= 2 * (One - a)
        /\ Score(e, r) = 75 * (40 * a + 30 * q + 30 * n)
                         + 25 * (34 * d + 33 * c + 33 * f)
        /\ c = One <=> Conflict(e, r)
        /\ f = One <=> r = Fallback
    BY Zenon, <1>n, <1>i, ScoreFacts
  <1>j. PICK j \in 0..100, k \in 0..100 : j = e.rf /\ k = e.xgb
    <2>1. e.rf \in 0..100 /\ e.xgb \in 0..100
      BY Zenon, EvidenceFacts
    <2>2. QED  BY Zenon, <2>1
  <1>k. j + k = a
    BY Zenon, <1>1, <1>j, EvidenceFacts
  <1> USE DEF One
  <1>2. 75 * (40 * a + 30 * q + 30 * n) + 25 * (34 * d + 33 * c + 33 * f) >= 1500000
    BY SMT, <1>1, RiskLevelFacts DEF Full
  <1>3. f = 0 /\ Answered(r)
    <2>1. CASE ~Answered(r)
      <3>1. q = 0 /\ c = 0
        BY <2>1, <1>1, RoutingFacts DEF Conflict
      <3>2. QED  BY SMT, <1>2, <3>1
    <2>2. CASE Answered(r)
      BY <2>2, <1>1, RoutingFacts
    <2>3. QED  BY <2>1, <2>2
  <1>4. c = 0
    <2>1. SUFFICES ASSUME Conflict(e, r) PROVE FALSE
      BY <1>1
    <2>2. CASE Classical(e) = "attack"
      <3>1. q <= 100
        BY <2>1, <2>2, <1>1, RoutingFacts DEF Conflict, Agrees, LabelOf
      <3>2. QED  BY SMT, <1>1, <1>2, <1>3, <3>1
    <2>3. CASE Classical(e) # "attack"
      <3>1. a <= 100
        BY <2>3, <1>1 DEF Classical, LabelOf
      <3>2. q < 170
        <4>1. LabelOf(q) = "attack"
          BY <2>1, <2>3, <1>1 DEF Conflict, Agrees, Classical, LabelOf
        <4>2. ConfidenceOf(q) = q
          BY <4>1 DEF LabelOf, ConfidenceOf
        <4>3. QED  BY <2>1, <4>2, <1>1 DEF Conflict, Overrides, Percent
      <3>3. QED  BY SMT, <1>1, <1>2, <1>3, <3>1, <3>2
    <2>4. QED  BY <2>2, <2>3
  <1>5. a = One /\ q = One /\ n = One
    BY SMT, <1>1, <1>2, <1>3, <1>4
  <1>6. e.rf = 100 /\ e.xgb = 100
    BY <1>j, <1>k, <1>5
  <1>7. QED  BY <1>1, <1>3, <1>5, <1>6

(* The actions the policy's table can lead to. *)
LEMMA ActionFacts ==
    ASSUME NEW e \in Evidence, NEW r \in Routing
    PROVE  /\ SelectAction(e, r) \in Actions
           /\ SelectAction(e, r) = "BLOCK" => RiskLevel(e, r) = "CRITICAL"
           /\ SelectAction(e, r) \in CutsOff =>
                 RiskLevel(e, r) = "CRITICAL" \/ Status(e, r) = "confirmed"
  <1>1. RiskLevel(e, r) \in Levels /\ Status(e, r) \in {"normal", "confirmed", "uncertain"}
    BY Zenon, RiskLevelFacts, StatusFacts
  <1>2. QED  BY SMT, <1>1 DEF SelectAction, risk_action_map, By, Actions, CutsOff, Levels

(* Only the two labels exist: whoever is not judged normal is an attack. *)
LEMMA PredictionFacts ==
    ASSUME NEW e \in Evidence, NEW r \in Routing
    PROVE  Prediction(e, r) \in {"normal", "attack"}
  BY DEF Prediction, Classical, LabelOf

(* BLOCK is selected only for an attack that everything confirms, the     *)
(* quantum verifier included.                                             *)
THEOREM BlockNeedsQuantumAttack ==
    ASSUME NEW e \in Evidence, NEW r \in Routing, SelectAction(e, r) = "BLOCK"
    PROVE  Answered(r) /\ LabelOf(r.attack) = "attack"
  <1>1. Answered(r) /\ r.attack = One
    BY Zenon, ActionFacts, CriticalNeedsCertainty
  <1>2. QED  BY <1>1 DEF LabelOf, One

(* A sample judged normal is never cut off, whatever its score. *)
THEOREM NormalIsLeftConnected ==
    ASSUME NEW e \in Evidence, NEW r \in Routing, SelectAction(e, r) \in CutsOff
    PROVE  Prediction(e, r) = "attack"
  <1>1. CASE RiskLevel(e, r) = "CRITICAL"
    <2>1. e.rf = 100 /\ e.xgb = 100 /\ r.attack = One
      BY <1>1, CriticalNeedsCertainty
    <2>2. Classical(e) = "attack" /\ LabelOf(r.attack) = "attack"
      BY <2>1 DEF Classical, Attack, LabelOf, One
    <2>3. QED  BY <2>2 DEF Prediction
  <1>2. CASE Status(e, r) = "confirmed"
    BY Zenon, <1>2, StatusFacts, PredictionFacts
  <1>3. QED  BY Zenon, <1>1, <1>2, ActionFacts

(* An answer that confirms an attack ranks at least as high as the         *)
(* fallback: it reaches HIGH by the floor, and a fallback is never         *)
(* CRITICAL.                                                               *)
THEOREM ConfirmationRanksHigher ==
    ASSUME NEW e \in Evidence, NEW r \in Routing,
           Answered(r), Agrees(e, r), Classical(e) = "attack"
    PROVE  Rank[RiskLevel(e, r)] >= Rank[RiskLevel(e, Fallback)]
  <1>1. Status(e, r) = "confirmed"
    BY DEF Status, Conflict, Prediction, Overrides, Solid
  <1>2. RiskLevel(e, r) \in HighOrAbove
    BY Zenon, <1>1, RiskLevelFacts
  <1>3. Fallback \in Routing /\ ~Answered(Fallback)
    BY DEF Routing, Fallback, Answered
  <1>4. RiskLevel(e, Fallback) \in Levels \ {"CRITICAL"}
    BY Zenon, <1>3, RiskLevelFacts, CriticalNeedsCertainty
  <1>5. QED  BY SMT, <1>2, <1>4 DEF Rank, Levels, HighOrAbove

-----------------------------------------------------------------------------
(* More evidence *)

Suspicion == [normal |-> 1, uncertain |-> 2, confirmed |-> 3]

(* The decision as a matter of the two probabilities. *)
LEMMA StatusInNumbers ==
    ASSUME NEW e \in Evidence, NEW r \in Routing
    PROVE  /\ Status(e, r) = "normal" <=>
                 \/ Answered(r) /\ Attack(e) <= 100 /\ r.attack <= 100
                 \/ Answered(r) /\ Attack(e) > 100 /\ r.attack <= 30
                 \/ ~Answered(r) /\ Attack(e) <= 100
           /\ Status(e, r) = "confirmed" <=>
                 \/ Answered(r) /\ Attack(e) > 100 /\ r.attack > 100
                 \/ Answered(r) /\ Attack(e) <= 100 /\ r.attack >= 170
                 \/ ~Answered(r) /\ Attack(e) >= 180
           /\ Conflict(e, r) <=> Answered(r) /\ Status(e, r) = "uncertain"
  <1>n. PICK a \in 0..One, q \in 0..One : a = Attack(e) /\ q = r.attack
    BY Zenon, ScoreFacts
  <1>1. /\ Classical(e) = "attack" <=> a > 100
        /\ Classical(e) = "normal" <=> a <= 100
        /\ LabelOf(r.attack) = "attack" <=> q > 100
        /\ LabelOf(r.attack) = "normal" <=> q <= 100
    BY <1>n DEF Classical, LabelOf, One
  <1>2. /\ ConfidenceOf(r.attack) >= Percent(85) <=> q >= 170 \/ q <= 30
        /\ ConfidenceOf(Attack(e)) >= Percent(90) <=> a >= 180 \/ a <= 20
    BY <1>n DEF ConfidenceOf, Percent, One
  <1>3. Agrees(e, r) <=> (a > 100 <=> q > 100)
    BY <1>n, <1>1 DEF Agrees, Classical, LabelOf, One
  <1>4. Overrides(e, r) <=> Answered(r) /\ ~Agrees(e, r) /\ (q >= 170 \/ q <= 30)
    BY Zenon, <1>2 DEF Overrides
  <1>5. Conflict(e, r) <=> Answered(r) /\ ~Agrees(e, r) /\ ~(q >= 170 \/ q <= 30)
    BY Zenon, <1>4 DEF Conflict
  <1>6. /\ Overrides(e, r) => (Prediction(e, r) = "normal" <=> q <= 100)
        /\ ~Overrides(e, r) => (Prediction(e, r) = "normal" <=> a <= 100)
    BY <1>1 DEF Prediction
  <1>7. Solid(e, r) <=> Answered(r) \/ a >= 180 \/ a <= 20
    BY Zenon, <1>2 DEF Solid
  <1>8. CASE Answered(r)
    BY SMT, <1>n, <1>3, <1>4, <1>5, <1>6, <1>7, <1>8, StatusFacts DEF One
  <1>9. CASE ~Answered(r)
    BY SMT, <1>n, <1>3, <1>4, <1>5, <1>6, <1>7, <1>9, StatusFacts DEF One
  <1>10. QED  BY <1>8, <1>9

(* Two outcomes of the same kind. *)
LEMMA SameKind ==
    ASSUME NEW r \in Routing, NEW s \in Routing, r.status = s.status
    PROVE  /\ Answered(r) <=> Answered(s)
           /\ r = Fallback <=> s = Fallback
  BY SMT DEF Routing, NotInvoked, Fallback, Answer, Answered

LEMMA StatusClimbs ==
    ASSUME NEW e \in Evidence, NEW f \in Evidence, NEW r \in Routing, NEW s \in Routing,
           PointsAtMost(e, r, f, s)
    PROVE  Suspicion[Status(e, r)] <= Suspicion[Status(f, s)]
  <1>1. PICK a \in 0..One, q \in 0..One, b \in 0..One, p \in 0..One :
           a = Attack(e) /\ q = r.attack /\ b = Attack(f) /\ p = s.attack
    BY Zenon, ScoreFacts
  <1>2. a <= b /\ q <= p
    <2>1. PICK j \in 0..100, k \in 0..100, m \in 0..100, n \in 0..100 :
             j = e.rf /\ k = e.xgb /\ m = f.rf /\ n = f.xgb
      BY Zenon, EvidenceFacts
    <2>2. a = j + k /\ b = m + n
      BY Zenon, <1>1, <2>1, EvidenceFacts
    <2>3. QED  BY <1>1, <2>1, <2>2 DEF PointsAtMost
  <1>3. Answered(r) <=> Answered(s)
    BY Zenon, SameKind DEF PointsAtMost
  <1>4. Status(f, s) = "normal" => Status(e, r) = "normal"
    BY SMT, <1>1, <1>2, <1>3, StatusInNumbers DEF One
  <1>5. Status(e, r) = "confirmed" => Status(f, s) = "confirmed"
    BY SMT, <1>1, <1>2, <1>3, StatusInNumbers DEF One
  <1>6. /\ Status(e, r) \in {"normal", "uncertain", "confirmed"}
        /\ Status(f, s) \in {"normal", "uncertain", "confirmed"}
    BY Zenon, StatusFacts
  <1>7. QED  BY <1>4, <1>5, <1>6 DEF Suspicion

(* Two percentages move apart by no more than they move. *)
LEMMA DistanceMoves ==
    ASSUME NEW j \in 0..100, NEW k \in 0..100, NEW m \in 0..100, NEW n \in 0..100,
           j <= m, k <= n
    PROVE  Distance(j, k) <= Distance(m, n) + (m + n) - (j + k)
  <1>1. CASE j > k /\ m > n
    BY <1>1 DEF Distance
  <1>2. CASE j > k /\ m <= n
    BY <1>2 DEF Distance
  <1>3. CASE j <= k /\ m > n
    BY <1>3 DEF Distance
  <1>4. CASE j <= k /\ m <= n
    BY <1>4 DEF Distance
  <1>5. QED  BY <1>1, <1>2, <1>3, <1>4

(* As long as no conflict is resolved, the score rises with the evidence:  *)
(* what the classifiers' mean gains outweighs what their disagreement loses.*)
LEMMA ScoreClimbs ==
    ASSUME NEW e \in Evidence, NEW f \in Evidence, NEW r \in Routing, NEW s \in Routing,
           PointsAtMost(e, r, f, s), Conflict(e, r) => Conflict(f, s)
    PROVE  Score(e, r) <= Score(f, s)
  <1>1. PICK a \in 0..One, q \in 0..One, n \in 0..One, d \in 0..One :
           a = Attack(e) /\ q = r.attack /\ n = e.anomaly /\ d = Disagreement(e)
    BY Zenon, ScoreFacts
  <1>2. PICK b \in 0..One, p \in 0..One, o \in 0..One, c \in 0..One :
           b = Attack(f) /\ p = s.attack /\ o = f.anomaly /\ c = Disagreement(f)
    BY Zenon, ScoreFacts
  <1>3. PICK i \in {0, One}, j \in {0, One} :
           i = Indicator(Conflict(e, r)) /\ j = Indicator(Conflict(f, s))
    BY Zenon, ScoreFacts
  <1>4. PICK h \in {0, One} : h = Indicator(r = Fallback) /\ h = Indicator(s = Fallback)
    <2>1. r = Fallback <=> s = Fallback
      BY Zenon, SameKind DEF PointsAtMost
    <2>2. QED  BY <2>1 DEF Indicator
  <1>5. Score(e, r) = 75 * (40 * a + 30 * q + 30 * n) + 25 * (34 * d + 33 * i + 33 * h)
    <2>1. Score(e, r) = 75 * (40 * Attack(e) + 30 * r.attack + 30 * e.anomaly)
                         + 25 * (34 * Disagreement(e) + 33 * Indicator(Conflict(e, r))
                                 + 33 * Indicator(r = Fallback))
      BY Zenon, ScoreFacts
    <2>2. QED  BY <1>1, <1>3, <1>4, <2>1
  <1>6. Score(f, s) = 75 * (40 * b + 30 * p + 30 * o) + 25 * (34 * c + 33 * j + 33 * h)
    <2>1. Score(f, s) = 75 * (40 * Attack(f) + 30 * s.attack + 30 * f.anomaly)
                         + 25 * (34 * Disagreement(f) + 33 * Indicator(Conflict(f, s))
                                 + 33 * Indicator(s = Fallback))
      BY Zenon, ScoreFacts
    <2>2. QED  BY <1>2, <1>3, <1>4, <2>1
  <1>7. i <= j
    BY <1>3 DEF Indicator, One
  <1>8. q <= p /\ n <= o
    BY <1>1, <1>2 DEF PointsAtMost
  <1>9. a <= b /\ d <= c + 2 * (b - a)
    <2>1. PICK t \in 0..100, u \in 0..100, v \in 0..100, w \in 0..100 :
             t = e.rf /\ u = e.xgb /\ v = f.rf /\ w = f.xgb
      BY Zenon, EvidenceFacts
    <2>2. a = t + u /\ b = v + w
      BY Zenon, <1>1, <1>2, <2>1, EvidenceFacts
    <2>3. t <= v /\ u <= w
      BY Zenon, <2>1 DEF PointsAtMost
    <2>4. PICK x \in 0..100, y \in 0..100 : x = Distance(t, u) /\ y = Distance(v, w)
      BY Zenon, DistanceFacts
    <2>5. d = 2 * x /\ c = 2 * y
      BY Zenon, <1>1, <1>2, <2>1, <2>4 DEF Disagreement, Percent
    <2>6. x <= y + (v + w) - (t + u)
      BY Zenon, <2>3, <2>4, DistanceMoves
    <2>7. QED  BY <2>2, <2>3, <2>5, <2>6
  <1>10. QED  BY SMT, <1>5, <1>6, <1>7, <1>8, <1>9 DEF One

(* A level's rank is its score's place among the thresholds. *)
LEMMA LevelClimbs ==
    ASSUME NEW m \in Int, NEW n \in Int, m <= n
    PROVE  Rank[LevelFromScore(m)] <= Rank[LevelFromScore(n)]
  BY SMT DEF LevelFromScore, Rank, Full, One

(* Evidence that points to an attack more, with an outcome of the same     *)
(* kind, never gets a lower risk level or a milder action: where the       *)
(* quantum answer settles a conflict, the score may fall, but then the     *)
(* attack is confirmed and has the floor HIGH, and nothing unsettled was   *)
(* CRITICAL.                                                               *)
THEOREM MoreEvidenceNeverRanksLower ==
    ASSUME NEW e \in Evidence, NEW f \in Evidence, NEW r \in Routing, NEW s \in Routing,
           PointsAtMost(e, r, f, s)
    PROVE  /\ Rank[RiskLevel(e, r)] <= Rank[RiskLevel(f, s)]
           /\ Severity[SelectAction(e, r)] <= Severity[SelectAction(f, s)]
  <1>1. Suspicion[Status(e, r)] <= Suspicion[Status(f, s)]
    BY Zenon, StatusClimbs
  <1>2. /\ Status(e, r) \in {"normal", "uncertain", "confirmed"}
        /\ Status(f, s) \in {"normal", "uncertain", "confirmed"}
    BY Zenon, StatusFacts
  <1>3. Score(e, r) \in Int /\ Score(f, s) \in Int
    BY Zenon, RiskLevelFacts
  <1>4. RiskLevel(e, r) \in Levels /\ RiskLevel(f, s) \in Levels
    BY Zenon, RiskLevelFacts
  <1>5. Rank[RiskLevel(e, r)] <= Rank[RiskLevel(f, s)]
    <2>1. CASE Status(f, s) = "confirmed"
      <3>1. RiskLevel(f, s) \in HighOrAbove
        BY Zenon, <2>1, RiskLevelFacts
      <3>2. CASE RiskLevel(e, r) = "CRITICAL"
        <4>1. /\ e.rf = 100 /\ e.xgb = 100 /\ e.anomaly = One
              /\ Answered(r) /\ r.attack = One
          BY Zenon, <3>2, CriticalNeedsCertainty
        <4>2. f.rf = 100 /\ f.xgb = 100 /\ f.anomaly = One /\ s.attack = One
          <5>1. f.rf \in 0..100 /\ f.xgb \in 0..100 /\ f.anomaly \in 0..One
            BY Zenon, EvidenceFacts
          <5>2. s.attack \in 0..One
            BY Zenon, RoutingFacts
          <5>3. QED  BY <4>1, <5>1, <5>2 DEF PointsAtMost, One
        <4>3. ~Conflict(e, r)
          <5>1. Attack(e) = One
            BY <4>1 DEF Attack, One
          <5>2. Status(e, r) = "confirmed"
            BY <4>1, <5>1, StatusInNumbers DEF One
          <5>3. QED  BY <5>2, StatusInNumbers
        <4>4. Score(e, r) <= Score(f, s)
          BY Zenon, <4>3, ScoreClimbs
        <4>5. 4 * Score(e, r) >= 3 * Full
          BY Zenon, <3>2, RiskLevelFacts
        <4>6. 4 * Score(f, s) >= 3 * Full
          BY <1>3, <4>4, <4>5 DEF Full, One
        <4>7. RiskLevel(f, s) = "CRITICAL"
          BY Zenon, <4>6, RiskLevelFacts
        <4>8. QED  BY <3>2, <4>7 DEF Rank
      <3>3. CASE RiskLevel(e, r) # "CRITICAL"
        BY <1>4, <3>1, <3>3 DEF Rank, Levels, HighOrAbove
      <3>4. QED  BY <3>2, <3>3
    <2>2. CASE Status(f, s) # "confirmed"
      <3>1. Status(e, r) # "confirmed"
        BY <1>1, <1>2, <2>2 DEF Suspicion
      <3>2. Conflict(e, r) => Conflict(f, s)
        <4>1. ASSUME Conflict(e, r)
              PROVE  Conflict(f, s)
          <5>1. Answered(r) /\ Status(e, r) = "uncertain"
            BY Zenon, <4>1, StatusInNumbers
          <5>2. Status(f, s) = "uncertain"
            BY <1>1, <1>2, <2>2, <5>1 DEF Suspicion
          <5>3. Answered(s)
            BY Zenon, <5>1, SameKind DEF PointsAtMost
          <5>4. QED  BY Zenon, <5>2, <5>3, StatusInNumbers
        <4>2. QED  BY <4>1
      <3>3. Score(e, r) <= Score(f, s)
        BY Zenon, <3>2, ScoreClimbs
      <3>4. /\ RiskLevel(e, r) = LevelFromScore(Score(e, r))
            /\ RiskLevel(f, s) = LevelFromScore(Score(f, s))
        BY Zenon, <2>2, <3>1 DEF RiskLevel
      <3>5. QED  BY Zenon, <1>3, <3>3, <3>4, LevelClimbs
    <2>3. QED  BY <2>1, <2>2
  <1>6. Severity[SelectAction(e, r)] <= Severity[SelectAction(f, s)]
    <2>1. /\ Levels = {"LOW", "MEDIUM", "HIGH", "CRITICAL"}
          /\ DOMAIN Rank = Levels
      BY DEF Levels, Rank
    <2>2. \A l \in Levels, m \in Levels :
             \A t, u \in {"normal", "uncertain", "confirmed"} :
                Rank[l] <= Rank[m] /\ Suspicion[t] <= Suspicion[u]
                   => Severity[risk_action_map[l][t]] <= Severity[risk_action_map[m][u]]
      BY SMT DEF Levels, Rank, Suspicion, Severity, risk_action_map, By
    <2>3. QED  BY Zenon, <1>1, <1>2, <1>4, <1>5, <2>2 DEF SelectAction
  <1>7. QED  BY <1>5, <1>6

(* The limit of the last theorem is the same kind of outcome.  A surer     *)
(* detector is not verified, and unverified evidence that is not yet       *)
(* certain counts for little: an attack at 69 % that the verifier confirms *)
(* is isolated, while one at 71 %, which nobody is asked about, is only    *)
(* monitored.                                                              *)
THEOREM SurerMayBeMilder ==
    LET Judged(p) == [rf |-> p, xgb |-> p, anomaly |-> 0]
    IN  /\ ShouldInvoke(Judged(69)) /\ ~ShouldInvoke(Judged(71))
        /\ SelectAction(Judged(69), Answer(One)) = "ISOLATE"
        /\ SelectAction(Judged(71), NotInvoked) = "MONITOR"
  <1> DEFINE Judged(p) == [rf |-> p, xgb |-> p, anomaly |-> 0]
             e == Judged(69)
             f == Judged(71)
  <1>1. /\ e \in Evidence /\ f \in Evidence
        /\ Attack(e) = 138 /\ Attack(f) = 142
        /\ Disagreement(e) = 0 /\ Disagreement(f) = 0
        /\ e.anomaly = 0 /\ f.anomaly = 0
    BY DEF Evidence, Attack, Disagreement, Percent, Distance, One
  <1>2. /\ Answer(One) \in Routing /\ Answered(Answer(One)) /\ Answer(One).attack = 200
        /\ NotInvoked \in Routing /\ ~Answered(NotInvoked) /\ NotInvoked.attack = 0
        /\ NotInvoked # Fallback
    BY SMT DEF Routing, Answer, Answered, NotInvoked, Fallback, One
  <1> HIDE DEF e, f
  <1>3. ShouldInvoke(e) /\ ~ShouldInvoke(f)
    BY <1>1 DEF ShouldInvoke, ConfidenceOf, Percent, One
  <1>4. SelectAction(e, Answer(One)) = "ISOLATE"
    <2>1. Status(e, Answer(One)) = "confirmed"
      BY <1>1, <1>2, StatusInNumbers
    <2>2. RiskLevel(e, Answer(One)) \in HighOrAbove
      BY Zenon, <1>1, <1>2, <2>1, RiskLevelFacts
    <2>3. RiskLevel(e, Answer(One)) # "CRITICAL"
      <3> SUFFICES ASSUME RiskLevel(e, Answer(One)) = "CRITICAL"
                   PROVE  FALSE
        OBVIOUS
      <3>1. PICK r \in Routing : r = Answer(One)
        BY Zenon, <1>2
      <3>2. e \in Evidence /\ RiskLevel(e, r) = "CRITICAL"
        BY Zenon, <1>1, <3>1
      <3>3. e.anomaly = One
        BY Zenon, <3>2, CriticalNeedsCertainty
      <3>4. QED  BY <1>1, <3>3 DEF One
    <2>4. RiskLevel(e, Answer(One)) = "HIGH"
      BY <2>2, <2>3 DEF HighOrAbove
    <2>5. QED  BY <2>1, <2>4 DEF SelectAction, risk_action_map, By
  <1>5. SelectAction(f, NotInvoked) = "MONITOR"
    <2>1. Status(f, NotInvoked) = "uncertain"
      BY <1>1, <1>2, StatusInNumbers, StatusFacts
    <2>2. Score(f, NotInvoked) = 426000
      <3>1. ~Conflict(f, NotInvoked)
        BY Zenon, <1>2 DEF Conflict
      <3>2. QED  BY <1>1, <1>2, <3>1 DEF Score, Threat, Uncertainty, Indicator
    <2>3. RiskLevel(f, NotInvoked) = "LOW"
      BY SMT, <2>1, <2>2 DEF RiskLevel, LevelFromScore, Full, One
    <2>4. QED  BY <2>1, <2>3 DEF SelectAction, risk_action_map, By
  <1>6. QED  BY Zenon, <1>3, <1>4, <1>5 DEF e, f

-----------------------------------------------------------------------------
(* The objects the stages build *)

LEMMA LabelFacts ==
    ASSUME NEW p \in Probability
    PROVE  /\ LabelOf(p) \in {"normal", "attack"}
           /\ ConfidenceOf(p) \in Probability
           /\ (IF LabelOf(p) = "attack" THEN ConfidenceOf(p) ELSE One - ConfidenceOf(p)) = p
  BY SMT DEF LabelOf, ConfidenceOf, Probability, One

LEMMA QuantumIsAdmitted ==
    ASSUME NEW r \in Routing, NEW why \in Reasons
    PROVE  /\ RoutingAdmits(RoutingDecision(r, why))
           /\ r.status \in {"not_invoked", "fallback", "success"}
           /\ QuantumResult(r).confidence \in Probability \cup {Absent}
  <1>1. /\ r.status \in {"not_invoked", "fallback", "success"}
        /\ r.attack \in Probability
    BY SMT DEF Routing, NotInvoked, Fallback, Answer, Probability, One
  <1>2. PICK c \in Probability : c = ConfidenceOf(r.attack)
    BY Zenon, <1>1, LabelFacts
  <1>3. PICK l \in {"normal", "attack"} : l = LabelOf(r.attack)
    BY Zenon, <1>1, LabelFacts
  <1>4. CASE r.status = "success"
    <2>1. QuantumResult(r) = [status |-> "success", prediction |-> l,
                              confidence |-> c, error |-> "none"]
      BY Zenon, <1>2, <1>3, <1>4 DEF QuantumResult, Answered
    <2>2. QED  BY SMT, <1>4, <2>1 DEF RoutingAdmits, RoutingDecision, QuantumAdmits, NoResult
  <1>5. CASE r.status \in {"not_invoked", "fallback"}
    <2>1. QuantumResult(r) = [status |-> "failed", prediction |-> "none",
                              confidence |-> Absent, error |-> "raised"]
      BY <1>5 DEF QuantumResult, Answered
    <2>2. QED
      BY SMT, <1>5, <2>1 DEF RoutingAdmits, RoutingDecision, QuantumAdmits, NoResult, Reasons
  <1>6. QED  BY <1>1, <1>4, <1>5

(* Whatever a detector can see and a router can return, no constructor     *)
(* raises, no clamp acts, the policy has an entry, and the quantum         *)
(* probability survives its passage through label and confidence.          *)
THEOREM EverythingIsAdmitted ==
    ASSUME NEW e \in Evidence, NEW r \in Routing
    PROVE  Admitted(e, r)
  <1>n. PICK a \in 0..One, q \in 0..One, n \in 0..One, d \in 0..One :
            a = Attack(e) /\ q = r.attack /\ n = e.anomaly /\ d = Disagreement(e)
    BY Zenon, ScoreFacts
  <1>i. PICK c \in {0, One}, f \in {0, One} :
            c = Indicator(Conflict(e, r)) /\ f = Indicator(r = Fallback)
    BY Zenon, ScoreFacts
  <1>1. ConfidenceOf(Attack(e)) \in Probability /\ ConfidenceOf(r.attack) \in Probability
    BY Zenon, <1>n, LabelFacts DEF Probability
  <1>2. DetectionAdmits(DetectionResult(e))
    <2>1. {ConfidenceOf(Attack(e)), a, One - a, n, d} \subseteq Probability
      BY <1>1 DEF Probability, One
    <2>2. QED  BY <1>n, <2>1 DEF DetectionAdmits, DetectionResult
  <1>3. \A why \in Reasons : RoutingAdmits(RoutingDecision(r, why))
    BY Zenon, QuantumIsAdmitted
  <1>4. HybridAdmits(HybridDecision(e, r))
    <2>1. FinalConfidence(e, r) \in Probability
      BY Zenon, <1>1 DEF FinalConfidence, Greater
    <2>2. Status(e, r) \in {"normal", "confirmed", "uncertain"}
      BY Zenon, StatusFacts
    <2>3. QuantumResult(r).confidence \in Probability \cup {Absent}
      BY Zenon, QuantumIsAdmitted DEF Reasons
    <2>4. Answered(r) => (IF r.status = "not_invoked" THEN "none" ELSE "VQC") # "none"
      BY DEF Answered
    <2>5. QED  BY SMT, <2>1, <2>2, <2>3, <2>4 DEF HybridAdmits, HybridDecision
  <1>5. QuantumAttack(HybridDecision(e, r)) = r.attack
    <2>1. CASE Answered(r)
      <3>1. /\ QuantumResult(r).prediction = LabelOf(r.attack)
            /\ QuantumResult(r).confidence = ConfidenceOf(r.attack)
        BY <2>1 DEF QuantumResult
      <3>2. QuantumAttack(HybridDecision(e, r)) =
              IF LabelOf(r.attack) = "attack" THEN ConfidenceOf(r.attack)
                                              ELSE One - ConfidenceOf(r.attack)
        BY <2>1, <3>1 DEF QuantumAttack, HybridDecision
      <3>3. QED  BY Zenon, <1>n, <3>2, LabelFacts DEF Probability
    <2>2. CASE ~Answered(r)
      BY <2>2, RoutingFacts DEF QuantumAttack, HybridDecision
    <2>3. QED  BY <2>1, <2>2
  <1>6. RiskAdmits(e, r)
    <2>1. /\ Threat(e, r) = 40 * a + 30 * q + 30 * n
          /\ Uncertainty(e, r) = 34 * d + 33 * c + 33 * f
          /\ Score(e, r) = 75 * Threat(e, r) + 25 * Uncertainty(e, r)
      BY Zenon, <1>n, <1>i DEF Threat, Uncertainty, Score
    <2>2. 40 * a + 30 * q + 30 * n \in 0..100 * One
      BY SMT DEF One
    <2>3. 34 * d + 33 * c + 33 * f \in 0..100 * One
      BY SMT DEF One
    <2>4. PICK t \in 0..100 * One : t = Threat(e, r)
      BY <2>1, <2>2
    <2>5. PICK u \in 0..100 * One : u = Uncertainty(e, r)
      BY <2>1, <2>3
    <2>6. 75 * t + 25 * u \in 0..Full
      <3>1. PICK x \in Nat : x = 100 * One
        BY SMT DEF One
      <3>2. Full = 100 * x
        BY SMT, <3>1 DEF Full, One
      <3>3. 0 <= t /\ t <= x /\ 0 <= u /\ u <= x /\ t \in Int /\ u \in Int
        BY SMT, <3>1
      <3>4. 75 * t + 25 * u >= 0 /\ 75 * t + 25 * u <= 100 * x /\ 75 * t + 25 * u \in Int
        BY SMT, <3>3
      <3>5. QED  BY SMT, <3>2, <3>4
    <2>7. Score(e, r) \in 0..Full
      BY <2>1, <2>4, <2>5, <2>6
    <2>8. RiskLevel(e, r) \in Levels
      BY Zenon, RiskLevelFacts
    <2>9. QED  BY <2>4, <2>5, <2>7, <2>8 DEF RiskAdmits
  <1>7. PolicyAdmits(e, r)
    <2>1. RiskLevel(e, r) \in Levels /\ Status(e, r) \in {"normal", "confirmed", "uncertain"}
      BY Zenon, RiskLevelFacts, StatusFacts
    <2>2. QED  BY SMT, <2>1 DEF PolicyAdmits, risk_action_map, By, Levels
  <1>8. QED  BY Zenon, <1>2, <1>3, <1>4, <1>5, <1>6, <1>7 DEF Admitted

-----------------------------------------------------------------------------
(* The worker *)

(* A source's one session is active, suspended, or dropped. *)
Sound(source) == source \in SourceState /\ source.sessions + source.suspended <= 1

(* A restriction stands with everything that belongs to it. *)
Consistent(source) ==
    /\ source.isolated => source.sessions = 0 /\ source.suspended = 1
    /\ source.blocked => source.rate_limited /\ source.sessions = 0

(* No attempt loses or invents a session. *)
LEMMA AttemptsAreSound ==
    ASSUME NEW a \in Actions, NEW src, Sound(src)
    PROVE  Sound(Effect(a, src)) /\ Sound(PartialEffect(a, src))
  BY SMT DEF Effect, PartialEffect, Sound, SourceState, CutsOff

(* An action that changes one field fails without any change. *)
LEMMA NothingPartial ==
    ASSUME NEW a \in {"MONITOR", "RATE_LIMIT"}, NEW src \in SourceState
    PROVE  PartialEffect(a, src) = src
  BY SMT DEF PartialEffect, SourceState

(* Executing again, fully or in part, adds nothing but what was missing:   *)
(* after any number of attempts the source is as after one of them.        *)
LEMMA Idempotent ==
    ASSUME NEW a \in Actions, NEW src, Sound(src)
    PROVE  /\ Effect(a, Effect(a, src)) = Effect(a, src)
           /\ Effect(a, PartialEffect(a, src)) = Effect(a, src)
           /\ PartialEffect(a, Effect(a, src)) = Effect(a, src)
           /\ PartialEffect(a, PartialEffect(a, src)) = PartialEffect(a, src)
  <1> USE DEF Sound, SourceState, CutsOff, Actions
  <1>1. Effect(a, Effect(a, src)) = Effect(a, src)
    BY SMT DEF Effect
  <1>2. Effect(a, PartialEffect(a, src)) = Effect(a, src)
    BY SMT DEF Effect, PartialEffect
  <1>3. PartialEffect(a, Effect(a, src)) = Effect(a, src)
    <2>1. CASE a = "ISOLATE"
      BY SMT, <2>1 DEF Effect, PartialEffect
    <2>2. CASE a = "BLOCK"
      BY SMT, <2>2 DEF Effect, PartialEffect
    <2>3. CASE a = "INCREASE_MONITORING"
      BY SMT, <2>3 DEF Effect, PartialEffect
    <2>4. CASE a \in {"MONITOR", "RATE_LIMIT"}
      <3>1. Effect(a, src) \in SourceState
        BY Zenon, AttemptsAreSound
      <3>2. QED  BY Zenon, <2>4, <3>1, NothingPartial
    <2>5. QED  BY <2>1, <2>2, <2>3, <2>4
  <1>4. PartialEffect(a, PartialEffect(a, src)) = PartialEffect(a, src)
    BY SMT DEF PartialEffect
  <1>5. QED  BY <1>1, <1>2, <1>3, <1>4

(* No action takes away what another one put into effect. *)
LEMMA Monotone ==
    ASSUME NEW a \in Actions, NEW b \in Actions, NEW src, Sound(src), InEffect(b, src)
    PROVE  InEffect(b, Effect(a, src)) /\ InEffect(b, PartialEffect(a, src))
  <1>1. InEffect(b, Effect(a, src))
    BY SMT DEF Effect, InEffect, Sound, SourceState, CutsOff, Actions
  <1>2. InEffect(b, PartialEffect(a, src))
    BY SMT DEF PartialEffect, InEffect, Sound, SourceState, CutsOff, Actions
  <1>3. QED  BY <1>1, <1>2

(* A verified attempt is one that took the whole effect. *)
LEMMA VerifiedMeansWhole ==
    ASSUME NEW a \in Actions, NEW src, Sound(src), ~AlreadyActive(a, src),
           InEffect(a, PartialEffect(a, src))
    PROVE  PartialEffect(a, src) = Effect(a, src)
  BY SMT DEF Effect, PartialEffect, InEffect, AlreadyActive, Sound, SourceState, CutsOff, Actions

(* On a consistent source "already active" means in effect. *)
LEMMA ActiveMeansInEffect ==
    ASSUME NEW a \in Actions, NEW src \in SourceState, Consistent(src), AlreadyActive(a, src)
    PROVE  InEffect(a, src)
  BY SMT DEF InEffect, AlreadyActive, Consistent, SourceState, Actions

(* A verified action leaves a consistent source. *)
LEMMA StaysConsistent ==
    ASSUME NEW a \in Actions, NEW src, Sound(src), Consistent(src), InEffect(a, Effect(a, src))
    PROVE  Consistent(Effect(a, src))
  BY SMT DEF Effect, InEffect, Consistent, Sound, SourceState, CutsOff, Actions

-----------------------------------------------------------------------------
(* The inductive invariant *)

SourcesSound == /\ \A s \in Samples : Sound(sources[s])
                /\ Busy => Sound(engine.before)

(* What is delivered or reported belongs to a sample that was observed. *)
OnlySeen == /\ \A m \in inbox : Seen(m.sample)
            /\ \A r \in results : /\ Seen(r.message.sample)
                                  /\ r.action = Action(r.message)
                                  /\ r.life <= crashes

(* Between the first attempt and the report the source is as after one     *)
(* whole or one partial execution of the selected action.                  *)
Working == Busy => /\ engine.action = Action(engine.message)
                   /\ ~AlreadyActive(engine.action, engine.before)
                   /\ sources[engine.message.sample] \in
                        {Effect(engine.action, engine.before),
                         PartialEffect(engine.action, engine.before)}

(* Seen from outside, restrictions are complete, and those reported        *)
(* healthy are in effect.                                                  *)
Standing == /\ \A s \in Samples : Consistent(Settled(s))
            /\ \A r \in results : r.life = crashes /\ r.health = "HEALTHY"
                                    => InEffect(r.action, Settled(r.message.sample))

IInv == TypeOK /\ SourcesSound /\ OnlySeen /\ Working /\ Standing

(* What the worker computes from a message it was delivered. *)
LEMMA MessageFacts ==
    ASSUME TypeOK, NEW m \in Message, Seen(m.sample)
    PROVE  /\ m.sample \in Samples /\ m.routing \in Routing
           /\ evidence[m.sample] \in Observations /\ evidence[m.sample] \in Evidence
           /\ Action(m) \in Actions
  <1>1. m.sample \in Samples /\ m.routing \in Routing
    BY DEF Message
  <1>2. evidence[m.sample] \in Observations /\ evidence[m.sample] \in Evidence
    BY <1>1, DefenseAssumption DEF TypeOK, Seen
  <1>3. QED  BY Zenon, <1>1, <1>2, ActionFacts DEF Action

(* A report is all a handler leaves behind, but for the source. *)
LEMMA ReportFacts ==
    ASSUME TypeOK, NEW m \in inbox, NEW a \in Actions, NEW status, NEW recovery, NEW health,
           status \in {"REJECTED", "EXECUTED", "FAILED"},
           recovery \in {"NOT_ATTEMPTED", "SUCCESS", "FAILED"},
           health \in {"HEALTHY", "UNHEALTHY"},
           Report(m, a, status, recovery, health)
    PROVE  /\ engine' = Idle
           /\ inbox' \subseteq Message
           /\ \A m2 \in inbox' : \E m1 \in inbox : m1.sample = m2.sample
           /\ sent' \in [Samples -> 0..MaxCopies]
           /\ results' \subseteq Result
           /\ \A r \in results' : r \in results
                 \/ r = [message |-> m, life |-> crashes, action |-> a, status |-> status,
                         recovery |-> recovery, health |-> health]
  <1>1. inbox \subseteq Message /\ m \in Message /\ m.sample \in Samples
    BY DEF TypeOK, Message
  <1>2. CASE /\ results' = results \cup {[message |-> m, life |-> crashes, action |-> a,
                                          status |-> status, recovery |-> recovery,
                                          health |-> health]}
             /\ inbox' = inbox \ {m}
             /\ UNCHANGED sent
    <2>1. [message |-> m, life |-> crashes, action |-> a, status |-> status,
           recovery |-> recovery, health |-> health] \in Result
      BY SMT, <1>1 DEF Result, TypeOK
    <2>2. QED  BY Zenon, <1>1, <1>2, <2>1 DEF Report, TypeOK
  <1>3. CASE /\ sent[m.sample] < MaxCopies
             /\ sent' = [sent EXCEPT ![m.sample] = @ + 1]
             /\ inbox' = (inbox \ {m}) \cup {[m EXCEPT !.copy = sent'[m.sample]]}
             /\ UNCHANGED results
    <2>1. sent'[m.sample] \in 1..MaxCopies /\ sent' \in [Samples -> 0..MaxCopies]
      BY <1>1, <1>3, DefenseAssumption DEF TypeOK
    <2>2. /\ [m EXCEPT !.copy = sent'[m.sample]] \in Message
          /\ [m EXCEPT !.copy = sent'[m.sample]].sample = m.sample
      BY SMT, <1>1, <2>1 DEF Message
    <2>3. QED  BY Zenon, <1>1, <1>3, <2>1, <2>2 DEF Report, TypeOK
  <1>4. QED  BY Zenon, <1>2, <1>3 DEF Report

LEMMA InitInvariant == Init => IInv
  <1> SUFFICES ASSUME Init PROVE IInv
    OBVIOUS
  <1> USE DEF Init
  <1>1. Sound(Fresh) /\ Consistent(Fresh)
    BY SMT DEF Sound, Consistent, Fresh, SourceState
  <1>2. engine = Idle /\ ~Busy
    BY DEF Idle, Busy
  <1>3. TypeOK
    BY SMT, <1>1, DefenseAssumption DEF TypeOK, Sound
  <1>4. QED
    BY Zenon, <1>1, <1>2, <1>3 DEF IInv, SourcesSound, OnlySeen, Working, Standing, Settled

(* Deliveries leave the sources, the engine and the results alone, and     *)
(* what was observed of a sample stays.                                    *)
LEMMA DeliveryStep ==
    ASSUME IInv, NEW s \in Samples, Arrive(s) \/ Redeliver(s)
    PROVE  IInv'
  <1> USE DEF IInv
  <1>1. UNCHANGED <<sources, faulty, engine, results, crashes>>
    BY DEF Arrive, Redeliver
  <1>2. /\ evidence' \in [Samples -> Observations \cup {Unseen}]
        /\ sent' \in [Samples -> 0..MaxCopies]
        /\ inbox \subseteq inbox' /\ inbox' \subseteq Message
        /\ \A m \in inbox' : m \in inbox \/ evidence'[m.sample] # Unseen
        /\ \A t \in Samples : Seen(t) => evidence'[t] = evidence[t]
    <2>1. CASE Arrive(s)
      <3>1. PICK e \in Observations : \E r \in Outcomes(e, QuantumAnswers) :
               /\ evidence' = [evidence EXCEPT ![s] = e]
               /\ inbox' = inbox \cup {[sample |-> s, copy |-> 1, routing |-> r]}
        BY <2>1 DEF Arrive
      <3>2. PICK r \in Outcomes(e, QuantumAnswers) :
               inbox' = inbox \cup {[sample |-> s, copy |-> 1, routing |-> r]}
        BY <3>1
      <3>3. r \in Routing
        BY <3>2, DefenseAssumption DEF Outcomes, Routing
      <3>4. [sample |-> s, copy |-> 1, routing |-> r] \in Message
        BY <3>3, DefenseAssumption DEF Message
      <3>5. e # Unseen
        BY DefenseAssumption DEF Evidence, Unseen
      <3>6. ~Seen(s) /\ sent' = [sent EXCEPT ![s] = 1]
        BY <2>1 DEF Arrive
      <3>7. sent' \in [Samples -> 0..MaxCopies]
        BY <3>6, DefenseAssumption DEF TypeOK
      <3>8. evidence' \in [Samples -> Observations \cup {Unseen}] /\ evidence'[s] = e
        BY <3>1 DEF TypeOK
      <3>9. \A t \in Samples : Seen(t) => evidence'[t] = evidence[t]
        BY <3>1, <3>6 DEF TypeOK, Seen
      <3>10. QED
        BY <3>2, <3>4, <3>5, <3>7, <3>8, <3>9 DEF TypeOK
    <2>2. CASE Redeliver(s)
      <3>1. evidence' = evidence /\ Seen(s) /\ sent[s] < MaxCopies
              /\ sent' = [sent EXCEPT ![s] = @ + 1]
        BY <2>2 DEF Redeliver
      <3>2. sent' \in [Samples -> 0..MaxCopies] /\ sent'[s] \in 1..MaxCopies
        BY <3>1, DefenseAssumption DEF TypeOK
      <3>3. PICK r \in Outcomes(evidence[s], QuantumAnswers) :
               inbox' = inbox \cup {[sample |-> s, copy |-> sent'[s], routing |-> r]}
        BY <2>2 DEF Redeliver
      <3>4. r \in Routing
        BY <3>3, DefenseAssumption DEF Outcomes, Routing
      <3>5. [sample |-> s, copy |-> sent'[s], routing |-> r] \in Message
        BY <3>2, <3>4 DEF Message
      <3>6. QED
        BY <3>1, <3>2, <3>3, <3>5 DEF TypeOK, Seen
    <2>3. QED  BY <2>1, <2>2
  <1>3. TypeOK'
    BY <1>1, <1>2 DEF TypeOK
  <1>4. \A m \in Message : Seen(m.sample) => evidence'[m.sample] = evidence[m.sample]
                                              /\ (Seen(m.sample))' /\ (Action(m))' = Action(m)
    <2> SUFFICES ASSUME NEW m \in Message, Seen(m.sample)
                 PROVE  /\ evidence'[m.sample] = evidence[m.sample]
                        /\ evidence'[m.sample] # Unseen
                        /\ SelectAction(evidence'[m.sample], m.routing)
                             = SelectAction(evidence[m.sample], m.routing)
      BY Zenon DEF Seen, Action
    <2>1. m.sample \in Samples
      BY DEF Message
    <2>2. QED  BY Zenon, <1>2, <2>1 DEF Seen
  <1>5. OnlySeen'
    <2>1. \A r \in results : r.message \in Message
      BY DEF TypeOK, Result
    <2>2. QED  BY Zenon, <1>1, <1>2, <1>4, <2>1 DEF OnlySeen, TypeOK, Seen
  <1>6. Busy' = Busy /\ \A t \in Samples : (Settled(t))' = Settled(t)
    BY Zenon, <1>1 DEF Busy, Settled
  <1>7. Working'
    <2>1. Busy => engine.message \in Message /\ Seen(engine.message.sample)
      BY DEF TypeOK, OnlySeen, Busy, Idle, Down
    <2>2. QED  BY Zenon, <1>1, <1>4, <1>6, <2>1 DEF Working
  <1>8. SourcesSound' /\ Standing'
    <2>1. \A r \in results : r.message.sample \in Samples
      BY DEF TypeOK, Result, Message
    <2>2. QED  BY Zenon, <1>1, <1>6, <2>1 DEF SourcesSound, Standing
  <1>9. QED  BY <1>3, <1>5, <1>7, <1>8

(* Every way a handler ends: the source is left in a consistent state      *)
(* where what was in effect still is, the reported action included if it   *)
(* is called healthy.                                                      *)
LEMMA ReportStep ==
    ASSUME IInv, NEW m \in inbox, NEW status, NEW recovery, NEW health,
           status \in {"REJECTED", "EXECUTED", "FAILED"},
           recovery \in {"NOT_ATTEMPTED", "SUCCESS", "FAILED"},
           health \in {"HEALTHY", "UNHEALTHY"},
           Report(m, Action(m), status, recovery, health),
           UNCHANGED <<evidence, faulty, crashes>>,
           sources' \in [Samples -> SourceState],
           \A s \in Samples : s # m.sample => sources'[s] = Settled(s),
           \A s \in Samples : Sound(sources'[s]),
           Consistent(sources'[m.sample]),
           \A b \in Actions : InEffect(b, Settled(m.sample)) => InEffect(b, sources'[m.sample]),
           health = "HEALTHY" => InEffect(Action(m), sources'[m.sample])
    PROVE  IInv'
  <1> DEFINE new == [message |-> m, life |-> crashes, action |-> Action(m),
                     status |-> status, recovery |-> recovery, health |-> health]
  <1>1. TypeOK /\ m \in Message /\ Seen(m.sample) /\ m.sample \in Samples
    BY DEF IInv, TypeOK, OnlySeen, Message
  <1>2. Action(m) \in Actions
    BY Zenon, <1>1, MessageFacts
  <1>3. /\ engine' = Idle
        /\ inbox' \subseteq Message
        /\ \A m2 \in inbox' : \E m1 \in inbox : m1.sample = m2.sample
        /\ sent' \in [Samples -> 0..MaxCopies]
        /\ results' \subseteq Result
        /\ \A r \in results' : r \in results \/ r = new
    BY <1>1, <1>2, ReportFacts
  <1>4. /\ new.message = m /\ new.life = crashes /\ new.action = Action(m)
        /\ new.health = health
    BY DEF new
  <1> HIDE DEF new
  <1>5. TypeOK'
    BY <1>1, <1>3 DEF TypeOK
  <1>6. Busy' = FALSE /\ \A s \in Samples : (Settled(s))' = sources'[s]
    BY <1>3 DEF Busy, Settled, Idle
  <1>7. SourcesSound' /\ Working'
    BY Zenon, <1>6 DEF SourcesSound, Working
  <1>8. OnlySeen'
    <2>1. \A m2 \in inbox' : (Seen(m2.sample))'
      BY Zenon, <1>3 DEF IInv, OnlySeen, Seen
    <2>2. ASSUME NEW r \in results'
          PROVE  (Seen(r.message.sample) /\ r.action = Action(r.message) /\ r.life <= crashes)'
      <3>1. CASE r \in results
        BY Zenon, <3>1 DEF IInv, OnlySeen, Seen, Action
      <3>2. CASE r = new
        <4>1. crashes <= crashes
          BY <1>1 DEF TypeOK
        <4>2. QED  BY Zenon, <1>1, <1>4, <3>2, <4>1 DEF Seen, Action
      <3>3. QED  BY <1>3, <3>1, <3>2
    <2>3. QED  BY Zenon, <2>1, <2>2 DEF OnlySeen
  <1>9. Standing'
    <2>1. ASSUME NEW s \in Samples
          PROVE  Consistent(sources'[s])
      BY Zenon DEF IInv, Standing
    <2>2. ASSUME NEW r \in results', r.life = crashes, r.health = "HEALTHY"
          PROVE  InEffect(r.action, sources'[r.message.sample]) /\ r.message.sample \in Samples
      <3>1. CASE r \in results
        <4>1. r.message.sample \in Samples /\ r.action \in Actions
          BY <3>1, <1>1 DEF TypeOK, Result, Message
        <4>2. InEffect(r.action, Settled(r.message.sample))
          BY Zenon, <3>1, <2>2 DEF IInv, Standing
        <4>3. QED  BY Zenon, <4>1, <4>2
      <3>2. CASE r = new
        BY Zenon, <1>1, <1>4, <2>2, <3>2
      <3>3. QED  BY <1>3, <3>1, <3>2
    <2>3. QED  BY Zenon, <1>6, <2>1, <2>2 DEF Standing
  <1>10. QED  BY <1>5, <1>7, <1>8, <1>9 DEF IInv

(* Of the validator's rules only the one about active actions can fail.   *)
LEMMA ValidationFacts ==
    ASSUME TypeOK, NEW m \in Message, Seen(m.sample)
    PROVE  /\ Permitted(m, Action(m))
           /\ Validated(m, Action(m)) <=> ~AlreadyActive(Action(m), sources[m.sample])
  <1>1. Action(m) \in Actions
    BY Zenon, MessageFacts
  <1>2. Permitted(m, Action(m))
    BY <1>1 DEF Permitted, simulation_mode, disabled_actions, Known
  <1>3. Reversible(Action(m))
    BY <1>1 DEF Reversible, Actions
  <1>4. QED  BY Zenon, <1>2, <1>3 DEF Validated

LEMMA RejectStep ==
    ASSUME IInv, NEW m \in inbox, Reject(m, Action(m))
    PROVE  IInv'
  <1>1. TypeOK /\ m \in Message /\ Seen(m.sample) /\ m.sample \in Samples
    BY DEF IInv, TypeOK, OnlySeen, Message
  <1>2. Action(m) \in Actions
    BY Zenon, <1>1, MessageFacts
  <1>3. /\ Report(m, Action(m), "REJECTED", "NOT_ATTEMPTED", "HEALTHY")
        /\ UNCHANGED <<evidence, sources, faulty, crashes>>
        /\ engine = Idle /\ AlreadyActive(Action(m), sources[m.sample])
    BY Zenon, <1>1, ValidationFacts DEF Reject
  <1>4. \A s \in Samples : Settled(s) = sources[s]
    BY <1>3 DEF Settled, Busy, Idle
  <1>5. /\ sources' \in [Samples -> SourceState]
        /\ \A s \in Samples : sources'[s] = Settled(s) /\ Sound(sources'[s])
    BY Zenon, <1>1, <1>3, <1>4 DEF TypeOK, IInv, SourcesSound
  <1>6. Consistent(sources'[m.sample])
    BY Zenon, <1>1, <1>5 DEF IInv, Standing
  <1>7. InEffect(Action(m), sources'[m.sample])
    <2>1. sources'[m.sample] \in SourceState /\ sources'[m.sample] = sources[m.sample]
      BY Zenon, <1>1, <1>3, <1>5 DEF Sound
    <2>2. QED  BY Zenon, <1>2, <1>3, <1>6, <2>1, ActiveMeansInEffect
  <1>8. QED  BY <1>1, <1>3, <1>5, <1>6, <1>7, ReportStep

(* What an invariant state says of the action under way. *)
LEMMA BusyFacts ==
    ASSUME IInv, Busy
    PROVE  /\ engine.message \in inbox /\ engine.message.sample \in Samples
           /\ engine.action \in Actions /\ engine.action = Action(engine.message)
           /\ Sound(engine.before) /\ engine.before \in SourceState
           /\ Settled(engine.message.sample) = engine.before
           /\ Consistent(engine.before)
           /\ \A s \in Samples : s # engine.message.sample => Settled(s) = sources[s]
           /\ engine \in [at : {"executed"}, message : inbox, action : Actions,
                          before : SourceState, retries : 0..MaxRetries]
  <1>1. engine \in [at : {"executed"}, message : inbox, action : Actions,
                    before : SourceState, retries : 0..MaxRetries]
    BY DEF IInv, TypeOK, Busy, Idle, Down
  <1>2. engine.message \in inbox /\ engine.message.sample \in Samples
    BY <1>1 DEF IInv, TypeOK, Message
  <1>3. Settled(engine.message.sample) = engine.before
    BY DEF Settled
  <1>4. Consistent(engine.before)
    BY Zenon, <1>2, <1>3 DEF IInv, Standing
  <1>5. engine.action \in Actions /\ engine.before \in SourceState
    BY <1>1
  <1>6. engine.action = Action(engine.message) /\ Sound(engine.before)
    BY Zenon DEF IInv, Working, SourcesSound
  <1>7. \A s \in Samples : s # engine.message.sample => Settled(s) = sources[s]
    BY Zenon DEF Settled
  <1>8. QED  BY Zenon, <1>1, <1>2, <1>3, <1>4, <1>5, <1>6, <1>7

(* A verified source has the whole effect. *)
LEMMA VerifiedSource ==
    ASSUME IInv, Busy, Verified
    PROVE  sources[engine.message.sample] = Effect(engine.action, engine.before)
  <1>1. CASE sources[engine.message.sample] = PartialEffect(engine.action, engine.before)
    BY Zenon, <1>1, BusyFacts, VerifiedMeansWhole DEF IInv, Working, Verified
  <1>2. QED  BY Zenon, <1>1 DEF IInv, Working

LEMMA ConfirmStep ==
    ASSUME IInv, Confirm
    PROVE  IInv'
  <1> DEFINE m == engine.message
             recovery == IF engine.retries = 0 THEN "NOT_ATTEMPTED" ELSE "SUCCESS"
  <1>1. /\ Busy /\ Verified
        /\ Report(m, engine.action, "EXECUTED", recovery, "HEALTHY")
        /\ UNCHANGED <<evidence, sources, faulty, crashes>>
    BY DEF Confirm
  <1>2. recovery \in {"NOT_ATTEMPTED", "SUCCESS", "FAILED"}
    OBVIOUS
  <1>3. /\ m \in inbox /\ m.sample \in Samples /\ engine.action = Action(m)
        /\ Action(m) \in Actions /\ Sound(engine.before) /\ Consistent(engine.before)
        /\ Settled(m.sample) = engine.before
        /\ \A s \in Samples : s # m.sample => Settled(s) = sources[s]
    BY Zenon, <1>1, BusyFacts
  <1> HIDE DEF m, recovery
  <1>4. sources'[m.sample] = Effect(Action(m), engine.before)
    BY Zenon, <1>1, <1>3, VerifiedSource DEF m
  <1>5. InEffect(Action(m), sources'[m.sample])
    BY Zenon, <1>1, <1>3 DEF Verified, m
  <1>6. Consistent(sources'[m.sample])
    BY Zenon, <1>3, <1>4, <1>5, StaysConsistent
  <1>7. \A b \in Actions : InEffect(b, Settled(m.sample)) => InEffect(b, sources'[m.sample])
    BY Zenon, <1>3, <1>4, Monotone
  <1>8. /\ sources' \in [Samples -> SourceState]
        /\ \A s \in Samples : s # m.sample => sources'[s] = Settled(s)
        /\ \A s \in Samples : Sound(sources'[s])
    BY Zenon, <1>1, <1>3 DEF IInv, TypeOK, SourcesSound
  <1>9. QED  BY <1>1, <1>2, <1>3, <1>5, <1>6, <1>7, <1>8, ReportStep

LEMMA RollbackStep ==
    ASSUME IInv, Rollback
    PROVE  IInv'
  <1> DEFINE m == engine.message
  <1>1. /\ Busy
        /\ sources' = [sources EXCEPT ![m.sample] = engine.before]
        /\ Report(m, engine.action, "FAILED", "FAILED", "UNHEALTHY")
        /\ UNCHANGED <<evidence, faulty, crashes>>
    BY DEF Rollback
  <1>2. /\ m \in inbox /\ m.sample \in Samples /\ engine.action = Action(m)
        /\ Sound(engine.before) /\ engine.before \in SourceState
        /\ Consistent(engine.before) /\ Settled(m.sample) = engine.before
        /\ \A s \in Samples : s # m.sample => Settled(s) = sources[s]
    BY Zenon, <1>1, BusyFacts
  <1> HIDE DEF m
  <1>3. sources \in [Samples -> SourceState] /\ \A s \in Samples : Sound(sources[s])
    BY DEF IInv, TypeOK, SourcesSound
  <1>4. /\ sources' \in [Samples -> SourceState]
        /\ sources'[m.sample] = Settled(m.sample)
        /\ \A s \in Samples : s # m.sample => sources'[s] = Settled(s)
    BY Zenon, <1>1, <1>2, <1>3
  <1>5. \A s \in Samples : Sound(sources'[s])
    BY Zenon, <1>2, <1>3, <1>4
  <1>6. QED  BY <1>1, <1>2, <1>4, <1>5, ReportStep

(* Steps that only replace the fault injection or the engine's standstill. *)
LEMMA QuietStep ==
    ASSUME IInv, UNCHANGED <<evidence, inbox, sent, sources, results, crashes>>,
           faulty' \subseteq Samples,
           engine' = engine \/ (engine \in {Idle, Down} /\ engine' \in {Idle, Down})
    PROVE  IInv'
  <1>1. TypeOK'
    BY DEF IInv, TypeOK
  <1>2. Busy' = Busy /\ (Busy => engine' = engine)
    BY DEF Busy, Idle, Down
  <1>3. \A s \in Samples : (Settled(s))' = Settled(s)
    BY Zenon, <1>2 DEF Settled
  <1>4. \A r \in results : r.message.sample \in Samples
    BY DEF IInv, TypeOK, Result, Message
  <1>5. SourcesSound' /\ OnlySeen' /\ Working' /\ Standing'
    BY Zenon, <1>2, <1>3, <1>4
       DEF IInv, SourcesSound, OnlySeen, Working, Standing, Seen, Action
  <1>6. QED  BY <1>1, <1>5 DEF IInv

(* An attempt, the first one or a later one: outside, nothing happened. *)
LEMMA AttemptStep ==
    ASSUME IInv, NEW m \in inbox, NEW before \in SourceState, NEW retries \in 0..MaxRetries,
           engine \in {Idle, Down} \/ engine.message = m,
           Execute(Action(m), m.sample),
           engine' = [at |-> "executed", message |-> m, action |-> Action(m),
                      before |-> before, retries |-> retries],
           UNCHANGED <<evidence, inbox, sent, faulty, results, crashes>>,
           Sound(before), before = Settled(m.sample), ~AlreadyActive(Action(m), before),
           sources[m.sample] \in {before, Effect(Action(m), before),
                                  PartialEffect(Action(m), before)}
    PROVE  IInv'
  <1> DEFINE a == Action(m)
  <1>1. TypeOK /\ m \in Message /\ Seen(m.sample) /\ m.sample \in Samples
    BY DEF IInv, TypeOK, OnlySeen, Message
  <1>2. a \in Actions
    BY Zenon, <1>1, MessageFacts
  <1>3. /\ engine'.message = m /\ engine'.action = a /\ engine'.before = before /\ Busy'
        /\ engine' \in [at : {"executed"}, message : inbox, action : Actions,
                        before : SourceState, retries : 0..MaxRetries]
    BY <1>2 DEF Busy
  <1> HIDE DEF a
  <1>4. sources \in [Samples -> SourceState] /\ \A s \in Samples : Sound(sources[s])
    BY Zenon DEF IInv, TypeOK, SourcesSound
  <1>5. /\ sources'[m.sample] \in {Effect(a, before), PartialEffect(a, before)}
        /\ \A s \in Samples : s # m.sample => sources'[s] = sources[s]
        /\ DOMAIN sources' = Samples /\ sources' = [s \in Samples |-> sources'[s]]
    <2>1. /\ Effect(a, sources[m.sample]) = Effect(a, before)
          /\ PartialEffect(a, sources[m.sample]) \in {Effect(a, before), PartialEffect(a, before)}
      BY Zenon, <1>2, Idempotent DEF a
    <2>2. sources' = [sources EXCEPT ![m.sample] =
                        IF m.sample \in faulty THEN PartialEffect(a, sources[m.sample])
                                               ELSE Effect(a, sources[m.sample])]
      BY Zenon DEF Execute, a
    <2>3. QED  BY Zenon, <1>1, <1>4, <2>1, <2>2
  <1>6. \A s \in Samples : Sound(sources'[s])
    <2>1. Sound(sources'[m.sample])
      BY Zenon, <1>2, <1>5, AttemptsAreSound
    <2>2. QED  BY Zenon, <1>4, <1>5, <2>1
  <1>7. sources' \in [Samples -> SourceState]
    BY Zenon, <1>5, <1>6 DEF Sound
  <1>8. TypeOK'
    <2>1. engine' \in [at : {"executed"}, message : inbox', action : Actions,
                       before : SourceState, retries : 0..MaxRetries]
      BY <1>3
    <2>2. QED  BY Zenon, <1>1, <1>7, <2>1 DEF TypeOK, Seen
  <1>9. \A s \in Samples : (Settled(s))' = Settled(s)
    <2>1. (Settled(m.sample))' = Settled(m.sample)
      BY Zenon, <1>3 DEF Settled
    <2>2. ASSUME NEW s \in Samples, s # m.sample
          PROVE  (Settled(s))' = Settled(s)
      <3>1. (Settled(s))' = sources[s]
        BY Zenon, <1>3, <1>5, <2>2 DEF Settled
      <3>2. Settled(s) = sources[s]
        BY <2>2 DEF Settled, Busy, Idle, Down
      <3>3. QED  BY <3>1, <3>2
    <2>3. QED  BY Zenon, <2>1, <2>2
  <1>10. SourcesSound' /\ OnlySeen' /\ Working'
    BY Zenon, <1>3, <1>5, <1>6
       DEF IInv, SourcesSound, OnlySeen, Working, Seen, Action, a
  <1>11. Standing'
    <2>1. \A r \in results : r.message.sample \in Samples
      BY <1>1 DEF TypeOK, Result, Message
    <2>2. QED  BY Zenon, <1>9, <2>1 DEF IInv, Standing
  <1>12. QED  BY <1>8, <1>10, <1>11 DEF IInv

LEMMA BeginStep ==
    ASSUME IInv, NEW m \in inbox, Begin(m, Action(m))
    PROVE  IInv'
  <1>1. m.sample \in Samples
    BY DEF IInv, TypeOK, Message
  <1>2. engine = Idle /\ Settled(m.sample) = sources[m.sample]
    BY DEF Begin, Settled, Busy, Idle
  <1>v. ~AlreadyActive(Action(m), sources[m.sample])
    BY DEF Begin, Validated
  <1>3. sources[m.sample] \in SourceState /\ Sound(sources[m.sample])
    BY <1>1 DEF IInv, TypeOK, SourcesSound
  <1>4. 0 \in 0..MaxRetries
    BY DefenseAssumption
  <1>5. QED  BY <1>2, <1>v, <1>3, <1>4, AttemptStep DEF Begin

LEMMA RetryStep ==
    ASSUME IInv, Retry
    PROVE  IInv'
  <1>1. /\ Busy /\ engine.retries < MaxRetries
        /\ Execute(engine.action, engine.message.sample)
        /\ engine' = [engine EXCEPT !.retries = @ + 1]
        /\ UNCHANGED <<evidence, inbox, sent, faulty, results, crashes>>
    BY DEF Retry
  <1>2. /\ engine.message \in inbox /\ engine.action = Action(engine.message)
        /\ Sound(engine.before) /\ engine.before \in SourceState
        /\ Settled(engine.message.sample) = engine.before
        /\ engine \in [at : {"executed"}, message : inbox, action : Actions,
                       before : SourceState, retries : 0..MaxRetries]
    BY Zenon, <1>1, BusyFacts
  <1>3. engine.retries + 1 \in 0..MaxRetries
    BY <1>1, <1>2, DefenseAssumption
  <1>4. engine' = [at |-> "executed", message |-> engine.message,
                   action |-> Action(engine.message), before |-> engine.before,
                   retries |-> engine.retries + 1]
    BY <1>1, <1>2
  <1>5. /\ ~AlreadyActive(Action(engine.message), engine.before)
        /\ sources[engine.message.sample] \in
             {Effect(Action(engine.message), engine.before),
              PartialEffect(Action(engine.message), engine.before)}
    BY Zenon, <1>1, <1>2 DEF IInv, Working
  <1>6. Execute(Action(engine.message), engine.message.sample)
    BY Zenon, <1>1, <1>2
  <1>7. QED  BY <1>1, <1>2, <1>3, <1>4, <1>5, <1>6, AttemptStep

(* A restart forgets every source, and no result speaks of the new life. *)
LEMMA CrashStep ==
    ASSUME IInv, Crash
    PROVE  IInv'
  <1>1. /\ crashes' = crashes + 1 /\ crashes < MaxCrashes /\ engine' = Down
        /\ sources' = [s \in Samples |-> Fresh] /\ faulty' = {}
        /\ UNCHANGED <<evidence, inbox, sent, results>>
    BY DEF Crash
  <1>2. Sound(Fresh) /\ Consistent(Fresh) /\ Fresh \in SourceState
    BY SMT DEF Sound, Consistent, Fresh, SourceState
  <1>3. ~Busy'
    BY <1>1 DEF Busy, Down
  <1>4. crashes \in Nat /\ crashes' \in 0..MaxCrashes
    BY <1>1, DefenseAssumption DEF IInv, TypeOK
  <1>5. TypeOK'
    BY <1>1, <1>2, <1>4 DEF IInv, TypeOK
  <1>6. \A s \in Samples : (Settled(s))' = Fresh
    BY Zenon, <1>1, <1>3 DEF Settled
  <1>7. \A r \in results : r.life \in Int /\ r.life <= crashes
    BY DEF IInv, TypeOK, OnlySeen, Result
  <1>8. \A r \in results : r.life <= crashes' /\ r.life # crashes'
    BY <1>1, <1>4, <1>7
  <1>9. SourcesSound' /\ Working'
    BY Zenon, <1>1, <1>2, <1>3 DEF SourcesSound, Working
  <1>10. OnlySeen'
    BY Zenon, <1>1, <1>8 DEF IInv, OnlySeen, Seen, Action
  <1>11. Standing'
    BY Zenon, <1>1, <1>2, <1>6, <1>8 DEF Standing
  <1>12. QED  BY <1>5, <1>9, <1>10, <1>11 DEF IInv

LEMMA NextInvariant == IInv /\ [Next]_vars => IInv'
  <1> SUFFICES ASSUME IInv, [Next]_vars PROVE IInv'
    OBVIOUS
  <1>1. ASSUME NEW s \in Samples, Arrive(s) \/ Redeliver(s) PROVE IInv'
    BY <1>1, DeliveryStep
  <1>2. ASSUME NEW s \in Samples, InjectFailure(s) \/ ClearFailure(s) PROVE IInv'
    <2>1. /\ UNCHANGED <<evidence, inbox, sent, sources, engine, results, crashes>>
          /\ faulty' \subseteq Samples
      BY <1>2 DEF InjectFailure, ClearFailure, IInv, TypeOK
    <2>2. QED  BY <2>1, QuietStep
  <1>3. ASSUME NEW m \in inbox, Reject(m, Action(m)) PROVE IInv'
    BY <1>3, RejectStep
  <1>4. ASSUME NEW m \in inbox, Begin(m, Action(m)) PROVE IInv'
    BY <1>4, BeginStep
  <1>5. CASE Restart
    <2>1. faulty' \subseteq Samples
      BY <1>5 DEF Restart, IInv, TypeOK
    <2>2. QED  BY <1>5, <2>1, QuietStep DEF Restart
  <1>6. CASE UNCHANGED vars
    <2>1. faulty' \subseteq Samples
      BY <1>6 DEF vars, IInv, TypeOK
    <2>2. QED  BY <1>6, <2>1, QuietStep DEF vars
  <1>7. QED
    BY <1>1, <1>2, <1>3, <1>4, <1>5, <1>6, ConfirmStep, RetryStep, RollbackStep, CrashStep
       DEF Next, Step

THEOREM InvariantHolds == Safety => []IInv
  BY InitInvariant, NextInvariant, PTL DEF Safety

-----------------------------------------------------------------------------
(* Every reachable state of the worker is well-formed. *)
THEOREM DefenseTypeCorrect == Safety => []TypeOK
  BY InvariantHolds, PTL DEF IInv

(* What was reported healthy stays in effect until the process dies. *)
THEOREM HealthyStays == Safety => []HealthyStaysProtected
  <1>1. IInv => HealthyStaysProtected
    <2> SUFFICES ASSUME IInv, NEW r \in results, r.life = crashes, r.health = "HEALTHY"
                 PROVE  InEffect(r.action, sources[r.message.sample])
      BY DEF HealthyStaysProtected
    <2>1. r.message.sample \in Samples /\ r.action \in Actions
      BY DEF IInv, TypeOK, Result, Message
    <2>2. InEffect(r.action, Settled(r.message.sample))
      BY Zenon DEF IInv, Standing
    <2>3. CASE Busy /\ engine.message.sample = r.message.sample
      <3>1. /\ InEffect(r.action, engine.before) /\ Sound(engine.before)
            /\ engine.action \in Actions
        BY Zenon, <2>2, <2>3, BusyFacts
      <3>2. /\ InEffect(r.action, Effect(engine.action, engine.before))
            /\ InEffect(r.action, PartialEffect(engine.action, engine.before))
        BY Zenon, <2>1, <3>1, Monotone
      <3>3. sources[r.message.sample] \in {Effect(engine.action, engine.before),
                                           PartialEffect(engine.action, engine.before)}
        BY Zenon, <2>3 DEF IInv, Working
      <3>4. QED  BY Zenon, <3>2, <3>3
    <2>4. CASE ~(Busy /\ engine.message.sample = r.message.sample)
      BY Zenon, <2>2, <2>4 DEF Settled
    <2>5. QED  BY <2>3, <2>4
  <1>2. QED  BY <1>1, InvariantHolds, PTL

(* A result's action is the one the assessment of its message selects. *)
LEMMA ResultFacts ==
    ASSUME IInv, NEW r \in results
    PROVE  /\ evidence[r.message.sample] \in Evidence /\ r.message.routing \in Routing
           /\ r.action = SelectAction(evidence[r.message.sample], r.message.routing)
  <1>1. TypeOK /\ r.message \in Message /\ Seen(r.message.sample)
    BY DEF IInv, TypeOK, OnlySeen, Result
  <1>2. r.action = Action(r.message)
    BY DEF IInv, OnlySeen
  <1>3. QED  BY Zenon, <1>1, <1>2, MessageFacts DEF Action

(* No message that arrives makes a stage raise. *)
THEOREM NoStageRaises == Safety => []ContractsHold
  <1>1. IInv => ContractsHold
    <2> SUFFICES ASSUME IInv, NEW m \in inbox PROVE Admitted(evidence[m.sample], m.routing)
      BY DEF ContractsHold
    <2>1. TypeOK /\ m \in Message /\ Seen(m.sample)
      BY DEF IInv, TypeOK, OnlySeen
    <2>2. QED  BY Zenon, <2>1, MessageFacts, EverythingIsAdmitted
  <1>2. QED  BY <1>1, InvariantHolds, PTL

(* Nothing is blocked unless a quantum verifier answered "attack". *)
THEOREM NoBlockWithoutQuantum == Safety => []BlockNeedsQuantum
  <1>1. IInv => BlockNeedsQuantum
    BY Zenon, ResultFacts, BlockNeedsQuantumAttack DEF BlockNeedsQuantum
  <1>2. QED  BY <1>1, InvariantHolds, PTL

(* Nothing judged normal is isolated or blocked. *)
THEOREM NoNormalCutOff == Safety => []NormalIsNeverCutOff
  <1>1. IInv => NormalIsNeverCutOff
    BY Zenon, ResultFacts, NormalIsLeftConnected DEF NormalIsNeverCutOff
  <1>2. QED  BY <1>1, InvariantHolds, PTL

(* Confirmation by the verifier never ranks below its absence. *)
THEOREM ConfirmationCounts == Safety => []ConfirmationOutranksFallback
  <1>1. IInv => ConfirmationOutranksFallback
    <2> SUFFICES ASSUME IInv, NEW r \in results,
                        Answered(r.message.routing),
                        Agrees(evidence[r.message.sample], r.message.routing),
                        Classical(evidence[r.message.sample]) = "attack"
                 PROVE  Rank[RiskLevel(evidence[r.message.sample], r.message.routing)]
                          >= Rank[RiskLevel(evidence[r.message.sample], Fallback)]
      BY Zenon DEF ConfirmationOutranksFallback
    <2>1. QED  BY Zenon, ResultFacts, ConfirmationRanksHigher
  <1>2. QED  BY <1>1, InvariantHolds, PTL

(* More evidence of an attack is never answered more mildly. *)
THEOREM EvidenceCounts == Safety => []MoreEvidenceIsNotMilder
  <1>1. IInv => MoreEvidenceIsNotMilder
    <2> SUFFICES ASSUME IInv, NEW r1 \in results, NEW r2 \in results,
                        PointsAtMost(evidence[r1.message.sample], r1.message.routing,
                                     evidence[r2.message.sample], r2.message.routing)
                 PROVE  /\ Rank[RiskLevel(evidence[r1.message.sample], r1.message.routing)]
                            <= Rank[RiskLevel(evidence[r2.message.sample], r2.message.routing)]
                        /\ Severity[r1.action] <= Severity[r2.action]
      BY Zenon DEF MoreEvidenceIsNotMilder
    <2>1. QED  BY Zenon, ResultFacts, MoreEvidenceNeverRanksLower
  <1>2. QED  BY <1>1, InvariantHolds, PTL

(* The four together. *)
THEOREM EvidenceDecides == Safety => []ActionsFollowEvidence
  <1>1. (/\ BlockNeedsQuantum /\ NormalIsNeverCutOff
         /\ ConfirmationOutranksFallback /\ MoreEvidenceIsNotMilder)
           => ActionsFollowEvidence
    BY DEF ActionsFollowEvidence
  <1>2. QED
    BY <1>1, NoBlockWithoutQuantum, NoNormalCutOff, ConfirmationCounts, EvidenceCounts, PTL

(* The engine implements AllOrNothing: a report takes the whole action or  *)
(* none of it, a crash forgets everything, and no other step is visible.   *)
THEOREM EngineIsAllOrNothing == Safety => ImplementsAllOrNothing
  <1> DEFINE state == [s \in Samples |-> Settled(s)]
  <1>1. Init => Promise!Init
    BY DEF Init, Promise!Init, Settled, Busy, Idle
  <1>2. IInv /\ [Next]_vars => [Promise!Next]_state
    <2> SUFFICES ASSUME IInv, [Next]_vars PROVE [Promise!Next]_state
      OBVIOUS
    <2>1. CASE Confirm
      <3> DEFINE m == engine.message
      <3>1. /\ m.sample \in Samples /\ engine.action \in Actions
            /\ Settled(m.sample) = engine.before
            /\ \A s \in Samples : s # m.sample => Settled(s) = sources[s]
            /\ sources[m.sample] = Effect(engine.action, engine.before)
        BY Zenon, <2>1, BusyFacts, VerifiedSource DEF Confirm
      <3>2. engine' = Idle /\ sources' = sources
        BY <2>1 DEF Confirm, Report
      <3>3. \A s \in Samples : (Settled(s))' = sources[s]
        BY <3>2 DEF Settled, Busy, Idle
      <3>4. state' = [state EXCEPT ![m.sample] = Effect(engine.action, @)]
        BY Zenon, <3>1, <3>3
      <3>5. QED  BY Zenon, <3>1, <3>4 DEF Promise!Next, Promise!Take
    <2>2. CASE Crash
      <3>1. engine' = Down /\ sources' = [s \in Samples |-> Fresh]
        BY <2>2 DEF Crash
      <3>2. state' = [s \in Samples |-> Fresh]
        BY <3>1 DEF Settled, Busy, Down
      <3>3. QED  BY <3>2 DEF Promise!Next, Promise!Forget
    <2>3. SUFFICES ASSUME ~Confirm, ~Crash
                   PROVE  \A s \in Samples : (Settled(s))' = Settled(s)
      BY Zenon, <2>1, <2>2
    <2>4. CASE Rollback
      <3>1. /\ engine' = Idle /\ engine.message.sample \in Samples
            /\ sources' = [sources EXCEPT ![engine.message.sample] = engine.before]
            /\ Settled(engine.message.sample) = engine.before
            /\ \A s \in Samples : s # engine.message.sample => Settled(s) = sources[s]
        BY Zenon, <2>4, BusyFacts DEF Rollback, Report
      <3>2. \A s \in Samples : (Settled(s))' = sources'[s]
        BY <3>1 DEF Settled, Busy, Idle
      <3>3. sources \in [Samples -> SourceState]
        BY DEF IInv, TypeOK
      <3>4. QED  BY Zenon, <3>1, <3>2, <3>3
    <2>5. ASSUME NEW m \in inbox, Begin(m, Action(m))
          PROVE  \A s \in Samples : (Settled(s))' = Settled(s)
      <3>1. /\ engine = Idle /\ engine'.at = "executed" /\ engine'.message = m
            /\ engine'.before = sources[m.sample]
            /\ \A s \in Samples : s # m.sample => sources'[s] = sources[s]
        BY <2>5 DEF Begin, Execute, IInv, TypeOK
      <3>2. QED  BY <3>1 DEF Settled, Busy, Idle
    <2>6. CASE Retry
      <3>1. /\ Busy /\ engine'.at = engine.at /\ engine'.message = engine.message
            /\ engine'.before = engine.before
            /\ \A s \in Samples : s # engine.message.sample => sources'[s] = sources[s]
        BY <2>6, BusyFacts DEF Retry, Execute, IInv, TypeOK
      <3>2. QED  BY <3>1 DEF Settled, Busy
    <2>7. ASSUME NEW m \in inbox, Reject(m, Action(m))
          PROVE  \A s \in Samples : (Settled(s))' = Settled(s)
      BY <2>7 DEF Reject, Report, Settled, Busy, Idle
    <2>8. CASE /\ UNCHANGED sources
               /\ engine' = engine \/ (engine = Down /\ engine' = Idle)
      BY <2>8 DEF Settled, Busy, Idle, Down
    <2>9. QED
      BY <2>3, <2>4, <2>5, <2>6, <2>7, <2>8
         DEF Next, Step, Arrive, Redeliver, InjectFailure, ClearFailure, Restart, vars
  <1>3. QED  BY <1>1, <1>2, InvariantHolds, PTL
        DEF Safety, ImplementsAllOrNothing, Promise!Spec
=============================================================================
