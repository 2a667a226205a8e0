------------------------- MODULE ApplicationFeatures -------------------------
(***************************************************************************)
(* The pure parts of the application-agent layer: the security features    *)
(* computed from a window of observations, the split of a labelled data    *)
(* set by session, and the policy that picks an agent's next scenario.     *)
(*                                                                         *)
(* A feature in [0, 1] is kept as the count above its fraction bar; the    *)
(* request rate, the latency score and the entropy, which need clocks and  *)
(* logarithms, are left out.                                               *)
(***************************************************************************)
EXTENDS Integers, Sequences, FiniteSets

(* ROUTE_MAP: the actions that share a path and differ by their method. *)
SamePath == {{"list_companies", "create_company"},
             {"list_applications", "create_application"},
             {"get_application", "update_application", "delete_application"},
             {"list_rounds", "create_round"},
             {"get_round", "update_round", "delete_round"},
             {"get_experience", "update_experience"},
             {"update_question", "delete_question"},
             {"list_learnings", "create_learning"},
             {"get_learning", "update_learning", "delete_learning"},
             {"update_action_item", "delete_action_item"},
             {"list_preparation_logs", "create_preparation_log"},
             {"update_preparation_log", "delete_preparation_log"},
             {"list_preparation_sources", "create_preparation_source"}}

Path(action) == {action} \cup UNION {actions \in SamePath : action \in actions}

(* An observation: the action, the id in its path, the status (0 when the  *)
(* call raised, which is also when the error field is set), whether the    *)
(* body passed validation, and the session's sequence number.  Its         *)
(* endpoint is the path, without the method.                               *)
Endpoint(o) == <<Path(o.action), o.target>>

AuthActions == {"register", "login", "refresh"}
DestructiveActions == {"update_application", "delete_application"}

(* Mutant: an attempt that raised does not count as failed. *)
FailedByStatus(o) == o.status >= 400

Failed(o) == o.status = 0 \/ o.status >= 400

(* Where a window holds authentication attempts, and where failed ones. *)
AuthAt(window) == {i \in DOMAIN window : window[i].action \in AuthActions}
FailedAt(window) == {i \in AuthAt(window) : Failed(window[i])}

(* The runs of consecutive attempts that all failed, empty ones included.  *)
FailureRuns(window) ==
    {run \in SUBSET FailedAt(window) :
        \A i, k \in run : \A j \in AuthAt(window) : i < j /\ j < k => j \in run}

(* The longest of them. *)
Burst(window) ==
    LET lengths == {Cardinality(run) : run \in FailureRuns(window)}
    IN  CHOOSE longest \in lengths : \A length \in lengths : length <= longest

(* compute_application_features on a non-empty window, which the session's *)
(* sequence numbers keep in order.                                         *)
Features(window) ==
    LET Those(P(_)) == Cardinality({i \in DOMAIN window : P(window[i])})
    IN  [size        |-> Len(window),
         auths       |-> Cardinality(AuthAt(window)),
         failedAuths |-> Cardinality(FailedAt(window)),
         burst       |-> Burst(window),
         rejected    |-> Those(LAMBDA o : ~o.valid),
         invalid     |-> Those(LAMBDA o : o.status = 404),
         destructive |-> Those(LAMBDA o : o.action \in DestructiveActions),
         errors      |-> Those(LAMBDA o : o.status = 0 \/ o.status >= 500),
         switches    |-> Cardinality({i \in 2..Len(window) :
                             Endpoint(window[i]) # Endpoint(window[i - 1])}),
         repeats     |-> Cardinality({i \in DOMAIN window : \E j \in 1..(i - 1) :
                             Endpoint(window[j]) = Endpoint(window[i])})]

-----------------------------------------------------------------------------
(* split_by_session: the sessions in a shuffled order, cut after 60 % and  *)
(* 80 % of them (both shares rounded down on their own), and each sample   *)
(* in the part its session fell into.                                      *)
TrainSize(n) == (6 * n) \div 10
ValSize(n) == (2 * n) \div 10

Train(shuffled) == {shuffled[i] : i \in 1..TrainSize(Len(shuffled))}
Val(shuffled) == {shuffled[i] : i \in (TrainSize(Len(shuffled)) + 1)
                                  ..(TrainSize(Len(shuffled)) + ValSize(Len(shuffled)))}
Test(shuffled) == {shuffled[i] : i \in (TrainSize(Len(shuffled)) + ValSize(Len(shuffled)) + 1)
                                   ..Len(shuffled)}

-----------------------------------------------------------------------------
(* decide_next_scenario: an agent that was caught moves on to the next     *)
(* scenario of its allow-list, any other repeats the one it ran.           *)
IndexIn(allowed, scenario) == CHOOSE i \in DOMAIN allowed :
                                 /\ allowed[i] = scenario
                                 /\ \A j \in 1..(i - 1) : allowed[j] # scenario

NextScenario(allowed, scenario, escalated) ==
    IF Len(allowed) > 1 /\ escalated
    THEN allowed[(IndexIn(allowed, scenario) % Len(allowed)) + 1]
    ELSE scenario
=============================================================================
