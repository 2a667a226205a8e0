------------------------- MODULE ApplicationSession -------------------------
(***************************************************************************)
(* An application agent at work: SuzumeNormalAgent's workflow or one of    *)
(* SuzumeAdversarialAgent's bounded scenarios, action by action, through   *)
(* SuzumeTrafficSource, which turns an action into an HTTP request and,    *)
(* when an access token has expired, into a refresh and one retry.  After  *)
(* a session the adaptation policy picks the next scenario.                *)
(*                                                                         *)
(* The application is external, and modelled from what the client relies   *)
(* on: it checks the access token, rotates the refresh cookie, rejects     *)
(* malformed bodies and unknown ids, and creates what a valid request asks *)
(* for.  A request or its reply may be lost (the client sees an exception  *)
(* either way), and the application may answer 500.                        *)
(***************************************************************************)
EXTENDS ApplicationFeatures

CONSTANTS AllowList,    (* allowed_scenario_ids of the adversarial agent     *)
          MaxSessions,  (* bound: sessions an agent runs                     *)
          MaxFaults,    (* bound: lost messages and 500s in a session        *)
          MaxExpiries   (* bound: access tokens that expire in a session     *)

Scenarios == {"repeated_failed_login", "malformed_payload_probe",
              "invalid_resource_probe", "rapid_endpoint_switching"}

(* __init__ of both agents: known scenarios only, at least one; a list     *)
(* that names one twice is not what an allow-list is for.                  *)
ASSUME Assumption == /\ AllowList \in Seq(Scenarios)
                     /\ AllowList # <<>>
                     /\ \A i, j \in DOMAIN AllowList : AllowList[i] = AllowList[j] => i = j
                     /\ MaxSessions \in Nat \ {0}
                     /\ MaxFaults \in Nat
                     /\ MaxExpiries \in Nat

VARIABLES plan,         (* "normal" or the scenario of this session          *)
          step,         (* the action of the plan in hand                    *)
          phase,        (* its next request: the first, a refresh, a retry   *)
          parent,       (* its parent_id                                     *)
          token,        (* AgentSession.access_token                         *)
          cookie,       (* the refresh cookie in the HTTP session's jar      *)
          last,         (* AgentSession.last_response_data                   *)
          sequence,     (* AgentSession._sequence_counter                    *)
          observations, (* what run_session returns                          *)
          effects,      (* the application: per action, times it was applied *)
          resources,    (* the application: what the session created         *)
          faults, expiries,
          lockedOut,    (* history: the reply to a refresh was lost          *)
          past          (* history: finished sessions, and if they escalated *)

client == <<token, cookie, last, sequence>>
application == <<effects, resources>>
agent == <<plan, step, phase, parent, observations>>
vars == <<client, application, agent, faults, expiries, lockedOut, past>>

Plans == {"normal"} \cup Scenarios

(* The fixed workflow, and each scenario after its register. *)
Normal == <<"register", "get_dashboard_summary", "list_applications",
            "create_application", "create_round", "create_experience",
            "create_question", "create_learning", "get_analytics_overview">>
ReadOnlyCycle == <<"list_applications", "get_dashboard_summary", "list_learnings",
                   "get_analytics_overview", "get_calendar_events", "list_companies">>
MaxActions == [s \in Scenarios |-> IF s = "rapid_endpoint_switching" THEN 6 ELSE 5]

Actions(p) ==
    CASE p = "normal" -> Normal
      [] p = "rapid_endpoint_switching" -> <<"register">> \o ReadOnlyCycle
      [] p = "repeated_failed_login" ->
            [i \in 1..(MaxActions[p] + 1) |-> IF i = 1 THEN "register" ELSE "login"]
      [] p = "malformed_payload_probe" ->
            [i \in 1..(MaxActions[p] + 1) |-> IF i = 1 THEN "register" ELSE "create_application"]
      [] p = "invalid_resource_probe" ->
            [i \in 1..(MaxActions[p] + 1) |-> IF i = 1 THEN "register" ELSE "get_application"]

Steps == 1..9
Over == step > Len(Actions(plan))
Action == Actions(plan)[step]

(* The routes the agents use: what a POST creates, under what, and which   *)
(* actions go to the authentication endpoints.                             *)
Makes == [create_application |-> "application", create_round |-> "round",
          create_experience |-> "experience", create_question |-> "question",
          create_learning |-> "learning"]
Under == [create_round |-> "application", create_experience |-> "round",
          create_question |-> "experience"]
Kinds == {Makes[a] : a \in DOMAIN Makes}

(* A random id names an endpoint of its own. *)
Target(p, i) == IF Actions(p)[i] = "get_application" THEN i ELSE 0

NoResponse == [kind |-> "none", id |-> 0]
SomeResponse == [kind |-> "other", id |-> 0]
Success(status) == status \in 200..299
Statuses == {0, 200, 201, 400, 401, 404, 500}

Resource == [kind : Kinds, id : Nat, parent : Nat]
Verbs == UNION {{Actions(p)[i] : i \in DOMAIN Actions(p)} : p \in Plans}
Observation == [action : Verbs, target : 0..9, status : Statuses, valid : BOOLEAN,
                seq : Nat, step : Steps]

TypeOK == /\ plan \in Plans
          /\ step \in 1..10
          /\ phase \in {"first", "refresh", "retry"}
          /\ parent \in Nat
          /\ token \in {"none", "valid", "expired"}
          /\ cookie \in {"none", "valid", "revoked"}
          /\ last \in [kind : Kinds \cup {"none", "other"}, id : Nat]
          /\ sequence \in Nat
          /\ observations \in Seq(Observation)
          /\ effects \in [Steps -> Nat]
          /\ resources \subseteq Resource
          /\ faults \in 0..MaxFaults
          /\ expiries \in 0..MaxExpiries
          /\ lockedOut \in BOOLEAN
          /\ past \in Seq([plan : Plans, escalated : BOOLEAN])

(* A fresh AgentSession, with a cookie jar of its own. *)
Fresh == /\ step = 1
         /\ phase = "first"
         /\ parent = 0
         /\ token = "none"
         /\ cookie = "none"
         /\ last = NoResponse
         /\ sequence = 0
         /\ observations = <<>>
         /\ effects = [i \in Steps |-> 0]
         /\ resources = {}
         /\ faults = 0
         /\ expiries = 0
         /\ lockedOut = FALSE

Init == /\ plan \in {"normal"} \cup {AllowList[i] : i \in DOMAIN AllowList}
        /\ past = <<>>
        /\ Fresh

-----------------------------------------------------------------------------
(* The application *)

(* What it answers to a well-delivered request. *)
Answer(a) ==
    CASE a = "register" -> 201
      [] a = "login" -> 401               \* the agents only send a wrong password
      [] a = "refresh" -> IF cookie = "valid" THEN 200 ELSE 401
      [] a \notin AuthActions /\ token # "valid" -> 401
      [] a \in DOMAIN Makes /\ token = "valid" ->
            IF plan = "malformed_payload_probe" THEN 400 ELSE 201
      [] a = "get_application" /\ token = "valid" -> 404
      [] OTHER -> 200

(* It acts on a request it answers with success. *)
Apply(a) ==
    /\ effects' = IF Success(Answer(a)) /\ a # "refresh"
                  THEN [effects EXCEPT ![step] = @ + 1] ELSE effects
    /\ resources' = IF Success(Answer(a)) /\ a \in DOMAIN Makes
                    THEN resources \cup {[kind |-> Makes[a], id |-> sequence + 1,
                                          parent |-> parent]}
                    ELSE resources

-----------------------------------------------------------------------------
(* SuzumeTrafficSource *)

(* A response arrives: its body (tokens removed) becomes the last one, and *)
(* a successful register or refresh brings a token and a cookie.  A 500    *)
(* may come without a body: then the last response stays.                  *)
Receive(a, status) ==
    /\ last' \in IF Success(status) /\ a \in DOMAIN Makes
                 THEN {[kind |-> Makes[a], id |-> sequence + 1]}
                 ELSE {SomeResponse} \cup (IF status = 500 THEN {last} ELSE {})
    /\ IF Success(status) /\ a \in {"register", "refresh"}
       THEN token' = "valid" /\ cookie' = "valid"
       ELSE UNCHANGED <<token, cookie>>

(* One request, with the next sequence number, and what the client sees of *)
(* it: the application's answer, a 500, or (status 0) an exception because *)
(* the request or the reply was lost.  A refresh whose reply is lost has   *)
(* revoked the cookie the client still holds.                              *)
Request(a, status) ==
    /\ sequence' = sequence + 1
    /\ \/ /\ status = Answer(a)
          /\ Apply(a)
          /\ Receive(a, status)
          /\ UNCHANGED <<faults, lockedOut>>
       \/ /\ faults < MaxFaults
          /\ faults' = faults + 1
          /\ \/ /\ status = 500
                /\ Receive(a, status)
                /\ UNCHANGED <<application, lockedOut>>
             \/ /\ status = 0
                /\ UNCHANGED <<application, token, cookie, last, lockedOut>>
             \/ /\ status = 0
                /\ Apply(a)
                /\ cookie' = IF a = "refresh" /\ cookie = "valid" THEN "revoked" ELSE cookie
                /\ lockedOut' = (lockedOut \/ cookie' = "revoked")
                /\ UNCHANGED <<token, last>>

(* Mutant: the loop's index moves twice. *)
AfterTwice(i, response) == i + 2

(* Mutant: the chain goes on without looking at the last response. *)
AfterAny(i, response) == i + 1

(* The agent reads the id its next action needs from the last response; an *)
(* action whose parent was not created is skipped with all that follows it *)
(* in the chain.                                                           *)
After(i, response) ==
    LET made == Actions(plan)[i]
    IN  IF /\ plan = "normal"
           /\ made \in {"create_application", "create_round", "create_experience"}
           /\ response.kind # Makes[made]
        THEN 8
        ELSE i + 1

(* The action is over: its observation is recorded, the agent goes on. *)
Observe(status, seq) ==
    /\ observations' = Append(observations,
           [action |-> Action, target |-> Target(plan, step), status |-> status,
            valid |-> status # 400, seq |-> seq, step |-> step])
    /\ step' = After(step, last')
    /\ phase' = "first"
    /\ parent' = IF plan = "normal" /\ step' \in 5..7 THEN last'.id ELSE 0
    /\ UNCHANGED <<plan, past, expiries>>

(* Mutant: no refresh, the 401 is the action's outcome. *)
AttemptOnce ==
    /\ ~Over /\ phase = "first"
    /\ \E status \in Statuses : Request(Action, status) /\ Observe(status, sequence')

(* Mutant: a request that raised is sent again, like one that got a 401. *)
AttemptAgain ==
    /\ ~Over /\ phase = "first"
    /\ \E status \in Statuses :
          /\ Request(Action, status)
          /\ IF status \in {0, 401} /\ Action \notin AuthActions
             THEN phase' = "refresh" /\ UNCHANGED <<plan, step, parent, observations, past, expiries>>
             ELSE Observe(status, sequence')

(* _perform_request: a 401 on anything but an authentication endpoint      *)
(* leads to a refresh, every other outcome is the action's.                *)
Attempt ==
    /\ ~Over /\ phase = "first"
    /\ \E status \in Statuses :
          /\ Request(Action, status)
          /\ IF status = 401 /\ Action \notin AuthActions
             THEN phase' = "refresh" /\ UNCHANGED <<plan, step, parent, observations, past, expiries>>
             ELSE Observe(status, sequence')

(* Mutant: the number of the request before is recorded. *)
RefreshMiscounted ==
    /\ phase = "refresh"
    /\ \E status \in Statuses :
          /\ Request("refresh", status)
          /\ IF Success(status)
             THEN phase' = "retry" /\ UNCHANGED <<plan, step, parent, observations, past, expiries>>
             ELSE Observe(401, sequence - 1)

(* Mutant: a session without a cookie waits for one. *)
RefreshWithCookie ==
    /\ phase = "refresh"
    /\ cookie # "none"
    /\ \E status \in Statuses :
          /\ Request("refresh", status)
          /\ IF Success(status)
             THEN phase' = "retry" /\ UNCHANGED <<plan, step, parent, observations, past, expiries>>
             ELSE Observe(401, sequence)

(* The refresh; if it fails the action's outcome is the 401 it got.        *)
Refresh ==
    /\ phase = "refresh"
    /\ \E status \in Statuses :
          /\ Request("refresh", status)
          /\ IF Success(status)
             THEN phase' = "retry" /\ UNCHANGED <<plan, step, parent, observations, past, expiries>>
             ELSE Observe(401, sequence)

(* The retry's outcome is the action's, whatever it is. *)
Retry ==
    /\ phase = "retry"
    /\ \E status \in Statuses : Request(Action, status) /\ Observe(status, sequence')

(* The access token's lifetime runs out. *)
Expire ==
    /\ token = "valid" /\ ~Over
    /\ expiries < MaxExpiries
    /\ expiries' = expiries + 1
    /\ token' = "expired"
    /\ UNCHANGED <<cookie, last, sequence, application, agent, faults, lockedOut, past>>

(* The session's outcome is known and the agent adapts. *)
NextSession(escalated) ==
    /\ Over
    /\ Len(past) + 1 < MaxSessions
    /\ plan' = IF plan = "normal" THEN plan ELSE NextScenario(AllowList, plan, escalated)
    /\ past' = Append(past, [plan |-> plan, escalated |-> escalated])
    /\ step' = 1
    /\ phase' = "first"
    /\ parent' = 0
    /\ token' = "none"
    /\ cookie' = "none"
    /\ last' = NoResponse
    /\ sequence' = 0
    /\ observations' = <<>>
    /\ effects' = [i \in Steps |-> 0]
    /\ resources' = {}
    /\ faults' = 0
    /\ expiries' = 0
    /\ lockedOut' = FALSE

Work == Attempt \/ Refresh \/ Retry

Next == Work \/ Expire \/ \E escalated \in BOOLEAN : NextSession(escalated)

(* The agent's thread runs, and every request ends within its timeout. *)
Spec == Init /\ [][Next]_vars /\ WF_vars(Work)

-----------------------------------------------------------------------------
(* Properties *)

(* An observation says what became of its action: success means it was     *)
(* applied exactly once, an error status that it was not, and an exception *)
(* leaves open whether it was, but never that it was applied twice.        *)
ObservationTellsEffect ==
    \A k \in DOMAIN observations :
        LET o == observations[k]
        IN  effects[o.step] \in (IF o.status = 0 THEN {0, 1}
                                 ELSE IF Success(o.status) THEN {1} ELSE {0})

(* Whatever is lost on the way, what a session creates hangs together: a   *)
(* round under the session's application, an experience under its round, a *)
(* question under its experience, and nothing twice.                       *)
ParentsAreOwn ==
    \A r \in resources :
        /\ plan = "normal"
        /\ \A q \in resources : q.kind = r.kind => q = r
        /\ \A a \in DOMAIN Under : Makes[a] = r.kind =>
              \E p \in resources : p.kind = Under[a] /\ p.id = r.parent

(* An expired token is healed out of the agent's sight.  In a session that *)
(* registered and is not locked out, every action that still ends in 401   *)
(* is paid for by a disturbance of its own, beyond the first expiry: a     *)
(* refresh that failed, or a token that expired again before the retry.    *)
UnauthorizedHasACause ==
    LET refused == {k \in DOMAIN observations :
                       observations[k].status = 401 /\ observations[k].action # "login"}
    IN  \/ refused = {}
        \/ lockedOut
        \/ ~Success(observations[1].status)
        \/ Cardinality(refused) < faults + expiries

(* No retry storm, locked out or not: an action costs at most three        *)
(* requests (between two observations there may be the refresh that failed *)
(* for the first of them too), and a scenario issues at most its           *)
(* max_actions actions after the register.  The sequence numbers, by which *)
(* the features sort a window, rise although a refresh takes one between   *)
(* an action's and its retry's.                                            *)
BoundedTraffic ==
    /\ \A k \in 2..Len(observations) :
          observations[k].seq - observations[k - 1].seq \in 1..4
    /\ sequence <= 3 * Len(observations) + 2
    /\ plan # "normal" => Len(observations) <= MaxActions[plan] + 1

(* Each scenario leaves the telemetry its expected_telemetry_pattern names *)
(* (adversarial_agent.py:79-110): failed logins whatever is lost, probes   *)
(* when nothing is, switching always; and the undisturbed workflow none.   *)
TelemetryPattern ==
    Over =>
        LET f == Features(observations)
        IN  /\ plan = "repeated_failed_login" =>
                   2 * f.failedAuths > f.auths /\ 2 * f.burst > f.auths
            /\ plan = "rapid_endpoint_switching" =>
                   f.switches = f.size - 1 /\ f.repeats = 0
            /\ faults = 0 /\ expiries < 2 =>
                   /\ plan = "malformed_payload_probe" => 2 * f.rejected > f.size
                   /\ plan = "invalid_resource_probe" => 2 * f.invalid > f.size
                   /\ plan = "normal" => /\ f.size = Len(Normal)
                                         /\ f.failedAuths + f.rejected + f.invalid + f.errors = 0
            /\ f.burst <= f.failedAuths
            /\ f.destructive = 0

(* Every session comes to an end. *)
SessionsEnd == [](step = 1 => <>Over)
=============================================================================
