---------------------- MODULE ApplicationSessionProofs ----------------------
(***************************************************************************)
(* Theorems of an application agent's session, for any allow-list and any  *)
(* number of sessions, lost messages, 500s and expiring tokens, and of the *)
(* features of any window and the split of any data set.                   *)
(***************************************************************************)
EXTENDS ApplicationSession, FiniteSetTheorems, SequenceTheorems, TLAPS

-----------------------------------------------------------------------------
(* The plans *)

Words == {"register", "login", "get_dashboard_summary", "list_applications",
          "create_application", "create_round", "create_experience", "create_question",
          "create_learning", "get_analytics_overview", "get_application",
          "list_learnings", "get_calendar_events", "list_companies"}

Span(p) == IF p = "normal" THEN 9 ELSE IF p = "rapid_endpoint_switching" THEN 7 ELSE 6

LEMMA NormalFacts ==
    /\ Normal \in Seq(Words) /\ Len(Normal) = 9
    /\ Normal[1] = "register" /\ Normal[2] = "get_dashboard_summary"
    /\ Normal[3] = "list_applications" /\ Normal[4] = "create_application"
    /\ Normal[5] = "create_round" /\ Normal[6] = "create_experience"
    /\ Normal[7] = "create_question" /\ Normal[8] = "create_learning"
    /\ Normal[9] = "get_analytics_overview"
  BY SMT DEF Normal, Words

LEMMA MakesFacts ==
    /\ DOMAIN Makes = {"create_application", "create_round", "create_experience",
                       "create_question", "create_learning"}
    /\ Makes["create_application"] = "application" /\ Makes["create_round"] = "round"
    /\ Makes["create_experience"] = "experience" /\ Makes["create_question"] = "question"
    /\ Makes["create_learning"] = "learning"
    /\ DOMAIN Under = {"create_round", "create_experience", "create_question"}
    /\ Under["create_round"] = "application" /\ Under["create_experience"] = "round"
    /\ Under["create_question"] = "experience"
  BY SMT DEF Makes, Under

LEMMA KindsFacts ==
    /\ \A a \in DOMAIN Makes : Makes[a] \in Kinds
    /\ \A k \in Kinds : \E a \in DOMAIN Makes : k = Makes[a]
    /\ "none" \notin Kinds /\ "other" \notin Kinds
  <1>1. /\ \A a \in DOMAIN Makes : Makes[a] \in Kinds
        /\ \A k \in Kinds : \E a \in DOMAIN Makes : k = Makes[a]
    BY Zenon DEF Kinds
  <1>2. \A a \in DOMAIN Makes : Makes[a] # "none" /\ Makes[a] # "other"
    BY SMT, MakesFacts
  <1>3. QED  BY Zenon, <1>1, <1>2

LEMMA ScenarioActions ==
    ASSUME NEW p \in Scenarios
    PROVE  /\ Actions(p) \in Seq(Words) /\ Len(Actions(p)) = Span(p)
           /\ Actions(p)[1] = "register"
           /\ \A i \in 2..Span(p) :
                 Actions(p)[i] \in DOMAIN Makes => p = "malformed_payload_probe"
           /\ Span(p) = MaxActions[p] + 1
  <1>1. CASE p = "repeated_failed_login"
    <2>1. Actions(p) = [i \in 1..(MaxActions[p] + 1) |-> IF i = 1 THEN "register" ELSE "login"]
      BY Zenon, <1>1 DEF Actions
    <2>2. MaxActions[p] + 1 = 6 /\ Span(p) = 6
      BY SMT, <1>1 DEF MaxActions, Span, Scenarios
    <2>3. Actions(p) = [i \in 1..6 |-> IF i = 1 THEN "register" ELSE "login"]
      BY Zenon, <2>1, <2>2
    <2>4. QED  BY SMT, <2>2, <2>3, MakesFacts DEF Words
  <1>2. CASE p = "malformed_payload_probe"
    <2>1. Actions(p) = [i \in 1..(MaxActions[p] + 1) |->
                            IF i = 1 THEN "register" ELSE "create_application"]
      BY Zenon, <1>2 DEF Actions
    <2>2. MaxActions[p] + 1 = 6 /\ Span(p) = 6
      BY SMT, <1>2 DEF MaxActions, Span, Scenarios
    <2>3. Actions(p) = [i \in 1..6 |-> IF i = 1 THEN "register" ELSE "create_application"]
      BY Zenon, <2>1, <2>2
    <2>4. Actions(p) \in Seq(Words) /\ Len(Actions(p)) = 6 /\ Actions(p)[1] = "register"
      BY SMT, <2>3 DEF Words
    <2>5. QED  BY Zenon, <1>2, <2>2, <2>4
  <1>3. CASE p = "invalid_resource_probe"
    <2>1. Actions(p) = [i \in 1..(MaxActions[p] + 1) |->
                            IF i = 1 THEN "register" ELSE "get_application"]
      BY Zenon, <1>3 DEF Actions
    <2>2. MaxActions[p] + 1 = 6 /\ Span(p) = 6
      BY SMT, <1>3 DEF MaxActions, Span, Scenarios
    <2>3. Actions(p) = [i \in 1..6 |-> IF i = 1 THEN "register" ELSE "get_application"]
      BY Zenon, <2>1, <2>2
    <2>4. QED  BY SMT, <2>2, <2>3, MakesFacts DEF Words
  <1>4. CASE p = "rapid_endpoint_switching"
    <2>1. Actions(p) = <<"register">> \o ReadOnlyCycle
      BY Zenon, <1>4 DEF Actions
    <2>2. MaxActions[p] + 1 = 7 /\ Span(p) = 7
      BY SMT, <1>4 DEF MaxActions, Span, Scenarios
    <2>3. /\ ReadOnlyCycle \in Seq(Words) /\ Len(ReadOnlyCycle) = 6
          /\ \A i \in 1..6 : ReadOnlyCycle[i] \notin DOMAIN Makes
      BY SMT, MakesFacts DEF ReadOnlyCycle, Words
    <2>4. <<"register">> \in Seq(Words) /\ Len(<<"register">>) = 1 /\ <<"register">>[1] = "register"
      BY SMT DEF Words
    <2>5. /\ Actions(p) \in Seq(Words) /\ Len(Actions(p)) = 7
          /\ Actions(p)[1] = "register"
          /\ \A i \in 2..7 : Actions(p)[i] = ReadOnlyCycle[i - 1]
      <3>1. /\ Actions(p) \in Seq(Words) /\ Len(Actions(p)) = 7
            /\ \A i \in 1..7 : Actions(p)[i] = IF i <= 1 THEN <<"register">>[i] ELSE ReadOnlyCycle[i - 1]
        <4> DEFINE one == <<"register">>
        <4> HIDE DEF one
        <4>1. one \in Seq(Words) /\ Len(one) = 1
          BY Zenon, <2>4 DEF one
        <4>2. /\ one \o ReadOnlyCycle \in Seq(Words)
              /\ Len(one \o ReadOnlyCycle) = Len(one) + Len(ReadOnlyCycle)
              /\ \A i \in 1..(Len(one) + Len(ReadOnlyCycle)) :
                    (one \o ReadOnlyCycle)[i] =
                        IF i <= Len(one) THEN one[i] ELSE ReadOnlyCycle[i - Len(one)]
          BY Zenon, <2>3, <4>1, ConcatProperties
        <4> DEFINE all == one \o ReadOnlyCycle
        <4> HIDE DEF all
        <4>3. Actions(p) = all
          BY Zenon, <2>1 DEF one, all
        <4>4. Len(one) + Len(ReadOnlyCycle) = 7
          BY SMT, <2>3, <4>1
        <4>5. all \in Seq(Words) /\ Len(all) = 7
          BY Zenon, <4>2, <4>4 DEF all
        <4>6. \A i \in 1..7 : all[i] = IF i <= Len(one) THEN one[i] ELSE ReadOnlyCycle[i - Len(one)]
          BY Zenon, <4>2, <4>4 DEF all
        <4>7. \A i \in 1..7 : all[i] = IF i <= 1 THEN one[i] ELSE ReadOnlyCycle[i - 1]
          BY Zenon, <4>1, <4>6
        <4>8. QED  BY Zenon, <4>3, <4>5, <4>7 DEF one
      <3>2. QED  BY SMT, <2>4, <3>1
    <2>6. \A i \in 2..7 : Actions(p)[i] \notin DOMAIN Makes
      BY SMT, <2>3, <2>5
    <2>7. QED  BY <2>2, <2>5, <2>6
  <1>5. QED  BY <1>1, <1>2, <1>3, <1>4 DEF Scenarios

(* What a plan is made of: only the workflow and the malformed probes POST *)
(* anything.                                                               *)
LEMMA PlanFacts ==
    ASSUME NEW p \in Plans
    PROVE  /\ Actions(p) \in Seq(Words) /\ Len(Actions(p)) = Span(p)
           /\ Span(p) \in 6..9
           /\ DOMAIN Actions(p) = 1..Span(p)
           /\ Actions(p)[1] = "register"
           /\ \A i \in 1..Span(p) : Actions(p)[i] \in Verbs
           /\ \A i \in 1..Span(p) : Actions(p)[i] \in DOMAIN Makes =>
                 p \in {"normal", "malformed_payload_probe"}
           /\ p # "normal" => p \in Scenarios /\ Span(p) = MaxActions[p] + 1
           /\ p = "normal" => Actions(p) = Normal
  <1>0. \A i \in DOMAIN Actions(p) : Actions(p)[i] \in Verbs
    <2>1. \A i \in DOMAIN Actions(p) : Actions(p)[i] \in {Actions(p)[j] : j \in DOMAIN Actions(p)}
      BY Zenon
    <2> HIDE DEF Actions
    <2>2. {Actions(p)[j] : j \in DOMAIN Actions(p)}
              \in {{Actions(q)[j] : j \in DOMAIN Actions(q)} : q \in Plans}
      BY Zenon
    <2>3. QED  BY Zenon, <2>1, <2>2 DEF Verbs
  <1>1. CASE p = "normal"
    <2>1. Actions(p) = Normal
      BY Zenon, <1>1 DEF Actions
    <2>2. Span(p) = 9
      BY <1>1 DEF Span
    <2>3. Actions(p) \in Seq(Words) /\ Len(Actions(p)) = 9 /\ Actions(p)[1] = "register"
      BY Zenon, <2>1, NormalFacts
    <2>4. DOMAIN Actions(p) = 1..9
      BY <2>3
    <2>5. \A i \in 1..9 : Actions(p)[i] \in Verbs
      BY Zenon, <1>0, <2>4
    <2>6. Span(p) \in 6..9
      BY <2>2
    <2>7. QED  BY Zenon, <1>1, <2>1, <2>2, <2>3, <2>4, <2>5, <2>6
  <1>2. CASE p \in Scenarios
    <2>1. Span(p) \in 6..9
      BY DEF Span
    <2>2. DOMAIN Actions(p) = 1..Span(p)
      BY SMT, <1>2, ScenarioActions
    <2>3. \A i \in 1..Span(p) : Actions(p)[i] \in Verbs
      BY Zenon, <1>0, <2>2
    <2>4. "register" \notin DOMAIN Makes
      BY MakesFacts
    <2>5. \A i \in 1..Span(p) : Actions(p)[i] \in DOMAIN Makes => p = "malformed_payload_probe"
      <3>1. \A i \in 1..Span(p) : i = 1 \/ i \in 2..Span(p)
        BY <2>1
      <3>2. QED  BY Zenon, <1>2, <2>4, <3>1, ScenarioActions
    <2>6. p # "normal"
      BY <1>2 DEF Scenarios
    <2>7. QED  BY Zenon, <1>2, <2>1, <2>2, <2>3, <2>5, <2>6, ScenarioActions
  <1>3. QED  BY <1>1, <1>2 DEF Plans

(* Where the workflow creates what, and what it needs first. *)
LEMMA ChainFacts ==
    ASSUME NEW i \in 1..9
    PROVE  /\ Normal[i] \in DOMAIN Makes <=> i \in 4..8
           /\ \A j \in 4..8 : i \in 4..8 /\ Makes[Normal[i]] = Makes[Normal[j]] => i = j
           /\ Normal[i] \in {"create_application", "create_round", "create_experience"}
                 <=> i \in 4..6
           /\ Normal[i] \in DOMAIN Under <=> i \in 5..7
           /\ i \in 5..7 => Under[Normal[i]] = Makes[Normal[i - 1]]
  <1>1. i \in {1, 2, 3, 4, 5, 6, 7, 8, 9}
    BY SMT
  <1>2. QED  BY SMT, <1>1, NormalFacts, MakesFacts

LEMMA VerbsAreWords == Verbs \subseteq Words
  <1>1. ASSUME NEW p \in Plans, NEW i \in DOMAIN Actions(p)
        PROVE  Actions(p)[i] \in Words
    <2>1. Actions(p) \in Seq(Words)
      BY PlanFacts
    <2>2. QED  BY SMT, <2>1
  <1>2. ASSUME NEW s \in {{Actions(p)[i] : i \in DOMAIN Actions(p)} : p \in Plans}
        PROVE  s \subseteq Words
    <2>1. PICK p \in Plans : s = {Actions(p)[i] : i \in DOMAIN Actions(p)}
      BY Zenon
    <2>2. QED  BY Zenon, <1>1, <2>1
  <1>3. QED  BY Zenon, <1>2 DEF Verbs

LEMMA VerbsAreNotRefresh == "refresh" \notin Verbs
  <1>1. "refresh" \notin Words
    BY DEF Words
  <1>2. QED  BY Zenon, <1>1, VerbsAreWords

-----------------------------------------------------------------------------
(* Requests *)

LEMMA AnswerFacts ==
    ASSUME NEW a
    PROVE  /\ Answer(a) \in {200, 201, 400, 401, 404}
           /\ a = "register" => Answer(a) = 201
           /\ a = "refresh" => Answer(a) = IF cookie = "valid" THEN 200 ELSE 401
           /\ a \notin AuthActions /\ token = "valid" => Answer(a) # 401
           /\ a \in DOMAIN Makes /\ Success(Answer(a)) =>
                 token = "valid" /\ plan # "malformed_payload_probe"
  <1>1. /\ "register" \notin DOMAIN Makes /\ "refresh" \notin DOMAIN Makes
        /\ "login" \notin DOMAIN Makes /\ "get_application" \notin DOMAIN Makes
    BY SMT, MakesFacts
  <1>2. CASE a \in AuthActions
    BY SMT, <1>1, <1>2 DEF Answer, AuthActions, Success
  <1>3. CASE a \notin AuthActions /\ token # "valid"
    BY SMT, <1>1, <1>3 DEF Answer, AuthActions, Success
  <1>4. CASE a \notin AuthActions /\ token = "valid"
    BY SMT, <1>1, <1>4 DEF Answer, AuthActions, Success
  <1>5. QED  BY Zenon, <1>2, <1>3, <1>4

(* What a request does to the application, whatever becomes of its reply. *)
LEMMA ApplyFacts ==
    ASSUME TypeOK, step \in Steps, NEW a, Apply(a)
    PROVE  /\ effects' \in [Steps -> Nat]
           /\ \A i \in Steps : i # step => effects'[i] = effects[i]
           /\ effects'[step] = IF Success(Answer(a)) /\ a # "refresh"
                               THEN effects[step] + 1 ELSE effects[step]
           /\ \/ resources' = resources
              \/ /\ a \in DOMAIN Makes /\ Success(Answer(a))
                 /\ plan # "malformed_payload_probe"
                 /\ resources' = resources \cup {[kind |-> Makes[a], id |-> sequence + 1,
                                                  parent |-> parent]}
           /\ a \in DOMAIN Makes /\ Success(Answer(a)) =>
                 [kind |-> Makes[a], id |-> sequence + 1, parent |-> parent] \in resources'
           /\ resources' \subseteq Resource
  <1>1. effects \in [Steps -> Nat] /\ resources \subseteq Resource /\ sequence \in Nat /\ parent \in Nat
    BY DEF TypeOK
  <1>2. /\ effects' \in [Steps -> Nat]
        /\ \A i \in Steps : i # step => effects'[i] = effects[i]
        /\ effects'[step] = IF Success(Answer(a)) /\ a # "refresh"
                            THEN effects[step] + 1 ELSE effects[step]
    <2> DEFINE G == Success(Answer(a)) /\ a # "refresh"
    <2>1. effects' = IF G THEN [effects EXCEPT ![step] = @ + 1] ELSE effects
      BY Zenon DEF Apply
    <2> HIDE DEF G
    <2>2. QED  BY SMT, <1>1, <2>1 DEF G
  <1>3. CASE a \in DOMAIN Makes /\ Success(Answer(a))
    <2> DEFINE made == [kind |-> Makes[a], id |-> sequence + 1, parent |-> parent]
    <2>1. resources' = resources \cup {made}
      BY Zenon, <1>3 DEF Apply
    <2>2. made \in Resource
      BY SMT, <1>1, <1>3, KindsFacts DEF Resource
    <2>3. plan # "malformed_payload_probe"
      BY SMT, <1>3, AnswerFacts
    <2>4. QED  BY Zenon, <1>1, <1>2, <1>3, <2>1, <2>2, <2>3
  <1>4. CASE ~(a \in DOMAIN Makes /\ Success(Answer(a)))
    <2>1. resources' = resources
      BY Zenon, <1>4 DEF Apply
    <2>2. QED  BY Zenon, <1>1, <1>2, <1>4, <2>1
  <1>5. QED  BY Zenon, <1>3, <1>4

(* What it does to the session. *)
LEMMA ReceiveFacts ==
    ASSUME TypeOK, NEW a, NEW status, Receive(a, status)
    PROVE  /\ last' \in [kind : Kinds \cup {"none", "other"}, id : Nat]
           /\ \/ last' = last
              \/ last' = SomeResponse
              \/ /\ Success(status) /\ a \in DOMAIN Makes
                 /\ last' = [kind |-> Makes[a], id |-> sequence + 1]
           /\ Success(status) /\ a \in {"register", "refresh"} =>
                 token' = "valid" /\ cookie' = "valid"
           /\ ~(Success(status) /\ a \in {"register", "refresh"}) =>
                 token' = token /\ cookie' = cookie
  <1>1. last \in [kind : Kinds \cup {"none", "other"}, id : Nat] /\ sequence \in Nat
    BY DEF TypeOK
  <1>2. /\ Success(status) /\ a \in {"register", "refresh"} => token' = "valid" /\ cookie' = "valid"
        /\ ~(Success(status) /\ a \in {"register", "refresh"}) => token' = token /\ cookie' = cookie
    BY Zenon DEF Receive
  <1>3. CASE Success(status) /\ a \in DOMAIN Makes
    <2>1. last' = [kind |-> Makes[a], id |-> sequence + 1]
      BY Zenon, <1>3 DEF Receive
    <2>2. last' \in [kind : Kinds \cup {"none", "other"}, id : Nat]
      BY SMT, <1>1, <1>3, <2>1, KindsFacts
    <2>3. QED  BY Zenon, <1>2, <1>3, <2>1, <2>2
  <1>4. CASE ~(Success(status) /\ a \in DOMAIN Makes)
    <2>1. last' \in {SomeResponse} \cup (IF status = 500 THEN {last} ELSE {})
      BY Zenon, <1>4 DEF Receive
    <2>2. last' = SomeResponse \/ last' = last
      BY Zenon, <2>1
    <2>3. SomeResponse \in [kind : Kinds \cup {"none", "other"}, id : Nat]
      BY DEF SomeResponse
    <2>4. QED  BY Zenon, <1>1, <1>2, <2>2, <2>3
  <1>5. QED  BY Zenon, <1>3, <1>4

(* The state of a session after a request: its own step alone may have     *)
(* been applied, and was if the status says so.                            *)
Counted(a, status) ==
    /\ effects' \in [Steps -> Nat]
    /\ \A i \in Steps : i # step => effects'[i] = effects[i]
    /\ effects'[step] \in {effects[step], effects[step] + 1}
    /\ a = "refresh" => effects'[step] = effects[step]
    /\ status # 0 /\ a # "refresh" =>
          effects'[step] = IF Success(status) THEN effects[step] + 1 ELSE effects[step]

Created(a, status) ==
    /\ resources' \subseteq Resource
    /\ \/ resources' = resources
       \/ /\ a \in DOMAIN Makes /\ status # 401
          /\ plan # "malformed_payload_probe"
          /\ resources' = resources \cup {[kind |-> Makes[a], id |-> sequence + 1,
                                           parent |-> parent]}
    /\ last' \in [kind : Kinds \cup {"none", "other"}, id : Nat]
    /\ \/ last' = last
       \/ last' = SomeResponse
       \/ /\ a \in DOMAIN Makes
          /\ last' = [kind |-> Makes[a], id |-> sequence + 1]
          /\ [kind |-> Makes[a], id |-> sequence + 1, parent |-> parent] \in resources'

Charged(a, status) ==
    /\ faults' \in 0..MaxFaults
    /\ \/ faults' = faults /\ status = Answer(a)
       \/ faults' = faults + 1 /\ status \in {0, 500}
    /\ lockedOut' \in BOOLEAN
    /\ lockedOut => lockedOut'
    /\ Success(status) /\ a \in {"register", "refresh"} => token' = "valid" /\ cookie' = "valid"
    /\ ~(Success(status) /\ a \in {"register", "refresh"}) =>
          /\ token' = token
          /\ \/ cookie' = cookie
             \/ cookie' = "revoked" /\ lockedOut'

LEMMA RequestFacts ==
    ASSUME TypeOK, step \in Steps, NEW a, NEW status, Request(a, status)
    PROVE  /\ sequence' = sequence + 1
           /\ Counted(a, status)
           /\ Created(a, status)
           /\ Charged(a, status)
  <1>0. Answer(a) \in {200, 201, 400, 401, 404}
    BY AnswerFacts
  <1>t. /\ effects \in [Steps -> Nat] /\ effects[step] \in Nat /\ resources \subseteq Resource
        /\ last \in [kind : Kinds \cup {"none", "other"}, id : Nat]
        /\ faults \in 0..MaxFaults /\ lockedOut \in BOOLEAN /\ MaxFaults \in Nat
    BY Assumption DEF TypeOK
  <1>s. sequence' = sequence + 1
    BY DEF Request
  <1>r. Success(status) => status # 401
    BY DEF Success
  <1>1. CASE status = Answer(a) /\ Apply(a) /\ Receive(a, status) /\ UNCHANGED <<faults, lockedOut>>
    <2>1. Counted(a, status)
      <3>1. /\ effects' \in [Steps -> Nat]
            /\ \A i \in Steps : i # step => effects'[i] = effects[i]
            /\ effects'[step] = IF Success(Answer(a)) /\ a # "refresh"
                                THEN effects[step] + 1 ELSE effects[step]
        BY Zenon, <1>1, ApplyFacts
      <3>2. QED  BY SMT, <1>0, <1>1, <1>t, <3>1 DEF Counted
    <2>2. Created(a, status)
      <3>1. \/ last' = last
            \/ last' = SomeResponse
            \/ /\ a \in DOMAIN Makes
               /\ last' = [kind |-> Makes[a], id |-> sequence + 1]
               /\ [kind |-> Makes[a], id |-> sequence + 1, parent |-> parent] \in resources'
        BY Zenon, <1>1, ApplyFacts, ReceiveFacts
      <3>2. /\ resources' \subseteq Resource
            /\ \/ resources' = resources
               \/ /\ a \in DOMAIN Makes /\ status # 401
                  /\ plan # "malformed_payload_probe"
                  /\ resources' = resources \cup {[kind |-> Makes[a], id |-> sequence + 1,
                                                   parent |-> parent]}
        BY Zenon, <1>1, <1>r, ApplyFacts
      <3>3. last' \in [kind : Kinds \cup {"none", "other"}, id : Nat]
        BY Zenon, <1>1, ReceiveFacts
      <3>4. QED  BY Zenon, <3>1, <3>2, <3>3 DEF Created
    <2>3. Charged(a, status)
      BY Zenon, <1>1, <1>t, ReceiveFacts DEF Charged
    <2>4. QED  BY Zenon, <1>s, <2>1, <2>2, <2>3
  <1>2. CASE /\ faults < MaxFaults /\ faults' = faults + 1
             /\ status = 500 /\ Receive(a, status) /\ UNCHANGED <<application, lockedOut>>
    <2>0. ~Success(status)
      BY <1>2 DEF Success
    <2>u. effects' = effects /\ resources' = resources /\ lockedOut' = lockedOut
      BY <1>2 DEF application
    <2>f. faults' \in 0..MaxFaults /\ status \in {0, 500}
      BY SMT, <1>2, <1>t
    <2>1. Counted(a, status)
      BY Zenon, <2>0, <2>u, <1>t DEF Counted
    <2>2. Created(a, status)
      BY Zenon, <1>2, <1>t, <2>0, <2>u, ReceiveFacts DEF Created
    <2>l. lockedOut' \in BOOLEAN /\ (lockedOut => lockedOut')
      BY Zenon, <1>t, <2>u
    <2>c. token' = token /\ cookie' = cookie
      BY Zenon, <1>2, <2>0, ReceiveFacts
    <2>3. Charged(a, status)
      BY Zenon, <1>2, <2>0, <2>c, <2>f, <2>l DEF Charged
    <2>4. QED  BY Zenon, <1>s, <2>1, <2>2, <2>3
  <1>3. CASE /\ faults < MaxFaults /\ faults' = faults + 1
             /\ status = 0 /\ UNCHANGED <<application, token, cookie, last, lockedOut>>
    <2>0. ~Success(status)
      BY <1>3 DEF Success
    <2>u. effects' = effects /\ resources' = resources /\ lockedOut' = lockedOut
      BY <1>3 DEF application
    <2>f. faults' \in 0..MaxFaults /\ status \in {0, 500}
      BY SMT, <1>3, <1>t
    <2>1. Counted(a, status)
      BY Zenon, <1>3, <2>0, <2>u, <1>t DEF Counted
    <2>2. Created(a, status)
      BY Zenon, <1>3, <1>t, <2>0, <2>u DEF Created
    <2>l. lockedOut' \in BOOLEAN /\ (lockedOut => lockedOut')
      BY Zenon, <1>t, <2>u
    <2>c. token' = token /\ cookie' = cookie
      BY <1>3
    <2>3. Charged(a, status)
      BY Zenon, <1>3, <2>0, <2>c, <2>f, <2>l DEF Charged
    <2>4. QED  BY Zenon, <1>s, <2>1, <2>2, <2>3
  <1>4. CASE /\ faults < MaxFaults /\ faults' = faults + 1
             /\ status = 0 /\ Apply(a)
             /\ cookie' = IF a = "refresh" /\ cookie = "valid" THEN "revoked" ELSE cookie
             /\ lockedOut' = (lockedOut \/ cookie' = "revoked")
             /\ UNCHANGED <<token, last>>
    <2>0. ~Success(status)
      BY <1>4 DEF Success
    <2>f. faults' \in 0..MaxFaults
      BY SMT, <1>4, <1>t
    <2>1. Counted(a, status)
      <3>1. /\ effects' \in [Steps -> Nat]
            /\ \A i \in Steps : i # step => effects'[i] = effects[i]
            /\ effects'[step] = IF Success(Answer(a)) /\ a # "refresh"
                                THEN effects[step] + 1 ELSE effects[step]
        BY Zenon, <1>4, ApplyFacts
      <3>2. QED  BY SMT, <1>0, <1>4, <1>t, <3>1 DEF Counted
    <2>2. Created(a, status)
      <3>1. status # 401
        BY <1>4
      <3>2. QED  BY Zenon, <1>4, <1>t, <3>1, ApplyFacts DEF Created
    <2>3. lockedOut' \in BOOLEAN
      BY Zenon, <1>4
    <2>4. Charged(a, status)
      BY Zenon, <1>4, <1>t, <2>0, <2>f, <2>3 DEF Charged
    <2>5. QED  BY Zenon, <1>s, <2>1, <2>2, <2>4
  <1>5. QED  BY Zenon, <1>1, <1>2, <1>3, <1>4 DEF Request

(* What follows an action. *)
LEMMA AfterFacts ==
    ASSUME TypeOK, step \in 1..Span(plan), NEW response
    PROVE  /\ After(step, response) \in (step + 1)..(Span(plan) + 1)
           /\ plan = "normal" /\ After(step, response) \in 5..7 =>
                 /\ After(step, response) = step + 1
                 /\ response.kind = Makes[Normal[step]]
  <1>0. plan \in Plans /\ Span(plan) \in 6..9
    BY PlanFacts DEF TypeOK
  <1>1. CASE plan # "normal"
    <2>1. After(step, response) = step + 1
      BY <1>1 DEF After
    <2>2. QED  BY SMT, <1>0, <1>1, <2>1
  <1>2. CASE plan = "normal"
    <2>1. Actions(plan) = Normal /\ Span(plan) = 9
      BY Zenon, <1>0, <1>2, PlanFacts DEF Span
    <2>2. Normal[step] \in {"create_application", "create_round", "create_experience"}
              <=> step \in 4..6
      BY Zenon, <2>1, ChainFacts
    <2>3. After(step, response) = IF step \in 4..6 /\ response.kind # Makes[Normal[step]]
                                  THEN 8 ELSE step + 1
      BY Zenon, <1>2, <2>1, <2>2 DEF After
    <2>4. step \in 1..9
      BY Zenon, <2>1
    <2>5. QED  BY SMT, <2>1, <2>3, <2>4
  <1>3. QED  BY Zenon, <1>1, <1>2

-----------------------------------------------------------------------------
(* The invariant *)

(* The plan is one the agent was given, and only an action that needs a    *)
(* token is refused and retried.                                           *)
InPlay == /\ plan = "normal" \/ \E i \in DOMAIN AllowList : AllowList[i] = plan
          /\ step \in 1..(Span(plan) + 1)
          /\ phase # "first" => step <= Span(plan) /\ Action \notin AuthActions
          /\ observations = <<>> => step = 1
          /\ Len(observations) < step

(* Nothing of the action in hand, or of a later one, has been applied yet, *)
(* and what was observed is over.                                          *)
OneByOne == /\ \A k \in DOMAIN observations : observations[k].step < step
            /\ \A i \in Steps : i >= step => effects[i] = 0
            /\ ObservationTellsEffect

(* What exists was made by earlier actions of the workflow; an id that the *)
(* session still holds is that of something it made, and a step in the     *)
(* chain is only taken with its parent's.                                  *)
Chained == /\ \A r \in resources :
                 plan = "normal" /\ \E j \in 4..8 : j < step /\ r.kind = Makes[Normal[j]]
           /\ last.kind \in Kinds =>
                 \E r \in resources : r.kind = last.kind /\ r.id = last.id
           /\ plan = "normal" /\ step \in 5..7 =>
                 \E r \in resources : r.kind = Makes[Normal[step - 1]] /\ r.id = parent
           /\ ParentsAreOwn

(* Requests since the last observation, by phase. *)
LastSeq == IF observations = <<>> THEN 0 ELSE observations[Len(observations)].seq

Spent == IF phase = "first" THEN 0 ELSE IF phase = "refresh" THEN 1 ELSE 2

Paced == /\ sequence - LastSeq \in Spent..(Spent + 1)
         /\ sequence <= 3 * Len(observations) + Spent
         /\ \A k \in 2..Len(observations) :
               observations[k].seq - observations[k - 1].seq \in 1..4

(* The refusals that the property counts, in a session that should not     *)
(* have seen any.                                                          *)
Refused == {k \in DOMAIN observations :
               observations[k].status = 401 /\ observations[k].action # "login"}

Entitled == /\ observations # <<>>
            /\ Success(observations[1].status)
            /\ ~lockedOut

(* Each refusal has used up a fault or an expiry; so has an expired token, *)
(* and a refresh that an expiry made necessary.                            *)
Debt == Cardinality(Refused) + (IF token = "expired" THEN 1 ELSE 0)
                             + (IF phase = "retry" THEN 1 ELSE 0)

Afforded == Entitled =>
               /\ cookie = "valid"
               /\ token \in {"valid", "expired"}
               /\ phase = "refresh" => token = "expired"
               /\ Debt <= faults + expiries
               /\ Refused # {} => Cardinality(Refused) + 1 <= faults + expiries

SessionInv == TypeOK /\ InPlay /\ OneByOne /\ Chained /\ Paced /\ Afforded

-----------------------------------------------------------------------------
(* The steps of a session: an action may be refused, its token renewed,    *)
(* its outcome recorded, or it is given up with the 401 it got.            *)
Goes(to) == phase' = to /\ UNCHANGED <<plan, step, parent, observations, past, expiries>>

Turned == /\ ~Over /\ phase = "first" /\ Action \notin AuthActions
          /\ Request(Action, 401)
          /\ Goes("refresh")

Renewed == /\ phase = "refresh"
           /\ \E status \in Statuses :
                 Request("refresh", status) /\ Success(status) /\ Goes("retry")

Recorded == /\ phase # "refresh"
            /\ \E status \in Statuses :
                  /\ Request(Action, status)
                  /\ phase = "first" /\ status = 401 => Action \in AuthActions
                  /\ Observe(status, sequence')

GivenUp == /\ phase = "refresh"
           /\ \E status \in Statuses :
                 Request("refresh", status) /\ ~Success(status) /\ Observe(401, sequence)

LEMMA WorkCases ==
    ASSUME TypeOK, InPlay, Work
    PROVE  /\ Turned \/ Renewed \/ Recorded \/ GivenUp
           /\ step \in 1..Span(plan) /\ step \in Steps
           /\ DOMAIN Actions(plan) = 1..Span(plan) /\ Len(Actions(plan)) = Span(plan)
           /\ Action \in Verbs
  <1>1. /\ plan \in Plans /\ Span(plan) \in 6..9 /\ DOMAIN Actions(plan) = 1..Span(plan)
        /\ Len(Actions(plan)) = Span(plan)
        /\ \A i \in 1..Span(plan) : Actions(plan)[i] \in Verbs
    BY PlanFacts DEF TypeOK
  <1>2. step \in 1..(Span(plan) + 1) /\ (phase # "first" => step <= Span(plan))
    BY DEF InPlay
  <1>3. CASE Attempt
    <2>1. ~Over /\ phase = "first"
      BY Zenon, <1>3 DEF Attempt
    <2>2. step \in 1..Span(plan)
      BY SMT, <1>1, <1>2, <2>1 DEF Over
    <2>3. PICK status \in Statuses :
             /\ Request(Action, status)
             /\ IF status = 401 /\ Action \notin AuthActions
                THEN phase' = "refresh" /\ UNCHANGED <<plan, step, parent, observations, past, expiries>>
                ELSE Observe(status, sequence')
      BY Zenon, <1>3 DEF Attempt
    <2>4. CASE status = 401 /\ Action \notin AuthActions
      <3>1. Goes("refresh") /\ Request(Action, 401)
        BY Zenon, <2>3, <2>4 DEF Goes
      <3>2. Turned
        BY Zenon, <2>1, <2>4, <3>1 DEF Turned
      <3>3. QED  BY <1>1, <2>2, <3>2 DEF Steps, Action
    <2>5. CASE ~(status = 401 /\ Action \notin AuthActions)
      <3>1. Observe(status, sequence')
        BY Zenon, <2>3, <2>5
      <3>2. Recorded
        BY Zenon, <2>1, <2>3, <2>5, <3>1 DEF Recorded
      <3>3. QED  BY <1>1, <2>2, <3>2 DEF Steps, Action
    <2>6. QED  BY Zenon, <2>4, <2>5
  <1>4. CASE Refresh
    <2>1. phase = "refresh" /\ step \in 1..Span(plan)
      BY SMT, <1>1, <1>2, <1>4 DEF Refresh
    <2>2. PICK status \in Statuses :
             /\ Request("refresh", status)
             /\ IF Success(status)
                THEN phase' = "retry" /\ UNCHANGED <<plan, step, parent, observations, past, expiries>>
                ELSE Observe(401, sequence)
      BY Zenon, <1>4 DEF Refresh
    <2>3. Renewed \/ GivenUp
      <3>1. CASE Success(status)
        <4>1. Goes("retry")
          BY Zenon, <2>2, <3>1 DEF Goes
        <4>2. QED  BY Zenon, <2>1, <2>2, <3>1, <4>1 DEF Renewed
      <3>2. CASE ~Success(status)
        BY Zenon, <2>1, <2>2, <3>2 DEF GivenUp
      <3>3. QED  BY Zenon, <3>1, <3>2
    <2>4. QED  BY <1>1, <2>1, <2>3 DEF Steps, Action
  <1>5. CASE Retry
    <2>1. phase = "retry" /\ step \in 1..Span(plan)
      BY SMT, <1>1, <1>2, <1>5 DEF Retry
    <2>2. Recorded
      BY Zenon, <1>5, <2>1 DEF Retry, Recorded
    <2>3. QED  BY <1>1, <2>1, <2>2 DEF Steps, Action
  <1>6. QED  BY Zenon, <1>3, <1>4, <1>5 DEF Work

(* What recording an observation leaves. *)
LEMMA ObserveFacts ==
    ASSUME TypeOK, InPlay, step \in 1..Span(plan), Action \in Verbs, last' \in [kind : Kinds \cup {"none", "other"}, id : Nat],
           NEW status \in Statuses, NEW seq \in Nat, Observe(status, seq)
    PROVE  /\ \E o \in Observation :
                 /\ o.action = Action /\ o.status = status /\ o.seq = seq /\ o.step = step
                 /\ observations' = Append(observations, o)
           /\ observations' \in Seq(Observation)
           /\ Len(observations') = Len(observations) + 1
           /\ \A k \in 1..Len(observations) : observations'[k] = observations[k]
           /\ LET o == observations'[Len(observations) + 1]
              IN  o.action = Action /\ o.status = status /\ o.seq = seq /\ o.step = step
           /\ step' \in (step + 1)..(Span(plan) + 1) /\ Span(plan) \in 6..9
           /\ plan = "normal" /\ step' \in 5..7 =>
                 step' = step + 1 /\ last'.kind = Makes[Normal[step]] /\ parent' = last'.id
           /\ parent' \in Nat
           /\ phase' = "first" /\ plan' = plan /\ past' = past /\ expiries' = expiries
  <1>0. plan \in Plans /\ Span(plan) \in 6..9 /\ observations \in Seq(Observation) /\ step \in Steps
    <2>1. plan \in Plans /\ observations \in Seq(Observation)
      BY DEF TypeOK
    <2>2. Span(plan) \in 6..9
      BY <2>1, PlanFacts
    <2>3. step \in Steps
      BY SMT, <2>2 DEF Steps
    <2>4. QED  BY <2>1, <2>2, <2>3
  <1> DEFINE o == [action |-> Action, target |-> Target(plan, step), status |-> status,
                   valid |-> status # 400, seq |-> seq, step |-> step]
  <1>1. o \in Observation
    <2>1. Target(plan, step) \in 0..9
      BY SMT, <1>0 DEF Target, Steps
    <2>2. (status # 400) \in BOOLEAN
      OBVIOUS
    <2> DEFINE t == Target(plan, step)  v == (status # 400)
    <2> HIDE DEF t, v
    <2>3. [action |-> Action, target |-> t, status |-> status,
           valid |-> v, seq |-> seq, step |-> step] \in Observation
      BY SMT, <1>0, <2>1, <2>2 DEF Observation, t, v
    <2>4. QED  BY Zenon, <2>3 DEF t, v
  <1>2. observations' = Append(observations, o)
    BY Zenon DEF Observe
  <1>3. o.action = Action /\ o.status = status /\ o.seq = seq /\ o.step = step
    OBVIOUS
  <1> HIDE DEF o
  <1>4. /\ observations' \in Seq(Observation)
        /\ Len(observations') = Len(observations) + 1
        /\ \A k \in 1..Len(observations) : observations'[k] = observations[k]
        /\ observations'[Len(observations) + 1] = o
    BY SMT, <1>0, <1>1, <1>2
  <1>5. step' = After(step, last')
    BY Zenon DEF Observe
  <1>6. /\ step' \in (step + 1)..(Span(plan) + 1)
        /\ plan = "normal" /\ step' \in 5..7 =>
              step' = step + 1 /\ last'.kind = Makes[Normal[step]]
    BY Zenon, <1>5, AfterFacts
  <1>7. /\ plan = "normal" /\ step' \in 5..7 => parent' = last'.id
        /\ parent' \in Nat
    <2>1. parent' = IF plan = "normal" /\ step' \in 5..7 THEN last'.id ELSE 0
      BY Zenon DEF Observe
    <2>2. last'.id \in Nat
      OBVIOUS
    <2>3. QED  BY Zenon, <2>1, <2>2
  <1>8. phase' = "first" /\ plan' = plan /\ past' = past /\ expiries' = expiries
    BY DEF Observe
  <1>9. QED  BY Zenon, <1>0, <1>1, <1>2, <1>3, <1>4, <1>6, <1>7, <1>8

-----------------------------------------------------------------------------
(* Types and plans *)

(* Every kind of step, by what it requested and what it concluded. *)
LEMMA TurnedFacts ==
    ASSUME TypeOK, step \in Steps, Turned
    PROVE  /\ Action \notin AuthActions /\ phase = "first" /\ phase' = "refresh"
           /\ plan' = plan /\ step' = step /\ parent' = parent /\ past' = past
           /\ observations' = observations /\ expiries' = expiries
           /\ sequence' = sequence + 1 /\ Action' = Action
           /\ Counted(Action, 401) /\ Created(Action, 401) /\ Charged(Action, 401)
  <1>1. Request(Action, 401) /\ Goes("refresh") /\ Action \notin AuthActions /\ phase = "first"
    BY Zenon DEF Turned
  <1>2. /\ phase' = "refresh" /\ plan' = plan /\ step' = step /\ parent' = parent /\ past' = past
        /\ observations' = observations /\ expiries' = expiries
    BY <1>1 DEF Goes
  <1>3. Action' = Action
    BY Zenon, <1>2 DEF Action
  <1>4. sequence' = sequence + 1 /\ Counted(Action, 401) /\ Created(Action, 401) /\ Charged(Action, 401)
    BY <1>1, RequestFacts
  <1>5. QED  BY <1>1, <1>2, <1>3, <1>4

LEMMA RenewedFacts ==
    ASSUME TypeOK, step \in Steps, Renewed
    PROVE  \E status \in Statuses :
           /\ Success(status) /\ phase = "refresh" /\ phase' = "retry"
           /\ plan' = plan /\ step' = step /\ parent' = parent /\ past' = past
           /\ observations' = observations /\ expiries' = expiries
           /\ sequence' = sequence + 1 /\ Action' = Action
           /\ Counted("refresh", status) /\ Created("refresh", status) /\ Charged("refresh", status)
  <1>1. PICK status \in Statuses : Request("refresh", status) /\ Success(status) /\ Goes("retry")
    BY Zenon DEF Renewed
  <1>2. /\ phase' = "retry" /\ plan' = plan /\ step' = step /\ parent' = parent /\ past' = past
        /\ observations' = observations /\ expiries' = expiries
    BY <1>1 DEF Goes
  <1>3. Action' = Action
    BY Zenon, <1>2 DEF Action
  <1>4. /\ sequence' = sequence + 1
        /\ Counted("refresh", status) /\ Created("refresh", status) /\ Charged("refresh", status)
    BY <1>1, RequestFacts
  <1>5. phase = "refresh"
    BY DEF Renewed
  <1>6. QED  BY Zenon, <1>1, <1>2, <1>3, <1>4, <1>5

LEMMA RecordedFacts ==
    ASSUME TypeOK, step \in Steps, Recorded
    PROVE  \E status \in Statuses :
           /\ phase # "refresh"
           /\ phase = "first" /\ status = 401 => Action \in AuthActions
           /\ Observe(status, sequence')
           /\ sequence' = sequence + 1
           /\ Counted(Action, status) /\ Created(Action, status) /\ Charged(Action, status)
  BY RequestFacts DEF Recorded

LEMMA GivenUpFacts ==
    ASSUME TypeOK, step \in Steps, GivenUp
    PROVE  \E status \in Statuses :
           /\ ~Success(status) /\ phase = "refresh"
           /\ Observe(401, sequence)
           /\ sequence' = sequence + 1
           /\ Counted("refresh", status) /\ Created("refresh", status) /\ Charged("refresh", status)
  BY RequestFacts DEF GivenUp

LEMMA CookieTypes ==
    ASSUME TypeOK, NEW a, NEW status, Charged(a, status)
    PROVE  /\ token' \in {"none", "valid", "expired"} /\ cookie' \in {"none", "valid", "revoked"}
           /\ faults' \in 0..MaxFaults /\ lockedOut' \in BOOLEAN
  <1>1. token \in {"none", "valid", "expired"} /\ cookie \in {"none", "valid", "revoked"}
    BY DEF TypeOK
  <1>2. /\ faults' \in 0..MaxFaults /\ lockedOut' \in BOOLEAN
        /\ token' \in {"valid", token} /\ cookie' \in {"valid", "revoked", cookie}
    <2>1. CASE Success(status) /\ a \in {"register", "refresh"}
      BY Zenon, <2>1 DEF Charged
    <2>2. CASE ~(Success(status) /\ a \in {"register", "refresh"})
      BY Zenon, <2>2 DEF Charged
    <2>3. QED  BY Zenon, <2>1, <2>2
  <1>3. QED  BY <1>1, <1>2

LEMMA WorkTypes ==
    ASSUME TypeOK, InPlay, Work
    PROVE  TypeOK' /\ InPlay'
  <1>0. /\ step \in 1..Span(plan) /\ step \in Steps /\ Action \in Verbs
        /\ Turned \/ Renewed \/ Recorded \/ GivenUp
    BY Zenon, WorkCases
  <1>t. /\ plan \in Plans /\ sequence \in Nat /\ parent \in Nat
        /\ observations \in Seq(Observation) /\ expiries \in 0..MaxExpiries
        /\ past \in Seq([plan : Plans, escalated : BOOLEAN])
        /\ phase \in {"first", "refresh", "retry"} /\ step \in 1..10
    BY DEF TypeOK
  <1>p. /\ plan = "normal" \/ \E i \in DOMAIN AllowList : AllowList[i] = plan
        /\ observations = <<>> => step = 1
        /\ Len(observations) < step
    BY Zenon DEF InPlay
  <1>1. ASSUME NEW a, NEW status, Counted(a, status), Created(a, status), Charged(a, status),
               sequence' = sequence + 1, past' = past, plan' = plan, expiries' = expiries,
               step' \in 1..10, parent' \in Nat, phase' \in {"first", "refresh", "retry"},
               observations' \in Seq(Observation)
        PROVE  TypeOK'
    <2>1. /\ token' \in {"none", "valid", "expired"} /\ cookie' \in {"none", "valid", "revoked"}
          /\ faults' \in 0..MaxFaults /\ lockedOut' \in BOOLEAN
      BY Zenon, <1>1, CookieTypes
    <2>2. effects' \in [Steps -> Nat] /\ resources' \subseteq Resource
          /\ last' \in [kind : Kinds \cup {"none", "other"}, id : Nat]
      BY Zenon, <1>1 DEF Counted, Created
    <2>3. sequence' \in Nat
      BY <1>t, <1>1
    <2>4. plan' \in Plans /\ past' \in Seq([plan : Plans, escalated : BOOLEAN]) /\ expiries' \in 0..MaxExpiries
      BY Zenon, <1>t, <1>1
    <2>5. QED  BY Zenon, <1>1, <2>1, <2>2, <2>3, <2>4 DEF TypeOK
  <1>2. ASSUME phase' # "first", step' = step, plan' = plan, observations' = observations,
               Action' = Action, Action \notin AuthActions
        PROVE  InPlay'
    <2>1. Span(plan') = Span(plan)
      BY Zenon, <1>2
    <2>2. step' \in 1..(Span(plan) + 1) /\ step' <= Span(plan)
      <3>1. Span(plan) \in 6..9
        BY <1>t, PlanFacts
      <3>2. QED  BY SMT, <1>0, <1>2, <3>1
    <2>3. QED  BY Zenon, <1>p, <1>2, <2>1, <2>2 DEF InPlay, Span
  <1>3. ASSUME NEW status \in Statuses, NEW seq \in Nat, Observe(status, seq),
               last' \in [kind : Kinds \cup {"none", "other"}, id : Nat]
        PROVE  /\ step' \in 1..10 /\ parent' \in Nat /\ phase' \in {"first", "refresh", "retry"}
               /\ observations' \in Seq(Observation)
               /\ past' = past /\ plan' = plan /\ expiries' = expiries
               /\ InPlay'
    <2>1. /\ observations' \in Seq(Observation)
          /\ Len(observations') = Len(observations) + 1
          /\ step' \in (step + 1)..(Span(plan) + 1) /\ Span(plan) \in 6..9
          /\ parent' \in Nat
          /\ phase' = "first" /\ plan' = plan /\ past' = past /\ expiries' = expiries
      BY Zenon, <1>0, <1>3, ObserveFacts
    <2>2. Span(plan') = Span(plan)
      BY Zenon, <2>1
    <2>3. step' \in 1..10 /\ step' \in 1..(Span(plan) + 1)
      BY SMT, <1>0, <2>1
    <2>4. observations' # <<>> /\ Len(observations') < step'
      BY SMT, <1>t, <1>p, <2>1
    <2>5. InPlay'
      BY Zenon, <1>p, <2>1, <2>2, <2>3, <2>4 DEF InPlay, Span
    <2>6. QED  BY Zenon, <2>1, <2>3, <2>5
  <1>4. CASE Turned
    <2>1. step' = step /\ parent' = parent /\ phase' = "refresh" /\ observations' = observations
      BY Zenon, <1>0, <1>4, TurnedFacts
    <2>2. step' \in 1..10 /\ parent' \in Nat /\ phase' \in {"first", "refresh", "retry"}
          /\ observations' \in Seq(Observation) /\ phase' # "first"
      BY Zenon, <1>t, <2>1
    <2>3. TypeOK'
      BY Zenon, <1>0, <1>1, <1>4, <2>2, TurnedFacts
    <2>4. InPlay'
      BY Zenon, <1>0, <1>2, <1>4, <2>2, TurnedFacts
    <2>5. QED  BY <2>3, <2>4
  <1>5. CASE Renewed
    <2>0. PICK status \in Statuses :
             /\ phase = "refresh" /\ phase' = "retry"
             /\ plan' = plan /\ step' = step /\ parent' = parent /\ past' = past
             /\ observations' = observations /\ expiries' = expiries
             /\ sequence' = sequence + 1 /\ Action' = Action
             /\ Counted("refresh", status) /\ Created("refresh", status) /\ Charged("refresh", status)
      BY Zenon, <1>0, <1>5, RenewedFacts
    <2>2. step' \in 1..10 /\ parent' \in Nat /\ phase' \in {"first", "refresh", "retry"}
          /\ observations' \in Seq(Observation) /\ phase' # "first"
      BY Zenon, <1>t, <2>0
    <2>3. TypeOK'
      BY Zenon, <1>1, <2>0, <2>2
    <2>4. Action \notin AuthActions
      BY <2>0 DEF InPlay
    <2>5. InPlay'
      BY Zenon, <1>2, <2>0, <2>2, <2>4
    <2>6. QED  BY <2>3, <2>5
  <1>6. CASE Recorded
    <2>1. PICK status \in Statuses :
             /\ Observe(status, sequence')
             /\ sequence' = sequence + 1
             /\ Counted(Action, status) /\ Created(Action, status) /\ Charged(Action, status)
      BY Zenon, <1>0, <1>6, RecordedFacts
    <2>2. sequence' \in Nat /\ last' \in [kind : Kinds \cup {"none", "other"}, id : Nat]
      BY <1>t, <2>1 DEF Created
    <2>3. QED  BY Zenon, <1>1, <1>3, <2>1, <2>2
  <1>7. CASE GivenUp
    <2>1. PICK status \in Statuses :
             /\ Observe(401, sequence)
             /\ sequence' = sequence + 1
             /\ Counted("refresh", status) /\ Created("refresh", status) /\ Charged("refresh", status)
      BY Zenon, <1>0, <1>7, GivenUpFacts
    <2>2. 401 \in Statuses /\ last' \in [kind : Kinds \cup {"none", "other"}, id : Nat]
      BY <2>1 DEF Created, Statuses
    <2>3. QED  BY Zenon, <1>t, <1>1, <1>3, <2>1, <2>2
  <1>8. QED  BY Zenon, <1>0, <1>4, <1>5, <1>6, <1>7

-----------------------------------------------------------------------------
(* What an observation tells *)

LEMMA WorkOneByOne ==
    ASSUME TypeOK, InPlay, OneByOne, Work
    PROVE  OneByOne'
  <1>0. /\ step \in 1..Span(plan) /\ step \in Steps /\ Action \in Verbs
        /\ Turned \/ Renewed \/ Recorded \/ GivenUp
    BY Zenon, WorkCases
  <1>t. /\ observations \in Seq(Observation) /\ effects \in [Steps -> Nat] /\ sequence \in Nat
    BY DEF TypeOK
  <1>n. \A i \in Steps : i \in Nat
    BY DEF Steps
  <1>o. /\ \A k \in 1..Len(observations) : observations[k].step < step /\ observations[k].step \in Steps
        /\ \A i \in Steps : i >= step => effects[i] = 0
        /\ \A k \in 1..Len(observations) :
              effects[observations[k].step]
                  \in (IF observations[k].status = 0 THEN {0, 1}
                       ELSE IF Success(observations[k].status) THEN {1} ELSE {0})
    <2>1. DOMAIN observations = 1..Len(observations)
      BY <1>t
    <2>2. \A k \in 1..Len(observations) : observations[k] \in Observation
      BY SMT, <1>t
    <2>3. \A k \in 1..Len(observations) : observations[k].step \in Steps
      BY <2>2 DEF Observation
    <2>4. QED  BY Zenon, <2>1, <2>3 DEF OneByOne, ObservationTellsEffect
  <1>1. ASSUME observations' = observations, step' = step, effects' \in [Steps -> Nat],
               \A i \in Steps : effects'[i] = effects[i]
        PROVE  OneByOne'
    <2>1. effects = [i \in Steps |-> effects[i]] /\ effects' = [i \in Steps |-> effects'[i]]
      BY Zenon, <1>1, <1>t
    <2>2. effects' = effects
      BY Zenon, <1>1, <2>1
    <2>3. QED  BY Zenon, <1>1, <2>2 DEF OneByOne, ObservationTellsEffect
  <1> DEFINE Told(status, times) ==
                times \in (IF status = 0 THEN {0, 1} ELSE IF Success(status) THEN {1} ELSE {0})
  <1>2. ASSUME NEW status \in Statuses, NEW seq \in Nat, Observe(status, seq),
               last' \in [kind : Kinds \cup {"none", "other"}, id : Nat],
               effects' \in [Steps -> Nat], \A i \in Steps : i # step => effects'[i] = effects[i],
               Told(status, effects'[step])
        PROVE  OneByOne'
    <2>1. /\ observations' \in Seq(Observation)
          /\ Len(observations') = Len(observations) + 1
          /\ \A k \in 1..Len(observations) : observations'[k] = observations[k]
          /\ observations'[Len(observations) + 1].step = step
          /\ observations'[Len(observations) + 1].status = status
          /\ step' \in (step + 1)..(Span(plan) + 1) /\ Span(plan) \in 6..9
      BY Zenon, <1>0, <1>2, ObserveFacts
    <2>2. DOMAIN observations' = 1..(Len(observations) + 1) /\ Len(observations) \in Nat
      BY <1>t, <2>1
    <2>3. \A k \in DOMAIN observations' : k \in 1..Len(observations) \/ k = Len(observations) + 1
      BY <2>2
    <2>4. step' > step /\ step \in Nat /\ step' \in Nat
      BY SMT, <1>0, <2>1
    <2>5. ASSUME NEW k \in DOMAIN observations'
          PROVE  observations'[k].step < step'
      <3>1. CASE k \in 1..Len(observations)
        <4>1. observations'[k].step = observations[k].step
          BY Zenon, <2>1, <3>1
        <4>2. observations[k].step < step /\ observations[k].step \in Nat
          BY Zenon, <1>n, <1>o, <3>1
        <4>3. QED  BY <2>4, <4>1, <4>2
      <3>2. CASE k = Len(observations) + 1
        BY <2>1, <2>4, <3>2
      <3>3. QED  BY Zenon, <2>3, <3>1, <3>2
    <2>6. ASSUME NEW i \in Steps, i >= step'
          PROVE  effects'[i] = 0
      <3>1. i >= step /\ i # step
        BY <1>n, <2>4, <2>6
      <3>2. QED  BY Zenon, <1>2, <1>o, <2>6, <3>1
    <2>7. ASSUME NEW k \in DOMAIN observations'
          PROVE  effects'[observations'[k].step]
                     \in (IF observations'[k].status = 0 THEN {0, 1}
                          ELSE IF Success(observations'[k].status) THEN {1} ELSE {0})
      <3>1. CASE k = Len(observations) + 1
        BY Zenon, <1>2, <2>1, <3>1
      <3>2. CASE k \in 1..Len(observations)
        <4>1. observations'[k] = observations[k]
          BY Zenon, <2>1, <3>2
        <4>2. observations[k].step \in Steps /\ observations[k].step # step
          <5>1. observations[k].step \in Steps /\ observations[k].step < step
            BY Zenon, <1>o, <3>2
          <5>2. QED  BY <1>n, <2>4, <5>1
        <4>3. effects'[observations[k].step] = effects[observations[k].step]
          BY Zenon, <1>2, <4>2
        <4>4. effects[observations[k].step]
                  \in (IF observations[k].status = 0 THEN {0, 1}
                       ELSE IF Success(observations[k].status) THEN {1} ELSE {0})
          BY Zenon, <1>o, <3>2
        <4>5. QED  BY Zenon, <4>1, <4>3, <4>4
      <3>3. QED  BY Zenon, <2>3, <3>1, <3>2
    <2>8. ObservationTellsEffect'
      BY Zenon, <2>7 DEF ObservationTellsEffect
    <2>9. QED  BY Zenon, <2>5, <2>6, <2>8 DEF OneByOne
  <1> HIDE DEF Told
  <1>z. effects[step] = 0 /\ ~Success(401) /\ 401 # 0
    <2>1. step >= step
      BY <1>0, <1>n
    <2>2. effects[step] = 0
      BY Zenon, <1>0, <1>o, <2>1
    <2>3. QED  BY <2>2 DEF Success
  <1>4. CASE Turned
    <2>1. step' = step /\ observations' = observations /\ Counted(Action, 401)
      BY Zenon, <1>0, <1>4, TurnedFacts
    <2>2. Action # "refresh"
      <3>1. Action \notin AuthActions
        BY Zenon, <1>0, <1>4, TurnedFacts
      <3>2. QED  BY <3>1 DEF AuthActions
    <2>3. effects' \in [Steps -> Nat] /\ \A i \in Steps : effects'[i] = effects[i]
      BY Zenon, <1>z, <2>1, <2>2 DEF Counted
    <2>4. QED  BY Zenon, <1>1, <2>1, <2>3
  <1>5. CASE Renewed
    <2>1. PICK status \in Statuses :
             step' = step /\ observations' = observations /\ Counted("refresh", status)
      BY Zenon, <1>0, <1>5, RenewedFacts
    <2>2. effects' \in [Steps -> Nat] /\ \A i \in Steps : effects'[i] = effects[i]
      BY Zenon, <2>1 DEF Counted
    <2>3. QED  BY Zenon, <1>1, <2>1, <2>2
  <1>6. CASE Recorded
    <2>1. PICK status \in Statuses :
             /\ Observe(status, sequence')
             /\ sequence' = sequence + 1
             /\ Counted(Action, status) /\ Created(Action, status)
      BY Zenon, <1>0, <1>6, RecordedFacts
    <2>2. sequence' \in Nat /\ last' \in [kind : Kinds \cup {"none", "other"}, id : Nat]
      <3>1. last' \in [kind : Kinds \cup {"none", "other"}, id : Nat]
        BY Zenon, <2>1 DEF Created
      <3>2. sequence' \in Nat
        BY <1>t, <2>1
      <3>3. QED  BY <3>1, <3>2
    <2>3. effects' \in [Steps -> Nat] /\ \A i \in Steps : i # step => effects'[i] = effects[i]
      BY Zenon, <2>1 DEF Counted
    <2>4. effects'[step] \in {0, 1} /\ (status # 0 /\ Action # "refresh" =>
                                           effects'[step] = IF Success(status) THEN 1 ELSE 0)
      BY SMT, <1>z, <2>1 DEF Counted
    <2>5. Action # "refresh"
      BY <1>0, VerbsAreNotRefresh
    <2>6. Told(status, effects'[step])
      BY Zenon, <2>4, <2>5 DEF Told
    <2>7. QED  BY Zenon, <1>2, <2>1, <2>2, <2>3, <2>6
  <1>7. CASE GivenUp
    <2>1. PICK status \in Statuses :
             /\ Observe(401, sequence)
             /\ sequence' = sequence + 1
             /\ Counted("refresh", status) /\ Created("refresh", status)
      BY Zenon, <1>0, <1>7, GivenUpFacts
    <2>2. 401 \in Statuses /\ last' \in [kind : Kinds \cup {"none", "other"}, id : Nat]
      BY <2>1 DEF Created, Statuses
    <2>3. effects' \in [Steps -> Nat] /\ (\A i \in Steps : i # step => effects'[i] = effects[i])
          /\ effects'[step] = 0
      BY Zenon, <1>z, <2>1 DEF Counted
    <2>4. Told(401, effects'[step])
      BY Zenon, <1>z, <2>3 DEF Told
    <2>5. sequence \in Nat
      BY Zenon, <1>t
    <2>6. QED  BY SMT, <1>2, <2>1, <2>2, <2>3, <2>4, <2>5
  <1>8. QED  BY Zenon, <1>0, <1>4, <1>5, <1>6, <1>7

-----------------------------------------------------------------------------
(* How many requests *)

LEMMA WorkPaced ==
    ASSUME TypeOK, InPlay, Paced, Work
    PROVE  Paced'
  <1>0. /\ step \in 1..Span(plan) /\ step \in Steps /\ Action \in Verbs
        /\ Turned \/ Renewed \/ Recorded \/ GivenUp
    BY Zenon, WorkCases
  <1>t. /\ observations \in Seq(Observation) /\ sequence \in Nat
        /\ phase \in {"first", "refresh", "retry"}
    BY DEF TypeOK
  <1>s. LastSeq \in Nat /\ Len(observations) \in Nat
    <2>1. Len(observations) \in Nat /\ (observations # <<>> => observations[Len(observations)] \in Observation)
      BY SMT, <1>t
    <2>2. observations # <<>> => observations[Len(observations)].seq \in Nat
      BY <2>1 DEF Observation
    <2>3. QED  BY Zenon, <2>1, <2>2 DEF LastSeq
  <1>p. /\ sequence - LastSeq \in Spent..(Spent + 1)
        /\ sequence <= 3 * Len(observations) + Spent
        /\ \A k \in 2..Len(observations) : observations[k].seq - observations[k - 1].seq \in 1..4
    BY Zenon DEF Paced
  <1>1. ASSUME observations' = observations, Spent' = Spent + 1, Spent \in Nat, sequence' = sequence + 1
        PROVE  Paced'
    <2>1. LastSeq' = LastSeq
      BY Zenon, <1>1 DEF LastSeq
    <2>2. /\ sequence' - LastSeq' \in Spent'..(Spent' + 1)
          /\ sequence' <= 3 * Len(observations) + Spent'
      BY SMT, <1>1, <1>p, <1>s, <1>t, <2>1
    <2>3. QED  BY Zenon, <1>1, <1>p, <2>2 DEF Paced
  <1>2. ASSUME NEW status \in Statuses, NEW seq \in Nat, Observe(status, seq),
               last' \in [kind : Kinds \cup {"none", "other"}, id : Nat],
               seq - LastSeq \in 1..4, sequence' - seq \in 0..1, sequence' \in Nat,
               sequence' <= 3 * Len(observations) + 3
        PROVE  Paced'
    <2>1. /\ observations' \in Seq(Observation)
          /\ Len(observations') = Len(observations) + 1
          /\ \A k \in 1..Len(observations) : observations'[k] = observations[k]
          /\ observations'[Len(observations) + 1].seq = seq
          /\ phase' = "first"
      BY Zenon, <1>0, <1>2, ObserveFacts
    <2>2. LastSeq' = seq /\ Spent' = 0
      <3>1. observations' # <<>>
        BY SMT, <1>s, <2>1
      <3>2. QED  BY Zenon, <2>1, <3>1 DEF LastSeq, Spent
    <2>3. /\ sequence' - LastSeq' \in Spent'..(Spent' + 1)
          /\ sequence' <= 3 * Len(observations') + Spent'
      <3>1. Len(observations') = Len(observations) + 1
        BY Zenon, <2>1
      <3> DEFINE n == Len(observations)  n1 == Len(observations')
      <3> HIDE DEF n, n1
      <3>2. n1 = n + 1 /\ n \in Nat /\ sequence' <= 3 * n + 3
        BY Zenon, <1>2, <1>s, <3>1 DEF n, n1
      <3>3. /\ sequence' - LastSeq' \in Spent'..(Spent' + 1)
            /\ sequence' <= 3 * n1 + Spent'
        <4>1. sequence' - seq \in 0..1 /\ sequence' \in Nat /\ seq \in Nat
          BY Zenon, <1>2
        <4>2. sequence' - seq \in 0..(0 + 1) /\ sequence' <= 3 * n1 + 0
          <5>1. PICK m \in Nat, q \in Nat : m = n /\ q = sequence'
            BY Zenon, <3>2, <4>1
          <5>2. q <= 3 * m + 3 /\ n1 = m + 1
            BY Zenon, <3>2, <5>1
          <5>3. q <= 3 * (m + 1) + 0
            BY <5>1, <5>2
          <5>4. 0 + 1 = 1
            OBVIOUS
          <5>5. QED  BY Zenon, <4>1, <5>1, <5>2, <5>3, <5>4
        <4>3. QED  BY Zenon, <2>2, <4>2
      <3>4. QED  BY Zenon, <3>3 DEF n1
    <2>4. ASSUME NEW k \in 2..Len(observations')
          PROVE  observations'[k].seq - observations'[k - 1].seq \in 1..4
      <3>1. CASE k = Len(observations) + 1
        <4>1. k - 1 = Len(observations) /\ Len(observations) >= 1 /\ observations # <<>>
          BY SMT, <1>s, <1>t, <3>1
        <4>2. observations'[k - 1] = observations[Len(observations)]
          BY SMT, <1>s, <2>1, <4>1
        <4>3. observations'[k - 1].seq = LastSeq
          BY Zenon, <4>1, <4>2 DEF LastSeq
        <4>4. QED  BY Zenon, <1>2, <2>1, <3>1, <4>3
      <3>2. CASE k # Len(observations) + 1
        <4>1. k \in 2..Len(observations) /\ k \in 1..Len(observations) /\ k - 1 \in 1..Len(observations)
          BY SMT, <1>s, <2>1, <3>2
        <4>2. observations'[k] = observations[k] /\ observations'[k - 1] = observations[k - 1]
          BY Zenon, <2>1, <4>1
        <4>3. QED  BY Zenon, <1>p, <4>1, <4>2
      <3>3. QED  BY Zenon, <3>1, <3>2
    <2>5. QED  BY Zenon, <2>3, <2>4 DEF Paced
  <1>4. CASE Turned
    <2>1. /\ phase = "first" /\ phase' = "refresh" /\ observations' = observations
          /\ sequence' = sequence + 1
      BY Zenon, <1>0, <1>4, TurnedFacts
    <2>2. Spent = 0 /\ Spent' = 1
      BY <2>1 DEF Spent
    <2>3. QED  BY <1>1, <2>1, <2>2
  <1>5. CASE Renewed
    <2>1. /\ phase = "refresh" /\ phase' = "retry" /\ observations' = observations
          /\ sequence' = sequence + 1
      BY Zenon, <1>0, <1>5, RenewedFacts
    <2>2. Spent = 1 /\ Spent' = 2
      BY <2>1 DEF Spent
    <2>3. QED  BY <1>1, <2>1, <2>2
  <1>6. CASE Recorded
    <2>1. PICK status \in Statuses :
             /\ phase # "refresh"
             /\ Observe(status, sequence')
             /\ sequence' = sequence + 1
             /\ Created(Action, status)
      BY Zenon, <1>0, <1>6, RecordedFacts
    <2>2. sequence' \in Nat /\ last' \in [kind : Kinds \cup {"none", "other"}, id : Nat]
      <3>1. last' \in [kind : Kinds \cup {"none", "other"}, id : Nat]
        BY Zenon, <2>1 DEF Created
      <3>2. sequence' \in Nat
        BY <1>t, <2>1
      <3>3. QED  BY <3>1, <3>2
    <2>3. Spent \in {0, 2}
      BY <2>1 DEF Spent
    <2>4. /\ sequence' - LastSeq \in 1..4 /\ sequence' - sequence' \in 0..1
          /\ sequence' <= 3 * Len(observations) + 3
      BY SMT, <1>p, <1>s, <1>t, <2>1, <2>3
    <2>5. QED  BY Zenon, <1>2, <2>1, <2>2, <2>4
  <1>7. CASE GivenUp
    <2>1. PICK status \in Statuses :
             /\ phase = "refresh"
             /\ Observe(401, sequence)
             /\ sequence' = sequence + 1
             /\ Created("refresh", status)
      BY Zenon, <1>0, <1>7, GivenUpFacts
    <2>2. 401 \in Statuses /\ last' \in [kind : Kinds \cup {"none", "other"}, id : Nat]
          /\ sequence' \in Nat
      BY <1>t, <2>1 DEF Created, Statuses
    <2>3. Spent = 1
      BY <2>1 DEF Spent
    <2>4. /\ sequence - LastSeq \in 1..4 /\ sequence' - sequence \in 0..1
          /\ sequence' <= 3 * Len(observations) + 3
      BY SMT, <1>p, <1>s, <1>t, <2>1, <2>3
    <2>5. QED  BY Zenon, <1>t, <1>2, <2>1, <2>2, <2>4
  <1>8. QED  BY Zenon, <1>0, <1>4, <1>5, <1>6, <1>7

-----------------------------------------------------------------------------
(* What a session creates *)

LEMMA MakesInjective ==
    /\ \A a, b \in DOMAIN Makes : Makes[a] = Makes[b] => a = b
    /\ \A a \in DOMAIN Under : a \in DOMAIN Makes
    /\ "refresh" \notin DOMAIN Makes
  BY SMT, MakesFacts

(* The id the session holds is that of something it made. *)
LEMMA LastIsMade ==
    ASSUME Chained, NEW a, NEW status, Created(a, status)
    PROVE  /\ last'.kind \in Kinds => \E r \in resources' : r.kind = last'.kind /\ r.id = last'.id
           /\ resources \subseteq resources'
  <1>1. resources \subseteq resources'
    BY Zenon DEF Created
  <1>2. CASE last' = last
    <2>1. last.kind \in Kinds => \E r \in resources : r.kind = last.kind /\ r.id = last.id
      BY Zenon DEF Chained
    <2>2. QED  BY Zenon, <1>1, <1>2, <2>1
  <1>3. CASE last' = SomeResponse
    <2>1. last'.kind = "other"
      BY <1>3 DEF SomeResponse
    <2>2. QED  BY Zenon, <1>1, <2>1, KindsFacts
  <1>4. CASE /\ last' = [kind |-> Makes[a], id |-> sequence + 1]
             /\ [kind |-> Makes[a], id |-> sequence + 1, parent |-> parent] \in resources'
    <2> DEFINE r == [kind |-> Makes[a], id |-> sequence + 1, parent |-> parent]
    <2>1. r.kind = last'.kind /\ r.id = last'.id
      BY <1>4
    <2>2. r \in resources'
      BY Zenon, <1>4
    <2> HIDE DEF r
    <2>3. QED  BY Zenon, <1>1, <2>1, <2>2
  <1>5. QED  BY Zenon, <1>2, <1>3, <1>4 DEF Created

(* An action that creates is the workflow's, and the first of its kind to. *)
LEMMA CreationFacts ==
    ASSUME TypeOK, step \in 1..Span(plan), Action \in DOMAIN Makes,
           plan # "malformed_payload_probe"
    PROVE  plan = "normal" /\ step \in 4..8 /\ step \in 1..9 /\ Action = Normal[step]
  <1>1. plan \in Plans
    BY DEF TypeOK
  <1>2. plan = "normal"
    BY Zenon, <1>1, PlanFacts DEF Action
  <1>3. Span(plan) = 9 /\ Action = Normal[step]
    BY Zenon, <1>1, <1>2, PlanFacts DEF Span, Action
  <1>4. step \in 1..9
    BY Zenon, <1>3
  <1>5. QED  BY Zenon, <1>2, <1>3, <1>4, ChainFacts

LEMMA WorkChained ==
    ASSUME TypeOK, InPlay, Chained, Work
    PROVE  Chained'
  <1>0. /\ step \in 1..Span(plan) /\ step \in Steps /\ Action \in Verbs
        /\ Turned \/ Renewed \/ Recorded \/ GivenUp
    BY Zenon, WorkCases
  <1>t. sequence \in Nat /\ plan \in Plans /\ step \in Nat
    BY DEF TypeOK
  <1>c. /\ \A r \in resources :
              plan = "normal" /\ \E j \in 4..8 : j < step /\ r.kind = Makes[Normal[j]]
        /\ plan = "normal" /\ step \in 5..7 =>
              \E r \in resources : r.kind = Makes[Normal[step - 1]] /\ r.id = parent
        /\ \A r \in resources :
              /\ plan = "normal"
              /\ \A q \in resources : q.kind = r.kind => q = r
              /\ \A a \in DOMAIN Under : Makes[a] = r.kind =>
                    \E p \in resources : p.kind = Under[a] /\ p.id = r.parent
    BY Zenon DEF Chained, ParentsAreOwn
  <1>1. ASSUME NEW a, NEW status, Created(a, status), a \notin DOMAIN Makes \/ status = 401,
               plan' = plan, step' = step, parent' = parent
        PROVE  Chained'
    <2>1. resources' = resources
      BY Zenon, <1>1 DEF Created
    <2>2. Created(a, status) /\ plan' = plan /\ step' = step /\ parent' = parent
      BY Zenon, <1>1
    <2>3. last'.kind \in Kinds => \E r \in resources' : r.kind = last'.kind /\ r.id = last'.id
      BY Zenon, <2>2, LastIsMade
    <2>4. ParentsAreOwn'
      BY Zenon, <1>c, <2>1, <2>2 DEF ParentsAreOwn
    <2>5. \A r \in resources' :
             plan' = "normal" /\ \E j \in 4..8 : j < step' /\ r.kind = Makes[Normal[j]]
      BY Zenon, <1>c, <2>1, <2>2
    <2>6. plan' = "normal" /\ step' \in 5..7 =>
             \E r \in resources' : r.kind = Makes[Normal[step' - 1]] /\ r.id = parent'
      BY Zenon, <1>c, <2>1, <2>2
    <2>7. QED  BY Zenon, <2>3, <2>4, <2>5, <2>6 DEF Chained
  <1>2. ASSUME NEW a, NEW status, Created(a, status), a = Action \/ a \notin DOMAIN Makes,
               NEW told \in Statuses, NEW seq \in Nat, Observe(told, seq)
        PROVE  Chained'
    <2>0. last' \in [kind : Kinds \cup {"none", "other"}, id : Nat]
      BY Zenon, <1>2 DEF Created
    <2>1. /\ step' \in (step + 1)..(Span(plan) + 1) /\ Span(plan) \in 6..9
          /\ plan = "normal" /\ step' \in 5..7 =>
                step' = step + 1 /\ last'.kind = Makes[Normal[step]] /\ parent' = last'.id
          /\ plan' = plan
      BY Zenon, <1>0, <1>2, <2>0, ObserveFacts
    <2>2. last'.kind \in Kinds => \E r \in resources' : r.kind = last'.kind /\ r.id = last'.id
      BY Zenon, <1>2, LastIsMade
    <2>3. resources \subseteq resources'
      BY Zenon, <1>2, LastIsMade
    <2>4. step' > step /\ step' \in Nat
      BY <1>t, <2>1
    <2>5. plan' = "normal" /\ step' \in 5..7 =>
             \E r \in resources' : r.kind = Makes[Normal[step' - 1]] /\ r.id = parent'
      <3> SUFFICES ASSUME plan = "normal", step' \in 5..7
                   PROVE  \E r \in resources' : r.kind = Makes[Normal[step' - 1]] /\ r.id = parent'
        BY Zenon, <2>1
      <3>1. step' = step + 1 /\ last'.kind = Makes[Normal[step]] /\ parent' = last'.id
        BY Zenon, <2>1
      <3>2. step' - 1 = step /\ step \in 4..6 /\ step \in 1..9 /\ step \in 4..8
        BY <1>t, <3>1
      <3>3. Normal[step] \in DOMAIN Makes
        BY Zenon, <3>2, ChainFacts
      <3>4. last'.kind \in Kinds
        BY Zenon, <3>1, <3>3, KindsFacts
      <3>5. QED  BY Zenon, <2>2, <3>1, <3>2, <3>4
    <2>6. CASE resources' = resources
      <3>1. \A r \in resources' :
               plan' = "normal" /\ \E j \in 4..8 : j < step' /\ r.kind = Makes[Normal[j]]
        <4>1. \A j \in 4..8 : j < step => j < step'
          BY <1>t, <2>4
        <4>2. QED  BY Zenon, <1>c, <2>1, <2>6, <4>1
      <3>2. ParentsAreOwn'
        BY Zenon, <1>c, <2>1, <2>6 DEF ParentsAreOwn
      <3>3. QED  BY Zenon, <2>2, <2>5, <3>1, <3>2 DEF Chained
    <2>7. CASE resources' # resources
      <3> DEFINE new == [kind |-> Makes[a], id |-> sequence + 1, parent |-> parent]
      <3>1. a \in DOMAIN Makes /\ plan # "malformed_payload_probe"
            /\ resources' = resources \cup {new}
        BY Zenon, <1>2, <2>7 DEF Created
      <3>2. /\ plan = "normal" /\ step \in 4..8 /\ step \in 1..9 /\ a = Normal[step]
            /\ a = Action
        BY Zenon, <1>0, <1>2, <3>1, CreationFacts
      <3>3. new.kind = Makes[Normal[step]] /\ new.parent = parent
        BY Zenon, <3>2
      <3> HIDE DEF new
      <3>4. \A r \in resources' :
               plan' = "normal" /\ \E j \in 4..8 : j < step' /\ r.kind = Makes[Normal[j]]
        <4>1. \A j \in 4..8 : j < step => j < step'
          BY <1>t, <2>4
        <4>2. step < step'
          BY <1>t, <2>4
        <4>3. QED  BY Zenon, <1>c, <2>1, <3>1, <3>2, <3>3, <4>1, <4>2
      <3>5. \A r \in resources : r.kind # new.kind
        <4> SUFFICES ASSUME NEW r \in resources, r.kind = new.kind
                     PROVE  FALSE
          BY Zenon
        <4>1. PICK j \in 4..8 : j < step /\ r.kind = Makes[Normal[j]]
          BY Zenon, <1>c
        <4>2. step = j
          <5>1. Makes[Normal[step]] = Makes[Normal[j]]
            BY Zenon, <3>3, <4>1
          <5>2. QED  BY Zenon, <3>2, <4>1, <5>1, ChainFacts
        <4>3. QED  BY <1>t, <4>1, <4>2
      <3>6. \A b \in DOMAIN Under : Makes[b] = new.kind =>
               \E p \in resources' : p.kind = Under[b] /\ p.id = new.parent
        <4> SUFFICES ASSUME NEW b \in DOMAIN Under, Makes[b] = new.kind
                     PROVE  \E p \in resources' : p.kind = Under[b] /\ p.id = new.parent
          BY Zenon
        <4>1. b = Normal[step]
          BY Zenon, <3>1, <3>2, <3>3, MakesInjective
        <4>2. step \in 5..7 /\ Under[b] = Makes[Normal[step - 1]]
          BY Zenon, <3>2, <4>1, ChainFacts
        <4>3. QED  BY Zenon, <1>c, <3>1, <3>2, <3>3, <4>2
      <3>7. ASSUME NEW r \in resources'
            PROVE  /\ plan' = "normal"
                   /\ \A q \in resources' : q.kind = r.kind => q = r
                   /\ \A b \in DOMAIN Under : Makes[b] = r.kind =>
                         \E p \in resources' : p.kind = Under[b] /\ p.id = r.parent
        <4>1. CASE r = new
          BY Zenon, <2>1, <3>1, <3>2, <3>5, <3>6, <4>1
        <4>2. CASE r \in resources
          BY Zenon, <1>c, <2>1, <2>3, <3>1, <3>2, <3>5, <4>2
        <4>3. QED  BY Zenon, <3>1, <3>7, <4>1, <4>2
      <3>8. ParentsAreOwn'
        BY Zenon, <3>7 DEF ParentsAreOwn
      <3>9. QED  BY Zenon, <2>2, <2>5, <3>4, <3>8 DEF Chained
    <2>8. QED  BY Zenon, <2>6, <2>7
  <1>4. CASE Turned
    BY Zenon, <1>0, <1>1, <1>4, TurnedFacts
  <1>5. CASE Renewed
    <2>1. PICK status \in Statuses :
             plan' = plan /\ step' = step /\ parent' = parent /\ Created("refresh", status)
      BY Zenon, <1>0, <1>5, RenewedFacts
    <2>2. QED  BY Zenon, <1>1, <2>1, MakesInjective
  <1>6. CASE Recorded
    <2>1. PICK status \in Statuses :
             Observe(status, sequence') /\ sequence' = sequence + 1 /\ Created(Action, status)
      BY Zenon, <1>0, <1>6, RecordedFacts
    <2>2. sequence' \in Nat
      BY <1>t, <2>1
    <2>3. QED  BY Zenon, <1>2, <2>1, <2>2
  <1>7. CASE GivenUp
    <2>1. PICK status \in Statuses : Observe(401, sequence) /\ Created("refresh", status)
      BY Zenon, <1>0, <1>7, GivenUpFacts
    <2>2. 401 \in Statuses
      BY DEF Statuses
    <2>3. QED  BY SMT, <1>2, <1>t, <2>1, <2>2, MakesInjective
  <1>8. QED  BY Zenon, <1>0, <1>4, <1>5, <1>6, <1>7

-----------------------------------------------------------------------------
(* What a refusal costs *)

LEMMA RefusedFacts ==
    ASSUME TypeOK
    PROVE  /\ IsFiniteSet(Refused) /\ Cardinality(Refused) \in Nat
           /\ Len(observations) + 1 \notin Refused
           /\ Cardinality(Refused \cup {Len(observations) + 1}) = Cardinality(Refused) + 1
  <1>1. observations \in Seq(Observation)
    BY DEF TypeOK
  <1>2. Len(observations) \in Nat /\ DOMAIN observations = 1..Len(observations)
    BY <1>1
  <1>3. Refused \subseteq 1..Len(observations)
    <2>1. Refused \subseteq DOMAIN observations
      BY SMT DEF Refused
    <2>2. QED  BY Zenon, <1>2, <2>1
  <1>4. IsFiniteSet(1..Len(observations))
    BY <1>2, FS_Interval
  <1>5. IsFiniteSet(Refused)
    BY Zenon, <1>3, <1>4, FS_Subset
  <1>6. Len(observations) + 1 \notin 1..Len(observations)
    BY <1>2
  <1>7. Len(observations) + 1 \notin Refused
    BY Zenon, <1>3, <1>6
  <1>8. QED  BY Zenon, <1>5, <1>7, FS_CardinalityType, FS_AddElement

(* An observation of another kind refuses nothing. *)
LEMMA RefusedGrows ==
    ASSUME TypeOK, InPlay, step \in 1..Span(plan), Action \in Verbs,
           last' \in [kind : Kinds \cup {"none", "other"}, id : Nat],
           NEW status \in Statuses, NEW seq \in Nat, Observe(status, seq)
    PROVE  /\ status = 401 /\ Action # "login" => Refused' = Refused \cup {Len(observations) + 1}
           /\ ~(status = 401 /\ Action # "login") => Refused' = Refused
  <1>1. /\ observations' \in Seq(Observation)
        /\ Len(observations') = Len(observations) + 1
        /\ \A k \in 1..Len(observations) : observations'[k] = observations[k]
        /\ observations'[Len(observations) + 1].action = Action
        /\ observations'[Len(observations) + 1].status = status
    BY Zenon, ObserveFacts
  <1>2. observations \in Seq(Observation)
    BY DEF TypeOK
  <1>3. /\ DOMAIN observations = 1..Len(observations) /\ Len(observations) \in Nat
        /\ DOMAIN observations' = 1..(Len(observations) + 1)
    BY <1>1, <1>2
  <1>4. \A k : k \in 1..(Len(observations) + 1) <=> k \in 1..Len(observations) \/ k = Len(observations) + 1
    BY <1>3
  <1>5. Len(observations) + 1 \notin 1..Len(observations)
    BY <1>3
  <1> DEFINE N == Len(observations)
             Hit(k) == observations[k].status = 401 /\ observations[k].action # "login"
             HitNow(k) == observations'[k].status = 401 /\ observations'[k].action # "login"
  <1>e. DOMAIN observations = 1..N /\ DOMAIN observations' = 1..(N + 1)
    BY Zenon, <1>3
  <1>h. /\ HitNow(N + 1) <=> status = 401 /\ Action # "login"
        /\ \A k \in 1..N : HitNow(k) <=> Hit(k)
    BY Zenon, <1>1
  <1>6. \A k : k \in Refused' <=> k \in DOMAIN observations' /\ HitNow(k)
    BY SMT DEF Refused
  <1>7. \A k : k \in Refused <=> k \in DOMAIN observations /\ Hit(k)
    BY SMT DEF Refused
  <1> HIDE DEF N, Hit, HitNow
  <1>8. \A k : k \in Refused' <=> \/ k \in Refused
                                  \/ k = N + 1 /\ status = 401 /\ Action # "login"
    <2> TAKE k
    <2>0. N + 1 \in 1..(N + 1) /\ N + 1 \notin 1..N
      BY <1>3 DEF N
    <2>1. k \in Refused' <=> k \in 1..(N + 1) /\ HitNow(k)
      BY Zenon, <1>6, <1>e
    <2>2. k \in Refused <=> k \in 1..N /\ Hit(k)
      BY Zenon, <1>7, <1>e
    <2>3. CASE k = N + 1
      BY Zenon, <2>1, <2>2, <1>h, <2>0, <2>3
    <2>4. CASE k # N + 1
      <3>1. k \in 1..(N + 1) <=> k \in 1..N
        BY Zenon, <1>4, <2>4 DEF N
      <3>2. QED  BY Zenon, <2>1, <2>2, <1>h, <2>4, <3>1
    <2>5. QED  BY Zenon, <2>3, <2>4
  <1>9. CASE status = 401 /\ Action # "login"
    <2>1. \A k : k \in Refused' <=> k \in Refused \cup {N + 1}
      BY Zenon, <1>8, <1>9
    <2>2. Refused' = Refused \cup {N + 1}
      BY Zenon, <2>1
    <2>3. QED  BY Zenon, <1>9, <2>2 DEF N
  <1>10. CASE ~(status = 401 /\ Action # "login")
    <2>1. \A k : k \in Refused' <=> k \in Refused
      BY Zenon, <1>8, <1>10
    <2>2. Refused' = Refused
      BY Zenon, <2>1
    <2>3. QED  BY Zenon, <1>10, <2>2
  <1>11. QED  BY Zenon, <1>9, <1>10

(* Who is entitled after a step was so before, or has just registered. *)
LEMMA EntitledBefore ==
    ASSUME TypeOK, lockedOut => lockedOut', Entitled',
           \/ observations' = observations
           \/ /\ observations # <<>>
              /\ \A k \in 1..Len(observations) : observations'[k] = observations[k]
    PROVE  Entitled
  <1>1. observations \in Seq(Observation)
    BY DEF TypeOK
  <1>2. observations # <<>> => 1 \in 1..Len(observations)
    BY SMT, <1>1
  <1>3. CASE observations' = observations
    BY Zenon, <1>3 DEF Entitled
  <1>4. CASE /\ observations # <<>>
             /\ \A k \in 1..Len(observations) : observations'[k] = observations[k]
    <2>1. observations'[1] = observations[1]
      BY Zenon, <1>2, <1>4
    <2>2. QED  BY Zenon, <1>4, <2>1 DEF Entitled
  <1>5. QED  BY Zenon, <1>3, <1>4

(* Faults are only added. *)
LEMMA StillCovered ==
    ASSUME NEW n \in Nat, NEW f \in Nat, NEW e \in Nat, n <= f + e, NEW g \in Nat, g >= f
    PROVE  n <= g + e
  OBVIOUS

LEMMA WorkAfforded ==
    ASSUME TypeOK, InPlay, Afforded, Work
    PROVE  Afforded'
  <1>0. /\ step \in 1..Span(plan) /\ step \in Steps /\ Action \in Verbs
        /\ Turned \/ Renewed \/ Recorded \/ GivenUp
    BY Zenon, WorkCases
  <1>t. /\ faults \in Nat /\ expiries \in Nat /\ sequence \in Nat
        /\ phase \in {"first", "refresh", "retry"} /\ plan \in Plans
    <2>1. MaxFaults \in Nat /\ MaxExpiries \in Nat
      BY Assumption
    <2>2. QED  BY <2>1 DEF TypeOK
  <1>d. PICK d \in Nat : d = Cardinality(Refused)
    BY Zenon, RefusedFacts
  <1>a. Entitled =>
           /\ cookie = "valid" /\ token \in {"valid", "expired"}
           /\ phase = "refresh" => token = "expired"
           /\ d + (IF token = "expired" THEN 1 ELSE 0) + (IF phase = "retry" THEN 1 ELSE 0)
                  <= faults + expiries
           /\ Refused # {} => d + 1 <= faults + expiries
    BY Zenon, <1>d DEF Afforded, Debt
  <1>k. ASSUME NEW a, NEW status, Charged(a, status)
        PROVE  /\ faults' \in Nat /\ faults' >= faults
               /\ status = 401 => Answer(a) = 401
    BY SMT, <1>t, <1>k DEF Charged
  <1>1. CASE Turned
    <2> SUFFICES ASSUME Entitled'
                 PROVE  /\ cookie' = "valid" /\ token' \in {"valid", "expired"}
                        /\ phase' = "refresh" => token' = "expired"
                        /\ Debt' <= faults' + expiries'
                        /\ Refused' # {} => Cardinality(Refused') + 1 <= faults' + expiries'
      BY Zenon DEF Afforded
    <2>1. /\ Action \notin AuthActions /\ phase = "first" /\ phase' = "refresh"
          /\ observations' = observations /\ expiries' = expiries
          /\ Charged(Action, 401)
      BY Zenon, <1>0, <1>1, TurnedFacts
    <2>2. Entitled
      <3>1. lockedOut => lockedOut'
        BY Zenon, <2>1 DEF Charged
      <3>2. QED  BY Zenon, <2>1, <3>1, EntitledBefore
    <2>3. token' = token /\ cookie' = cookie
      <3>1. Action \notin {"register", "refresh"} /\ ~lockedOut'
        BY <2>1 DEF AuthActions, Entitled
      <3>2. QED  BY Zenon, <2>1, <3>1 DEF Charged
    <2>4. token = "expired"
      <3>1. token # "valid"
        BY SMT, <1>k, <2>1, AnswerFacts
      <3>2. QED  BY Zenon, <1>a, <2>2, <3>1
    <2>5. Refused' = Refused
      BY Zenon, <2>1 DEF Refused
    <2>6. Debt' = d + 1 + 0 /\ Cardinality(Refused') = d
      <3>1. phase' # "retry"
        BY <2>1
      <3>2. QED  BY Zenon, <1>d, <2>3, <2>4, <2>5, <3>1 DEF Debt
    <2>7. d + 1 <= faults' + expiries'
      <3>1. d + 1 + 0 <= faults + expiries
        BY <1>a, <2>1, <2>2, <2>4
      <3>2. faults' \in Nat /\ faults' >= faults
        BY Zenon, <1>k, <2>1
      <3>3. d + 1 \in Nat /\ d + 1 <= faults + expiries
        BY <1>t, <3>1
      <3>4. QED  BY Zenon, <1>t, <2>1, <3>2, <3>3, StillCovered
    <2>8. Debt' <= faults' + expiries' /\ Cardinality(Refused') + 1 <= faults' + expiries'
      BY <2>6, <2>7
    <2>9. QED  BY Zenon, <1>a, <2>2, <2>3, <2>4, <2>8
  <1>2. CASE Renewed
    <2> SUFFICES ASSUME Entitled'
                 PROVE  /\ cookie' = "valid" /\ token' \in {"valid", "expired"}
                        /\ phase' = "refresh" => token' = "expired"
                        /\ Debt' <= faults' + expiries'
                        /\ Refused' # {} => Cardinality(Refused') + 1 <= faults' + expiries'
      BY Zenon DEF Afforded
    <2>1. PICK status \in Statuses :
             /\ Success(status) /\ phase = "refresh" /\ phase' = "retry"
             /\ observations' = observations /\ expiries' = expiries
             /\ Charged("refresh", status)
      BY Zenon, <1>0, <1>2, RenewedFacts
    <2>2. Entitled
      <3>1. lockedOut => lockedOut'
        BY Zenon, <2>1 DEF Charged
      <3>2. QED  BY Zenon, <2>1, <3>1, EntitledBefore
    <2>3. token' = "valid" /\ cookie' = "valid"
      BY Zenon, <2>1 DEF Charged
    <2>5. Refused' = Refused
      BY Zenon, <2>1 DEF Refused
    <2>6. Debt' = d + 0 + 1 /\ Cardinality(Refused') = d
      <3>1. token' # "expired"
        BY <2>3
      <3>2. QED  BY Zenon, <1>d, <2>1, <2>5, <3>1 DEF Debt
    <2>7. d + 1 <= faults' + expiries'
      <3>1. d + 1 + 0 <= faults + expiries
        BY <1>a, <2>1, <2>2
      <3>2. faults' \in Nat /\ faults' >= faults
        BY Zenon, <1>k, <2>1
      <3>3. d + 1 \in Nat /\ d + 1 <= faults + expiries
        BY <1>t, <3>1
      <3>4. QED  BY Zenon, <1>t, <2>1, <3>2, <3>3, StillCovered
    <2>8. Debt' <= faults' + expiries' /\ Cardinality(Refused') + 1 <= faults' + expiries'
      BY <2>6, <2>7
    <2>9. phase' # "refresh"
      BY <2>1
    <2>10. QED  BY Zenon, <2>3, <2>8, <2>9
  <1>3. CASE Recorded
    <2> SUFFICES ASSUME Entitled'
                 PROVE  /\ cookie' = "valid" /\ token' \in {"valid", "expired"}
                        /\ phase' = "refresh" => token' = "expired"
                        /\ Debt' <= faults' + expiries'
                        /\ Refused' # {} => Cardinality(Refused') + 1 <= faults' + expiries'
      BY Zenon DEF Afforded
    <2>1. PICK status \in Statuses :
             /\ phase # "refresh"
             /\ phase = "first" /\ status = 401 => Action \in AuthActions
             /\ Observe(status, sequence') /\ sequence' = sequence + 1
             /\ Created(Action, status) /\ Charged(Action, status)
      BY Zenon, <1>0, <1>3, RecordedFacts
    <2>2. sequence' \in Nat /\ last' \in [kind : Kinds \cup {"none", "other"}, id : Nat]
      <3>1. sequence' \in Nat
        BY <1>t, <2>1
      <3>2. QED  BY Zenon, <2>1, <3>1 DEF Created
    <2>3. /\ \A k \in 1..Len(observations) : observations'[k] = observations[k]
          /\ observations'[Len(observations) + 1].status = status
          /\ phase' = "first" /\ expiries' = expiries
      BY Zenon, <1>0, <2>1, <2>2, ObserveFacts
    <2>4. /\ status = 401 /\ Action # "login" => Refused' = Refused \cup {Len(observations) + 1}
          /\ ~(status = 401 /\ Action # "login") => Refused' = Refused
      BY Zenon, <1>0, <2>1, <2>2, RefusedGrows
    <2>5. phase' # "retry" /\ phase' # "refresh" /\ Action # "refresh"
      BY <1>0, <2>3, VerbsAreNotRefresh
    <2>6. /\ Success(status) /\ Action = "register" => token' = "valid" /\ cookie' = "valid"
          /\ ~(Success(status) /\ Action = "register") => token' = token /\ cookie' = cookie
      <3>1. ~lockedOut'
        BY Zenon DEF Entitled
      <3>2. Action \in {"register", "refresh"} <=> Action = "register"
        BY <2>5
      <3>3. QED  BY Zenon, <2>1, <3>1, <3>2 DEF Charged
    <2>f. faults' \in Nat /\ faults' >= faults
      BY Zenon, <1>k, <2>1
    <2>7. CASE observations = <<>>
      <3>1. step = 1
        BY Zenon, <2>7 DEF InPlay
      <3>2. Action = "register"
        BY Zenon, <1>t, <3>1, PlanFacts DEF Action
      <3>3. Len(observations) + 1 = 1
        BY SMT, <2>7, EmptySeq
      <3>4. Success(status)
        BY Zenon, <2>3, <3>3 DEF Entitled
      <3>5. token' = "valid" /\ cookie' = "valid" /\ status # 401
        <4>1. status # 401
          BY <3>4 DEF Success
        <4>2. QED  BY Zenon, <2>6, <3>2, <3>4, <4>1
      <3>6. Refused = {} /\ Refused' = {}
        <4>1. Refused = {}
          <5>1. DOMAIN observations = {}
            BY SMT, <2>7, EmptySeq
          <5>2. QED  BY Zenon, <5>1 DEF Refused
        <4>2. QED  BY Zenon, <2>4, <3>5, <4>1
      <3>7. Cardinality(Refused') = 0
        BY Zenon, <3>6, FS_EmptySet
      <3>8. Debt' = 0 + 0 + 0
        <4>1. token' # "expired"
          BY <3>5
        <4>2. QED  BY Zenon, <2>5, <3>7, <4>1 DEF Debt
      <3>9. Debt' <= faults' + expiries'
        <4>1. 0 \in Nat /\ 0 <= faults + expiries
          BY <1>t
        <4>2. Debt' = 0
          BY <3>8
        <4>3. QED  BY Zenon, <1>t, <2>3, <2>f, <4>1, <4>2, StillCovered
      <3>10. QED  BY Zenon, <2>5, <3>5, <3>6, <3>9
    <2>8. CASE observations # <<>>
      <3>1. Entitled
        <4>1. lockedOut => lockedOut'
          BY Zenon, <2>1 DEF Charged
        <4>2. QED  BY Zenon, <2>3, <2>8, <4>1, EntitledBefore
      <3>2. cookie' = "valid" /\ token' \in {"valid", "expired"}
            /\ (token' = "expired" => token = "expired")
        <4>1. CASE Success(status) /\ Action = "register"
          BY <2>6, <4>1
        <4>2. CASE ~(Success(status) /\ Action = "register")
          BY Zenon, <1>a, <2>6, <3>1, <4>2
        <4>3. QED  BY Zenon, <4>1, <4>2
      <3>3. CASE status = 401 /\ Action # "login"
        <4>1. Action # "register" /\ Answer(Action) = 401
          BY SMT, <1>k, <2>1, <3>3, AnswerFacts
        <4>2. Action \notin AuthActions
          BY <2>5, <3>3, <4>1 DEF AuthActions
        <4>3. phase = "retry"
          BY Zenon, <1>t, <2>1, <3>3, <4>2
        <4>4. token # "valid"
          BY SMT, <4>1, <4>2, AnswerFacts
        <4>5. token = "expired" /\ token' = "expired"
          BY Zenon, <1>a, <2>6, <3>1, <4>1, <4>4
        <4>6. d + 1 + 1 <= faults + expiries
          BY <1>a, <3>1, <4>3, <4>5
        <4>7. Cardinality(Refused') = d + 1
          BY Zenon, <1>d, <2>4, <3>3, RefusedFacts
        <4>8. Debt' = (d + 1) + 1 + 0
          BY Zenon, <2>5, <4>5, <4>7 DEF Debt
        <4>9. Debt' <= faults' + expiries' /\ Cardinality(Refused') + 1 <= faults' + expiries'
          <5>1. d + 1 + 1 \in Nat /\ (d + 1) + 1 + 0 = d + 1 + 1
            OBVIOUS
          <5>2. QED  BY Zenon, <1>t, <2>3, <2>f, <4>6, <4>7, <4>8, <5>1, StillCovered
        <4>10. QED  BY Zenon, <2>5, <3>2, <4>9
      <3>4. CASE ~(status = 401 /\ Action # "login")
        <4>1. Refused' = Refused /\ Cardinality(Refused') = d
          BY Zenon, <1>d, <2>4, <3>4
        <4>2. Debt' = d + (IF token' = "expired" THEN 1 ELSE 0) + 0
          BY Zenon, <2>5, <4>1 DEF Debt
        <4>3. /\ d + (IF token = "expired" THEN 1 ELSE 0) + (IF phase = "retry" THEN 1 ELSE 0)
                  <= faults + expiries
              /\ Refused # {} => d + 1 <= faults + expiries
          BY Zenon, <1>a, <3>1
        <4>4. Debt' <= faults' + expiries'
          <5> DEFINE own == IF token' = "expired" THEN 1 ELSE 0
          <5>1. own \in Nat /\ (d + own) + 0 = d + own /\ d + own \in Nat
            OBVIOUS
          <5>2. d + own <= faults + expiries
            <6>1. CASE token' = "expired"
              <7>1. own = 1 /\ token = "expired"
                BY <3>2, <6>1
              <7> HIDE DEF own
              <7>2. QED  BY <1>t, <4>3, <7>1
            <6>2. CASE token' # "expired"
              <7>1. own = 0
                BY <6>2
              <7> HIDE DEF own
              <7>2. QED  BY <1>t, <4>3, <7>1
            <6>3. QED  BY Zenon, <6>1, <6>2
          <5>3. Debt' = (d + own) + 0
            BY Zenon, <4>2
          <5> HIDE DEF own
          <5>4. QED  BY Zenon, <1>t, <2>3, <2>f, <5>1, <5>2, <5>3, StillCovered
        <4>5. Refused # {} => d + 1 <= faults' + expiries'
          <5>1. d + 1 \in Nat
            OBVIOUS
          <5>2. QED  BY Zenon, <1>t, <2>3, <2>f, <4>3, <5>1, StillCovered
        <4>6. QED  BY Zenon, <2>5, <3>2, <4>1, <4>4, <4>5
      <3>5. QED  BY Zenon, <3>3, <3>4
    <2>9. QED  BY Zenon, <2>7, <2>8
  <1>4. CASE GivenUp
    <2> SUFFICES ASSUME Entitled'
                 PROVE  /\ cookie' = "valid" /\ token' \in {"valid", "expired"}
                        /\ phase' = "refresh" => token' = "expired"
                        /\ Debt' <= faults' + expiries'
                        /\ Refused' # {} => Cardinality(Refused') + 1 <= faults' + expiries'
      BY Zenon DEF Afforded
    <2>1. PICK status \in Statuses :
             /\ ~Success(status) /\ phase = "refresh"
             /\ Observe(401, sequence) /\ sequence' = sequence + 1
             /\ Created("refresh", status) /\ Charged("refresh", status)
      BY Zenon, <1>0, <1>4, GivenUpFacts
    <2>2. 401 \in Statuses /\ last' \in [kind : Kinds \cup {"none", "other"}, id : Nat]
      <3>1. 401 \in Statuses
        BY DEF Statuses
      <3>2. QED  BY Zenon, <2>1, <3>1 DEF Created
    <2>3. /\ \A k \in 1..Len(observations) : observations'[k] = observations[k]
          /\ phase' = "first" /\ expiries' = expiries
      BY SMT, <1>0, <1>t, <2>1, <2>2, ObserveFacts
    <2>4. Action \notin AuthActions
      BY <2>1 DEF InPlay
    <2>5. Refused' = Refused \cup {Len(observations) + 1}
      <3>1. Action # "login"
        BY <2>4 DEF AuthActions
      <3>2. QED  BY SMT, <1>0, <1>t, <2>1, <2>2, <3>1, RefusedGrows
    <2>6. observations # <<>>
      <3>1. Actions(plan)[1] = "register"
        BY Zenon, <1>t, PlanFacts
      <3>2. step # 1
        BY <2>4, <3>1 DEF Action, AuthActions
      <3>3. QED  BY Zenon, <3>2 DEF InPlay
    <2>7. Entitled
      <3>1. lockedOut => lockedOut'
        BY Zenon, <2>1 DEF Charged
      <3>2. QED  BY Zenon, <2>3, <2>6, <3>1, EntitledBefore
    <2>8. cookie = "valid" /\ token = "expired" /\ d + 1 + 0 <= faults + expiries
      BY <1>a, <2>1, <2>7
    <2>9. token' = "expired" /\ cookie' = "valid"
      <3>1. ~lockedOut'
        BY Zenon DEF Entitled
      <3>2. QED  BY Zenon, <2>1, <2>8, <3>1 DEF Charged
    <2>10. faults' = faults + 1
      <3>1. Answer("refresh") = 200
        BY SMT, <2>8, AnswerFacts
      <3>2. status # 200
        BY <2>1 DEF Success
      <3>3. QED  BY Zenon, <2>1, <3>1, <3>2 DEF Charged
    <2>11. Cardinality(Refused') = d + 1
      BY Zenon, <1>d, <2>5, RefusedFacts
    <2>12. phase' # "retry" /\ phase' # "refresh"
      BY <2>3
    <2>13. Debt' = (d + 1) + 1 + 0
      BY Zenon, <2>9, <2>11, <2>12 DEF Debt
    <2>14. Debt' <= faults' + expiries' /\ Cardinality(Refused') + 1 <= faults' + expiries'
      BY <1>t, <2>3, <2>8, <2>10, <2>11, <2>13
    <2>15. QED  BY Zenon, <2>9, <2>12, <2>14
  <1>5. QED  BY Zenon, <1>0, <1>1, <1>2, <1>3, <1>4

-----------------------------------------------------------------------------
(* Between sessions *)

(* The policy stays within the allow-list, whichever scenario was caught. *)
LEMMA NextIsAllowed ==
    ASSUME NEW s \in DOMAIN AllowList, NEW escalated \in BOOLEAN
    PROVE  \E i \in DOMAIN AllowList : AllowList[i] = NextScenario(AllowList, AllowList[s], escalated)
  <1>0. AllowList \in Seq(Scenarios) /\ \A i, j \in DOMAIN AllowList : AllowList[i] = AllowList[j] => i = j
    BY Zenon, Assumption
  <1> DEFINE n == Len(AllowList)
             k == IndexIn(AllowList, AllowList[s])
  <1>1. DOMAIN AllowList = 1..n /\ n \in Nat
    BY <1>0
  <1>2. /\ AllowList[s] = AllowList[s]
        /\ \A j \in 1..(s - 1) : AllowList[j] # AllowList[s]
    <2>1. ASSUME NEW j \in 1..(s - 1)
          PROVE  AllowList[j] # AllowList[s]
      <3>1. j \in DOMAIN AllowList /\ j # s
        BY <1>1
      <3>2. QED  BY Zenon, <1>0, <3>1
    <2>2. QED  BY <2>1
  <1>3. \E i \in DOMAIN AllowList : /\ AllowList[i] = AllowList[s]
                                    /\ \A j \in 1..(i - 1) : AllowList[j] # AllowList[s]
    BY Zenon, <1>2
  <1>4. k \in DOMAIN AllowList
    BY Zenon, <1>3 DEF IndexIn
  <1> HIDE DEF k, n
  <1>5. k \in 1..n /\ n >= 1 /\ n \in Nat
    BY <1>1, <1>4
  <1>6. (k % n) + 1 \in 1..n
    BY SMT, <1>5
  <1>7. NextScenario(AllowList, AllowList[s], escalated) \in {AllowList[(k % n) + 1], AllowList[s]}
    BY Zenon DEF NextScenario, k, n
  <1>8. (k % n) + 1 \in DOMAIN AllowList
    BY Zenon, <1>1, <1>6
  <1>9. QED  BY Zenon, <1>7, <1>8

LEMMA AllowedAreScenarios ==
    \A i \in DOMAIN AllowList : AllowList[i] \in Scenarios /\ AllowList[i] \in Plans
  <1>1. AllowList \in Seq(Scenarios)
    BY Zenon, Assumption
  <1>2. \A i \in DOMAIN AllowList : AllowList[i] \in Scenarios
    BY SMT, <1>1
  <1>3. QED  BY Zenon, <1>2 DEF Plans

Given == plan = "normal" \/ \E i \in DOMAIN AllowList : AllowList[i] = plan

(* A session begins with nothing to explain. *)
LEMMA FreshSession ==
    Fresh /\ Given /\ past \in Seq([plan : Plans, escalated : BOOLEAN]) => SessionInv
  <1> SUFFICES ASSUME Fresh, Given, past \in Seq([plan : Plans, escalated : BOOLEAN])
               PROVE  SessionInv
    OBVIOUS
  <1>0. plan \in Plans /\ Span(plan) \in 6..9
    <2>1. plan \in Plans
      BY Zenon, AllowedAreScenarios DEF Given, Plans
    <2>2. QED  BY <2>1, PlanFacts
  <1>f. /\ step = 1 /\ phase = "first" /\ parent = 0 /\ token = "none" /\ cookie = "none"
        /\ last = NoResponse /\ sequence = 0 /\ observations = <<>>
        /\ effects = [i \in Steps |-> 0] /\ resources = {}
        /\ faults = 0 /\ expiries = 0 /\ lockedOut = FALSE
    BY DEF Fresh
  <1>n. MaxFaults \in Nat /\ MaxExpiries \in Nat
    BY Assumption
  <1>l. last.kind = "none" /\ last.id = 0 /\ last \in [kind : Kinds \cup {"none", "other"}, id : Nat]
    BY <1>f DEF NoResponse
  <1>e. observations \in Seq(Observation) /\ Len(observations) = 0 /\ DOMAIN observations = {}
    BY SMT, <1>f, EmptySeq
  <1>1. TypeOK
    <2>1. faults \in 0..MaxFaults /\ expiries \in 0..MaxExpiries /\ step \in 1..10
          /\ parent \in Nat /\ sequence \in Nat
      BY <1>f, <1>n
    <2>2. effects \in [Steps -> Nat]
      BY <1>f
    <2>3. lockedOut \in BOOLEAN /\ resources \subseteq Resource
      BY Zenon, <1>f
    <2>4. phase \in {"first", "refresh", "retry"} /\ token \in {"none", "valid", "expired"}
          /\ cookie \in {"none", "valid", "revoked"}
      BY <1>f
    <2>5. QED  BY Zenon, <1>0, <1>e, <1>l, <2>1, <2>2, <2>3, <2>4 DEF TypeOK
  <1>2. InPlay
    <2>1. step \in 1..(Span(plan) + 1) /\ Len(observations) < step
      BY <1>0, <1>e, <1>f
    <2>2. QED  BY Zenon, <1>f, <2>1 DEF InPlay, Given
  <1>3. OneByOne
    <2>1. \A i \in Steps : effects[i] = 0
      BY <1>f
    <2>2. QED  BY Zenon, <1>e, <2>1 DEF OneByOne, ObservationTellsEffect
  <1>4. Chained
    <2>1. ~(step \in 5..7) /\ last.kind \notin Kinds
      <3>1. ~(step \in 5..7)
        BY <1>f
      <3>2. QED  BY Zenon, <1>l, <3>1, KindsFacts
    <2>2. QED  BY Zenon, <1>f, <2>1 DEF Chained, ParentsAreOwn
  <1>5. Paced
    <2>1. LastSeq = 0 /\ Spent = 0
      BY Zenon, <1>f DEF LastSeq, Spent
    <2>2. QED  BY <1>e, <1>f, <2>1 DEF Paced
  <1>6. Afforded
    BY Zenon, <1>f DEF Afforded, Entitled
  <1>7. QED  BY <1>1, <1>2, <1>3, <1>4, <1>5, <1>6 DEF SessionInv

LEMMA FreshSessionNext ==
    (Fresh /\ Given /\ past \in Seq([plan : Plans, escalated : BOOLEAN]))' => SessionInv'
  BY FreshSession, PTL

LEMMA NextSessionStarts ==
    ASSUME SessionInv, NEW escalated \in BOOLEAN, NextSession(escalated)
    PROVE  SessionInv'
  <1>0. plan \in Plans /\ past \in Seq([plan : Plans, escalated : BOOLEAN])
    BY DEF SessionInv, TypeOK
  <1>1. Given
    BY Zenon DEF SessionInv, InPlay, Given
  <1>2. plan' = IF plan = "normal" THEN plan ELSE NextScenario(AllowList, plan, escalated)
    BY Zenon DEF NextSession
  <1>3. Given'
    <2>1. CASE plan = "normal"
      BY Zenon, <1>2, <2>1 DEF Given
    <2>2. CASE plan # "normal"
      <3>1. PICK s \in DOMAIN AllowList : AllowList[s] = plan
        BY Zenon, <1>1, <2>2 DEF Given
      <3>2. \E i \in DOMAIN AllowList : AllowList[i] = NextScenario(AllowList, plan, escalated)
        BY Zenon, <3>1, NextIsAllowed
      <3>3. QED  BY Zenon, <1>2, <2>2, <3>2 DEF Given
    <2>3. QED  BY Zenon, <2>1, <2>2
  <1>4. past' \in Seq([plan : Plans, escalated : BOOLEAN])
    <2> DEFINE Session == [plan : Plans, escalated : BOOLEAN]
               over == [plan |-> plan, escalated |-> escalated]
    <2>1. over \in Session
      BY <1>0
    <2>2. past' = Append(past, over) /\ past \in Seq(Session)
      BY Zenon, <1>0 DEF NextSession
    <2> HIDE DEF Session, over
    <2>3. past' \in Seq(Session)
      BY SMT, <2>1, <2>2
    <2>4. QED  BY Zenon, <2>3 DEF Session
  <1>5. Fresh'
    BY Zenon DEF NextSession, Fresh
  <1>6. QED  BY Zenon, <1>3, <1>4, <1>5, FreshSessionNext

LEMMA ExpiryIsPaid ==
    ASSUME SessionInv, Expire
    PROVE  SessionInv'
  <1>1. /\ token = "valid" /\ ~Over /\ expiries < MaxExpiries
        /\ expiries' = expiries + 1 /\ token' = "expired"
        /\ cookie' = cookie /\ last' = last /\ sequence' = sequence
        /\ effects' = effects /\ resources' = resources
        /\ plan' = plan /\ step' = step /\ phase' = phase /\ parent' = parent
        /\ observations' = observations
        /\ faults' = faults /\ lockedOut' = lockedOut /\ past' = past
    BY DEF Expire, application, agent
  <1>2. TypeOK'
    <2>1. expiries' \in 0..MaxExpiries
      BY <1>1, Assumption DEF SessionInv, TypeOK
    <2>2. token' \in {"none", "valid", "expired"}
      BY <1>1
    <2>3. TypeOK
      BY DEF SessionInv
    <2>4. QED  BY Zenon, <1>1, <2>1, <2>2, <2>3 DEF TypeOK
  <1>3. InPlay' /\ OneByOne' /\ Chained' /\ Paced'
    BY Zenon, <1>1 DEF SessionInv, InPlay, OneByOne, ObservationTellsEffect, Chained,
       ParentsAreOwn, Paced, Spent, LastSeq, Span, Action
  <1>4. Afforded'
    <2> SUFFICES ASSUME Entitled
                 PROVE  Afforded'
      BY Zenon, <1>1 DEF Afforded, Entitled
    <2>1. PICK d \in Nat : d = Cardinality(Refused)
      BY Zenon, RefusedFacts DEF SessionInv
    <2>2. Refused' = Refused /\ Cardinality(Refused') = d
      BY Zenon, <1>1, <2>1 DEF Refused
    <2> DEFINE waiting == IF phase = "retry" THEN 1 ELSE 0
    <2>3. d + 0 + waiting <= faults + expiries /\ cookie = "valid"
      <3>1. token # "expired"
        BY <1>1
      <3>2. QED  BY Zenon, <2>1, <3>1 DEF SessionInv, Afforded, Debt
    <2>4. Refused # {} => d + 1 <= faults + expiries
      BY Zenon, <2>1 DEF SessionInv, Afforded
    <2>5. Debt' = d + 1 + waiting
      BY Zenon, <1>1, <2>2 DEF Debt
    <2>6. faults \in Nat /\ expiries \in Nat /\ waiting \in Nat
      BY Assumption DEF SessionInv, TypeOK
    <2> HIDE DEF waiting
    <2>7. Debt' <= faults' + expiries' /\ d + 1 <= faults' + expiries'
      BY <1>1, <2>3, <2>5, <2>6
    <2>8. QED  BY Zenon, <1>1, <2>2, <2>3, <2>7 DEF Afforded
  <1>5. QED  BY <1>2, <1>3, <1>4 DEF SessionInv

LEMMA NothingHappens ==
    ASSUME SessionInv, UNCHANGED vars
    PROVE  SessionInv'
  <1>1. /\ token' = token /\ cookie' = cookie /\ last' = last /\ sequence' = sequence
        /\ effects' = effects /\ resources' = resources
        /\ plan' = plan /\ step' = step /\ phase' = phase /\ parent' = parent
        /\ observations' = observations
        /\ faults' = faults /\ expiries' = expiries /\ lockedOut' = lockedOut /\ past' = past
    BY DEF vars, client, application, agent
  <1>2. TypeOK' /\ InPlay' /\ OneByOne'
    BY Zenon, <1>1 DEF SessionInv, TypeOK, InPlay, OneByOne, ObservationTellsEffect, Span,
       Action
  <1>3. Chained' /\ Paced'
    BY Zenon, <1>1 DEF SessionInv, Chained, ParentsAreOwn, Paced, Spent, LastSeq
  <1>4. Afforded'
    BY Zenon, <1>1 DEF SessionInv, Afforded, Entitled, Debt, Refused
  <1>5. QED  BY <1>2, <1>3, <1>4 DEF SessionInv

LEMMA RefusalsCounted == SessionInv => UnauthorizedHasACause
  <1> SUFFICES ASSUME SessionInv, Refused # {}, ~lockedOut, Success(observations[1].status)
               PROVE  Cardinality(Refused) < faults + expiries
    BY Zenon DEF UnauthorizedHasACause, Refused
  <1>1. observations # <<>>
    <2>1. DOMAIN observations # {}
      BY Zenon DEF Refused
    <2>2. QED  BY SMT, <2>1, EmptySeq
  <1>2. Entitled
    BY Zenon, <1>1 DEF Entitled
  <1>3. Cardinality(Refused) + 1 <= faults + expiries
    BY Zenon, <1>2 DEF SessionInv, Afforded
  <1>4. PICK d \in Nat : d = Cardinality(Refused)
    BY Zenon, RefusedFacts DEF SessionInv
  <1>5. faults \in Nat /\ expiries \in Nat
    BY Assumption DEF SessionInv, TypeOK
  <1>6. d + 1 <= faults + expiries
    BY Zenon, <1>3, <1>4
  <1>7. d < faults + expiries
    BY <1>5, <1>6
  <1>8. QED  BY Zenon, <1>4, <1>7

-----------------------------------------------------------------------------
(* The theorems *)

(* An agent's session keeps its accounts: SessionInv holds from the first  *)
(* request of the first session to the last of the last.                   *)
THEOREM SessionInvariant == Spec => []SessionInv
  <1>1. Init => SessionInv
    <2> SUFFICES ASSUME Init
                 PROVE  SessionInv
      OBVIOUS
    <2>1. Fresh /\ past = <<>>
      BY DEF Init
    <2>2. Given
      <3>1. plan \in {"normal"} \cup {AllowList[i] : i \in DOMAIN AllowList}
        BY DEF Init
      <3>2. QED  BY Zenon, <3>1 DEF Given
    <2>3. past \in Seq([plan : Plans, escalated : BOOLEAN])
      BY SMT, <2>1, EmptySeq
    <2>4. QED  BY Zenon, <2>1, <2>2, <2>3, FreshSession
  <1>2. SessionInv /\ [Next]_vars => SessionInv'
    <2> SUFFICES ASSUME SessionInv, [Next]_vars
                 PROVE  SessionInv'
      OBVIOUS
    <2>1. CASE Work
      <3>1. TypeOK /\ InPlay /\ OneByOne /\ Chained /\ Paced /\ Afforded
        BY DEF SessionInv
      <3>2. QED  BY Zenon, <2>1, <3>1, WorkTypes, WorkOneByOne, WorkChained, WorkPaced,
                 WorkAfforded DEF SessionInv
    <2>2. CASE Expire
      BY Zenon, <2>2, ExpiryIsPaid
    <2>3. CASE \E escalated \in BOOLEAN : NextSession(escalated)
      BY Zenon, <2>3, NextSessionStarts
    <2>4. CASE UNCHANGED vars
      BY Zenon, <2>4, NothingHappens
    <2>5. QED  BY Zenon, <2>1, <2>2, <2>3, <2>4 DEF Next
  <1>3. QED  BY <1>1, <1>2, PTL DEF Spec

(* The variables of the session, the application and the agent keep their  *)
(* types.                                                                  *)
THEOREM TypeCorrect == Spec => []TypeOK
  <1>1. SessionInv => TypeOK
    BY DEF SessionInv
  <1>2. QED  BY <1>1, SessionInvariant, PTL

(* Whatever is lost, retried or expires, the status an action is recorded  *)
(* with says whether the application applied it, and never twice.          *)
THEOREM StatusIsTrue == Spec => []ObservationTellsEffect
  <1>1. SessionInv => ObservationTellsEffect
    BY DEF SessionInv, OneByOne
  <1>2. QED  BY <1>1, SessionInvariant, PTL

(* Whatever is lost, what the workflow creates hangs together: each thing  *)
(* under the session's own parent, and nothing twice.                      *)
THEOREM ChainHangsTogether == Spec => []ParentsAreOwn
  <1>1. SessionInv => ParentsAreOwn
    BY DEF SessionInv, Chained
  <1>2. QED  BY <1>1, SessionInvariant, PTL

(* In a registered session that is not locked out, every action that still *)
(* ends in 401 is paid for by a fault or an expiry of its own beyond the   *)
(* first: one expired token is healed by the refresh and the retry.        *)
THEOREM RefusalsArePaidFor == Spec => []UnauthorizedHasACause
  BY RefusalsCounted, SessionInvariant, PTL

(* No retry storm: an action costs at most three requests, sequence        *)
(* numbers rise, and a scenario issues at most its max_actions actions     *)
(* after the register, however many requests fail.                         *)
THEOREM TrafficIsBounded == Spec => []BoundedTraffic
  <1>1. SessionInv => BoundedTraffic
    <2> SUFFICES ASSUME SessionInv
                 PROVE  BoundedTraffic
      OBVIOUS
    <2>1. /\ plan \in Plans /\ observations \in Seq(Observation) /\ sequence \in Nat
      BY DEF SessionInv, TypeOK
    <2>2. \A k \in 2..Len(observations) : observations[k].seq - observations[k - 1].seq \in 1..4
      BY Zenon DEF SessionInv, Paced
    <2>3. sequence <= 3 * Len(observations) + 2
      <3>1. sequence <= 3 * Len(observations) + Spent
        BY Zenon DEF SessionInv, Paced
      <3>2. PICK n \in Nat : n = Len(observations)
        BY <2>1
      <3>3. Spent \in 0..2
        BY DEF Spent
      <3>4. sequence <= 3 * n + Spent
        BY Zenon, <3>1, <3>2
      <3>5. sequence <= 3 * n + 2
        BY <2>1, <3>3, <3>4
      <3>6. QED  BY Zenon, <3>2, <3>5
    <2>4. plan # "normal" => Len(observations) <= MaxActions[plan] + 1
      <3>1. plan # "normal" => Span(plan) = MaxActions[plan] + 1
        BY Zenon, <2>1, PlanFacts
      <3>2. Span(plan) \in 6..9
        BY <2>1, PlanFacts
      <3>3. Len(observations) < step /\ step \in 1..(Span(plan) + 1)
        BY Zenon DEF SessionInv, InPlay
      <3>4. Len(observations) <= Span(plan)
        BY <2>1, <3>2, <3>3
      <3>5. QED  BY Zenon, <3>1, <3>4
    <2>5. QED  BY Zenon, <2>2, <2>3, <2>4 DEF BoundedTraffic
  <1>2. QED  BY <1>1, SessionInvariant, PTL

-----------------------------------------------------------------------------
(* What is observed *)

(* What the application answers when nothing goes wrong. *)
Usual(p, a) ==
    CASE a = "register" -> 201
      [] a = "login" -> 401
      [] a \in DOMAIN Makes /\ p = "malformed_payload_probe" -> 400
      [] a \in DOMAIN Makes /\ p # "malformed_payload_probe" -> 201
      [] a = "get_application" -> 404
      [] OTHER -> 200

(* An observation is of the action its step names. *)
LabelledAs(p, o) == /\ o.action = Actions(p)[o.step]
                    /\ o.target = Target(p, o.step)
                    /\ o.valid = (o.status # 400)

Labelled == \A k \in DOMAIN observations : LabelledAs(plan, observations[k])

(* Its status is the usual one, unless a message was lost, the application *)
(* failed or a token was refused.                                          *)
Explained(p, status, action, disturbed) ==
    \/ status \in {0, 500} /\ disturbed
    \/ status = 401 /\ action # "register"
    \/ status = Usual(p, action)

Answered == /\ lockedOut => faults > 0
            /\ \A k \in DOMAIN observations :
                  Explained(plan, observations[k].status, observations[k].action,
                            faults > 0)

(* Every action of the plan was observed, in its order; only a workflow    *)
(* that something went wrong in may have skipped some.                     *)
Whole == /\ Len(observations) = step - 1
         /\ \A k \in DOMAIN observations : observations[k].step = k

Troubled ==
    \E k \in DOMAIN observations : observations[k].status \in {0, 401, 500}

Complete == /\ observations # <<>> => observations[1].step = 1
            /\ Whole \/ (plan = "normal" /\ Troubled)

Reported == Labelled /\ Answered /\ Complete

LEMMA UsualFacts ==
    ASSUME NEW p, NEW a
    PROVE  /\ a = "register" => Usual(p, a) = 201
           /\ a = "login" => Usual(p, a) = 401
           /\ a \in DOMAIN Makes /\ p # "malformed_payload_probe" => Usual(p, a) = 201
           /\ a \in DOMAIN Makes /\ p = "malformed_payload_probe" => Usual(p, a) = 400
           /\ a = "get_application" => Usual(p, a) = 404
           /\ /\ a \notin {"register", "login", "get_application"}
              /\ a \notin DOMAIN Makes
              => Usual(p, a) = 200
  BY SMT, MakesFacts DEF Usual

LEMMA AnswerIsUsual ==
    ASSUME NEW a \in Verbs
    PROVE  /\ Answer(a) \in {401, Usual(plan, a)}
           /\ a = "register" => Answer(a) = Usual(plan, a)
  <1>1. /\ "register" \notin DOMAIN Makes /\ "refresh" \notin DOMAIN Makes
        /\ "login" \notin DOMAIN Makes /\ "get_application" \notin DOMAIN Makes
    BY SMT, MakesFacts
  <1>2. a # "refresh"
    BY VerbsAreNotRefresh
  <1>3. CASE a \in AuthActions
    <2>1. a \in {"register", "login"}
      BY <1>2, <1>3 DEF AuthActions
    <2>2. QED  BY SMT, <1>1, <2>1 DEF Answer, Usual, AuthActions
  <1>4. CASE a \notin AuthActions /\ token # "valid"
    <2>1. a # "register"
      BY <1>4 DEF AuthActions
    <2>2. Answer(a) = 401
      BY SMT, <1>1, <1>4 DEF Answer, AuthActions
    <2>3. QED  BY Zenon, <2>1, <2>2
  <1>5. CASE a \notin AuthActions /\ token = "valid"
    BY SMT, <1>1, <1>5 DEF Answer, Usual, AuthActions
  <1>6. QED  BY Zenon, <1>3, <1>4, <1>5

(* What comes of a request, for the observation it ends in. *)
LEMMA RequestOutcome ==
    ASSUME TypeOK, NEW a, NEW status, Request(a, status)
    PROVE  /\ faults' \in Nat /\ faults' >= faults
           /\ status = Answer(a) \/ (status \in {0, 500} /\ faults' > 0)
           /\ lockedOut' => lockedOut \/ faults' > 0
           /\ Success(status) /\ a \in DOMAIN Makes => last'.kind = Makes[a]
  <1>t. faults \in Nat /\ lockedOut \in BOOLEAN
    BY Assumption DEF TypeOK
  <1>1. CASE status = Answer(a) /\ Apply(a) /\ Receive(a, status) /\ UNCHANGED <<faults, lockedOut>>
    <2>1. faults' = faults /\ (lockedOut' => lockedOut)
      <3>1. faults' = faults /\ lockedOut' = lockedOut
        BY <1>1
      <3>2. QED  BY <3>1
    <2>2. faults' \in Nat /\ faults' >= faults
      BY <1>t, <2>1
    <2>3. ASSUME Success(status), a \in DOMAIN Makes
          PROVE  last'.kind = Makes[a]
      <3>1. last' \in {[kind |-> Makes[a], id |-> sequence + 1]}
        BY Zenon, <1>1, <2>3 DEF Receive
      <3>2. QED  BY <3>1
    <2>4. QED  BY Zenon, <1>1, <2>1, <2>2, <2>3
  <1>2. CASE faults' = faults + 1 /\ status \in {0, 500}
    <2>1. faults' \in Nat /\ faults' >= faults /\ faults' > 0
      BY <1>t, <1>2
    <2>2. ~Success(status)
      BY <1>2 DEF Success
    <2>3. QED  BY Zenon, <1>2, <2>1, <2>2
  <1>3. \/ status = Answer(a) /\ Apply(a) /\ Receive(a, status) /\ UNCHANGED <<faults, lockedOut>>
        \/ faults' = faults + 1 /\ status \in {0, 500}
    BY Zenon DEF Request
  <1>4. QED  BY Zenon, <1>1, <1>2, <1>3

(* When the agent takes the next action of its plan. *)
LEMMA AfterIsNext ==
    ASSUME TypeOK, step \in 1..Span(plan), NEW response,
           plan = "normal" /\ step \in 4..6 => response.kind = Makes[Action]
    PROVE  After(step, response) = step + 1
  <1>1. CASE plan # "normal"
    BY <1>1 DEF After
  <1>2. CASE plan = "normal"
    <2>1. Actions(plan) = Normal /\ step \in 1..9
      <3>1. plan \in Plans
        BY DEF TypeOK
      <3>2. QED  BY Zenon, <1>2, <3>1, PlanFacts DEF Span
    <2>2. Normal[step] \in {"create_application", "create_round", "create_experience"}
              <=> step \in 4..6
      BY Zenon, <2>1, ChainFacts
    <2>3. QED  BY Zenon, <1>2, <2>1, <2>2 DEF After, Action
  <1>3. QED  BY Zenon, <1>1, <1>2

(* The observation that is recorded is labelled with its action. *)
LEMMA ObservedLabel ==
    ASSUME TypeOK, NEW status, NEW seq, Observe(status, seq)
    PROVE  LabelledAs(plan, observations'[Len(observations) + 1])
  <1> DEFINE v == (status # 400)
             t == Target(plan, step)
             o == [action |-> Action, target |-> t, status |-> status,
                   valid |-> v, seq |-> seq, step |-> step]
  <1>1. observations \in Seq(Observation)
    BY DEF TypeOK
  <1>2. observations' = Append(observations, o)
    BY Zenon DEF Observe
  <1> HIDE DEF v, t
  <1>3. /\ o.action = Actions(plan)[o.step] /\ o.target = Target(plan, o.step)
        /\ o.status = status /\ o.valid = v
    BY Zenon DEF Action, t
  <1> HIDE DEF o
  <1>4. o.valid = (o.status # 400)
    BY <1>3 DEF v
  <1>5. observations'[Len(observations) + 1] = o
    BY <1>1, <1>2
  <1>6. QED  BY Zenon, <1>3, <1>4, <1>5 DEF LabelledAs

(* Recording an outcome that has an explanation keeps the report true. *)
LEMMA ObserveReports ==
    ASSUME TypeOK, InPlay, OneByOne, Reported,
           step \in 1..Span(plan), Action \in Verbs,
           NEW status \in Statuses, NEW seq \in Nat, Observe(status, seq),
           last' \in [kind : Kinds \cup {"none", "other"}, id : Nat],
           faults' >= faults, faults' \in Nat, lockedOut' => lockedOut \/ faults' > 0,
           Explained(plan, status, Action, faults' > 0),
           Success(status) /\ Action \in DOMAIN Makes => last'.kind = Makes[Action]
    PROVE  Reported'
  <1>1. /\ observations' \in Seq(Observation)
        /\ Len(observations') = Len(observations) + 1
        /\ \A k \in 1..Len(observations) : observations'[k] = observations[k]
        /\ observations'[Len(observations) + 1].action = Action
        /\ observations'[Len(observations) + 1].status = status
        /\ observations'[Len(observations) + 1].step = step
        /\ plan' = plan
    BY Zenon, ObserveFacts
  <1>3. /\ Len(observations) \in Nat /\ DOMAIN observations = 1..Len(observations)
        /\ DOMAIN observations' = 1..(Len(observations) + 1)
        /\ plan \in Plans /\ faults \in Nat
    BY <1>1, Assumption DEF TypeOK
  <1>4. \A k \in DOMAIN observations' : k \in DOMAIN observations \/ k = Len(observations) + 1
    BY <1>3
  <1>5. \A k \in DOMAIN observations : observations'[k] = observations[k]
    BY Zenon, <1>1, <1>3
  <1>6. Labelled'
    <2>1. ASSUME NEW k \in DOMAIN observations'
          PROVE  LabelledAs(plan, observations'[k])
      <3>1. CASE k \in DOMAIN observations
        BY Zenon, <1>5, <3>1 DEF Reported, Labelled
      <3>2. CASE k = Len(observations) + 1
        BY Zenon, <3>2, ObservedLabel
      <3>3. QED  BY Zenon, <1>4, <3>1, <3>2
    <2>2. QED  BY Zenon, <1>1, <2>1 DEF Labelled
  <1>7. Answered'
    <2>0. faults > 0 => faults' > 0
      BY <1>3
    <2>1. lockedOut' => faults' > 0
      BY Zenon, <2>0 DEF Reported, Answered
    <2>2. ASSUME NEW k \in DOMAIN observations'
          PROVE  Explained(plan, observations'[k].status, observations'[k].action, faults' > 0)
      <3>1. CASE k \in DOMAIN observations
        <4>1. Explained(plan, observations[k].status, observations[k].action, faults > 0)
          BY Zenon, <3>1 DEF Reported, Answered
        <4>2. QED  BY Zenon, <1>5, <2>0, <3>1, <4>1 DEF Explained
      <3>2. CASE k = Len(observations) + 1
        BY Zenon, <1>1, <3>2
      <3>3. QED  BY Zenon, <1>4, <3>1, <3>2
    <2>3. QED  BY Zenon, <1>1, <2>1, <2>2 DEF Answered
  <1>8. Complete'
    <2>1. observations'[1].step = 1
      <3>1. CASE observations = <<>>
        <4>1. step = 1 /\ Len(observations) = 0
          BY <3>1 DEF InPlay
        <4>2. QED  BY <1>1, <4>1
      <3>2. CASE observations # <<>>
        <4>1. observations[1].step = 1
          BY Zenon, <3>2 DEF Reported, Complete
        <4>2. 1 \in DOMAIN observations
          <5>1. Len(observations) # 0
            BY <3>2 DEF TypeOK
          <5>2. QED  BY <1>3, <5>1
        <4>3. QED  BY Zenon, <1>5, <4>1, <4>2
      <3>3. QED  BY <3>1, <3>2
    <2>2. CASE plan = "normal" /\ Troubled
      <3>1. PICK k \in DOMAIN observations : observations[k].status \in {0, 401, 500}
        BY Zenon, <2>2 DEF Troubled
      <3>2. k \in DOMAIN observations'
        BY <1>3
      <3>3. observations'[k].status \in {0, 401, 500}
        BY Zenon, <1>5, <3>1
      <3>4. QED  BY Zenon, <1>1, <2>1, <2>2, <3>2, <3>3 DEF Complete, Troubled
    <2>3. CASE plan = "normal" /\ status \in {0, 401, 500}
      <3>1. Len(observations) + 1 \in DOMAIN observations'
        BY <1>3
      <3>2. QED  BY Zenon, <1>1, <2>1, <2>3, <3>1 DEF Complete, Troubled
    <2>4. CASE Whole /\ ~(plan = "normal" /\ status \in {0, 401, 500})
      <3>1. plan = "normal" /\ step \in 4..6 => last'.kind = Makes[Action]
        <4> SUFFICES ASSUME plan = "normal", step \in 4..6
                     PROVE  last'.kind = Makes[Action]
          OBVIOUS
        <4>1. Action = Normal[step] /\ step \in 1..9
          <5>1. Actions(plan) = Normal
            BY Zenon, <1>3, PlanFacts
          <5>2. QED  BY <5>1 DEF Action
        <4>2. Action \in {"create_application", "create_round", "create_experience"}
          BY Zenon, <4>1, ChainFacts
        <4>3. Action \in DOMAIN Makes /\ Action # "register" /\ Action # "login"
          BY <4>2, MakesFacts
        <4>4. status = Usual(plan, Action)
          BY Zenon, <2>4 DEF Explained
        <4>5. status = 201
          <5>1. plan # "malformed_payload_probe"
            OBVIOUS
          <5>2. Usual(plan, Action) = 201
            BY <4>3, <5>1, UsualFacts
          <5>3. QED  BY Zenon, <4>4, <5>2
        <4>6. QED  BY <4>3, <4>5 DEF Success
      <3>2. step' = step + 1
        <4>1. step' = After(step, last')
          BY Zenon DEF Observe
        <4>2. QED  BY Zenon, <3>1, <4>1, AfterIsNext
      <3>3. Len(observations) = step - 1 /\ \A k \in DOMAIN observations : observations[k].step = k
        BY Zenon, <2>4 DEF Whole
      <3>4. step \in Nat
        BY DEF TypeOK
      <3>5. Len(observations') = step' - 1
        BY <1>1, <1>3, <3>2, <3>3, <3>4
      <3>6. ASSUME NEW k \in DOMAIN observations'
            PROVE  observations'[k].step = k
        <4>1. CASE k \in DOMAIN observations
          BY Zenon, <1>5, <3>3, <4>1
        <4>2. CASE k = Len(observations) + 1
          BY <1>1, <1>3, <3>3, <3>4, <4>2
        <4>3. QED  BY Zenon, <1>4, <4>1, <4>2
      <3>7. Whole'
        BY Zenon, <3>5, <3>6 DEF Whole
      <3>8. QED  BY Zenon, <2>1, <3>7 DEF Complete
    <2>5. QED  BY Zenon, <2>2, <2>3, <2>4 DEF Reported, Complete
  <1>9. QED  BY <1>6, <1>7, <1>8 DEF Reported

LEMMA WorkReports ==
    ASSUME TypeOK, InPlay, OneByOne, Reported, Work
    PROVE  Reported'
  <1>0. /\ step \in 1..Span(plan) /\ step \in Steps /\ Action \in Verbs
        /\ Turned \/ Renewed \/ Recorded \/ GivenUp
    BY Zenon, WorkCases
  <1>t. sequence \in Nat /\ faults \in Nat
    BY Assumption DEF TypeOK
  <1>1. ASSUME observations' = observations, step' = step, plan' = plan,
               faults' \in Nat, faults' >= faults, lockedOut' => lockedOut \/ faults' > 0
        PROVE  Reported'
    <2>1. faults > 0 => faults' > 0
      BY <1>t, <1>1
    <2>2. Answered'
      <3>1. lockedOut' => faults' > 0
        BY Zenon, <1>1, <2>1 DEF Reported, Answered
      <3>2. ASSUME NEW k \in DOMAIN observations
            PROVE  Explained(plan, observations[k].status, observations[k].action, faults' > 0)
        <4>1. Explained(plan, observations[k].status, observations[k].action, faults > 0)
          BY Zenon DEF Reported, Answered
        <4>2. QED  BY Zenon, <2>1, <4>1 DEF Explained
      <3>3. QED  BY Zenon, <1>1, <3>1, <3>2 DEF Answered
    <2>3. Labelled'
      BY Zenon, <1>1 DEF Reported, Labelled
    <2>4. (Whole' <=> Whole) /\ (Troubled' <=> Troubled)
      BY <1>1 DEF Whole, Troubled
    <2>5. Complete'
      BY Zenon, <1>1, <2>4 DEF Reported, Complete
    <2>6. QED  BY <2>2, <2>3, <2>5 DEF Reported
  <1>2. CASE Turned
    <2>1. observations' = observations /\ step' = step /\ plan' = plan
      BY Zenon, <1>0, <1>2, TurnedFacts
    <2>2. Request(Action, 401)
      BY Zenon, <1>2 DEF Turned
    <2>3. faults' \in Nat /\ faults' >= faults /\ (lockedOut' => lockedOut \/ faults' > 0)
      BY Zenon, <2>2, RequestOutcome
    <2>4. QED  BY Zenon, <1>1, <2>1, <2>3
  <1>3. CASE Renewed
    <2>1. observations' = observations /\ step' = step /\ plan' = plan
      BY Zenon, <1>0, <1>3, RenewedFacts
    <2>2. PICK status \in Statuses : Request("refresh", status)
      BY Zenon, <1>3 DEF Renewed
    <2>3. faults' \in Nat /\ faults' >= faults /\ (lockedOut' => lockedOut \/ faults' > 0)
      BY Zenon, <2>2, RequestOutcome
    <2>4. QED  BY Zenon, <1>1, <2>1, <2>3
  <1>4. CASE Recorded
    <2>1. PICK status \in Statuses : Request(Action, status) /\ Observe(status, sequence')
      BY Zenon, <1>4 DEF Recorded
    <2>2. /\ sequence' = sequence + 1
          /\ last' \in [kind : Kinds \cup {"none", "other"}, id : Nat]
      BY Zenon, <1>0, <2>1, RequestFacts DEF Created
    <2>3. /\ faults' \in Nat /\ faults' >= faults /\ (lockedOut' => lockedOut \/ faults' > 0)
          /\ status = Answer(Action) \/ (status \in {0, 500} /\ faults' > 0)
          /\ Success(status) /\ Action \in DOMAIN Makes => last'.kind = Makes[Action]
      BY Zenon, <2>1, RequestOutcome
    <2>4. Explained(plan, status, Action, faults' > 0)
      <3>1. /\ Answer(Action) = 401 \/ Answer(Action) = Usual(plan, Action)
            /\ Action = "register" => Answer(Action) = Usual(plan, Action)
        BY <1>0, AnswerIsUsual
      <3>2. QED  BY Zenon, <2>3, <3>1 DEF Explained
    <2>5. sequence' \in Nat
      BY <1>t, <2>2
    <2>6. PICK seq \in Nat : seq = sequence'
      BY <2>5
    <2>7. Observe(status, seq)
      BY Zenon, <2>1, <2>6
    <2>8. QED  BY Zenon, <1>0, <2>2, <2>3, <2>4, <2>7, ObserveReports
  <1>5. CASE GivenUp
    <2>1. PICK status \in Statuses : Request("refresh", status) /\ Observe(401, sequence)
      BY Zenon, <1>5 DEF GivenUp
    <2>2. last' \in [kind : Kinds \cup {"none", "other"}, id : Nat]
      BY Zenon, <1>0, <2>1, RequestFacts DEF Created
    <2>3. faults' \in Nat /\ faults' >= faults /\ (lockedOut' => lockedOut \/ faults' > 0)
      BY Zenon, <2>1, RequestOutcome
    <2>4. Action # "register"
      <3>1. Action \notin AuthActions
        BY <1>5 DEF GivenUp, InPlay
      <3>2. QED  BY <3>1 DEF AuthActions
    <2>5. Explained(plan, 401, Action, faults' > 0)
      BY Zenon, <2>4 DEF Explained
    <2>6. 401 \in Statuses /\ ~Success(401)
      BY DEF Statuses, Success
    <2>7. QED  BY Zenon, <1>0, <1>t, <2>1, <2>2, <2>3, <2>5, <2>6, ObserveReports
  <1>6. QED  BY Zenon, <1>0, <1>2, <1>3, <1>4, <1>5

LEMMA FreshReports == Fresh => Reported
  <1> SUFFICES ASSUME Fresh
               PROVE  Reported
    OBVIOUS
  <1>1. step = 1 /\ observations = <<>> /\ lockedOut = FALSE
    BY DEF Fresh
  <1>2. Len(observations) = 0 /\ DOMAIN observations = {}
    BY SMT, <1>1
  <1>3. Len(observations) = step - 1
    BY <1>1, <1>2
  <1>4. QED  BY Zenon, <1>1, <1>2, <1>3 DEF Reported, Labelled, Answered, Complete, Whole

(* What a session reports is true, whatever the allow-list and the faults. *)
THEOREM ReportIsTrue == Spec => []Reported
  <1>1. Init => Reported
    BY FreshReports DEF Init
  <1>2. SessionInv /\ Reported /\ [Next]_vars => Reported'
    <2> SUFFICES ASSUME SessionInv, Reported, [Next]_vars
                 PROVE  Reported'
      OBVIOUS
    <2>1. CASE Work
      <3>1. TypeOK /\ InPlay /\ OneByOne
        BY DEF SessionInv
      <3>2. QED  BY Zenon, <2>1, <3>1, WorkReports
    <2>2. CASE Expire \/ UNCHANGED vars
      <3>1. /\ observations' = observations /\ step' = step /\ plan' = plan
            /\ faults' = faults /\ lockedOut' = lockedOut
        BY <2>2 DEF Expire, vars, agent, client, application
      <3>2. Labelled'
        BY Zenon, <3>1 DEF Reported, Labelled
      <3>3. Answered'
        BY Zenon, <3>1 DEF Reported, Answered
      <3>4. (Whole' <=> Whole) /\ (Troubled' <=> Troubled)
        BY <3>1 DEF Whole, Troubled
      <3>5. Complete'
        BY Zenon, <3>1, <3>4 DEF Reported, Complete
      <3>6. QED  BY <3>2, <3>3, <3>5 DEF Reported
    <2>3. CASE \E escalated \in BOOLEAN : NextSession(escalated)
      <3>1. Fresh'
        BY Zenon, <2>3 DEF NextSession, Fresh
      <3>2. Fresh' => Reported'
        BY FreshReports, PTL
      <3>3. QED  BY <3>1, <3>2
    <2>4. QED  BY Zenon, <2>1, <2>2, <2>3 DEF Next
  <1>3. QED  BY <1>1, <1>2, SessionInvariant, PTL DEF Spec

-----------------------------------------------------------------------------
(* What the telemetry shows *)

LEMMA FeatureDefs ==
    ASSUME NEW window
    PROVE  /\ Features(window).size = Len(window)
           /\ Features(window).auths = Cardinality(AuthAt(window))
           /\ Features(window).failedAuths = Cardinality(FailedAt(window))
           /\ Features(window).burst = Burst(window)
           /\ Features(window).rejected =
                 Cardinality({i \in DOMAIN window : ~window[i].valid})
           /\ Features(window).invalid =
                 Cardinality({i \in DOMAIN window : window[i].status = 404})
           /\ Features(window).destructive =
                 Cardinality({i \in DOMAIN window : window[i].action \in DestructiveActions})
           /\ Features(window).errors =
                 Cardinality({i \in DOMAIN window :
                                 window[i].status = 0 \/ window[i].status >= 500})
           /\ Features(window).switches = Cardinality({i \in 2..Len(window) :
                             Endpoint(window[i]) # Endpoint(window[i - 1])})
           /\ Features(window).repeats = Cardinality({i \in DOMAIN window : \E j \in 1..(i - 1) :
                             Endpoint(window[j]) = Endpoint(window[i])})
  BY DEF Features

(* A set of numbers that is bounded has a greatest one. *)
LEMMA GreatestExists ==
    ASSUME NEW bound \in Nat, NEW S \in SUBSET (0..bound), S # {}
    PROVE  \E m \in S : \A n \in S : n <= m
  <1> DEFINE gaps == {g \in Nat : bound - g \in S}
             R == {p \in Nat \X Nat : p[1] < p[2]}
  <1>1. gaps \subseteq Nat /\ gaps # {}
    <2>1. PICK n \in S : TRUE
      OBVIOUS
    <2>2. bound - n \in Nat /\ bound - (bound - n) = n
      OBVIOUS
    <2>3. bound - n \in gaps
      BY <2>1, <2>2
    <2>4. QED  BY <2>3
  <1>2. IsWellFoundedOn(R, Nat)
    BY NatLessThanWellFounded DEF OpToRel
  <1> HIDE DEF gaps, R
  <1>3. PICK g \in gaps : \A h \in gaps : <<h, g>> \notin R
    BY Zenon, <1>1, <1>2, WFMin
  <1>4. \A h \in gaps : g <= h
    <2>1. \A h \in gaps : h \in Nat /\ g \in Nat /\ ~(h < g)
      BY <1>1, <1>3 DEF R
    <2>2. QED  BY <2>1
  <1>5. bound - g \in S
    BY DEF gaps
  <1>6. ASSUME NEW n \in S
        PROVE  n <= bound - g
    <2>1. bound - n \in Nat /\ bound - (bound - n) = n /\ n \in Nat
      OBVIOUS
    <2>2. bound - n \in gaps
      BY <2>1 DEF gaps
    <2>3. g <= bound - n /\ g \in Nat
      BY <1>1, <1>4, <2>2
    <2>4. QED  BY <2>1, <2>3
  <1>7. QED  BY <1>5, <1>6

LEMMA AuthFacts ==
    ASSUME NEW window, NEW n \in Nat, DOMAIN window = 1..n
    PROVE  /\ AuthAt(window) \subseteq 1..n /\ FailedAt(window) \subseteq AuthAt(window)
           /\ IsFiniteSet(AuthAt(window)) /\ IsFiniteSet(FailedAt(window))
           /\ Cardinality(FailedAt(window)) \in Nat /\ Cardinality(AuthAt(window)) \in 0..n
           /\ Cardinality(FailedAt(window)) <= Cardinality(AuthAt(window))
  <1>1. AuthAt(window) \subseteq 1..n /\ FailedAt(window) \subseteq AuthAt(window)
    BY Zenon DEF AuthAt, FailedAt
  <1>2. IsFiniteSet(1..n) /\ Cardinality(1..n) = n
    BY FS_Interval
  <1>3. IsFiniteSet(AuthAt(window)) /\ Cardinality(AuthAt(window)) <= n
    BY Zenon, <1>1, <1>2, FS_Subset
  <1>4. /\ IsFiniteSet(FailedAt(window))
        /\ Cardinality(FailedAt(window)) <= Cardinality(AuthAt(window))
    BY Zenon, <1>1, <1>3, FS_Subset
  <1>5. Cardinality(FailedAt(window)) \in Nat /\ Cardinality(AuthAt(window)) \in Nat
    BY Zenon, <1>3, <1>4, FS_CardinalityType
  <1>6. Cardinality(AuthAt(window)) \in 0..n
    BY <1>3, <1>5
  <1>7. QED  BY Zenon, <1>1, <1>3, <1>4, <1>5, <1>6

(* The burst is a run's length, and no run is longer. *)
LEMMA BurstFacts ==
    ASSUME NEW window, Len(window) \in Nat, DOMAIN window = 1..Len(window)
    PROVE  /\ Burst(window) \in Nat
           /\ Burst(window) <= Cardinality(FailedAt(window))
           /\ \A run \in FailureRuns(window) : Cardinality(run) <= Burst(window)
           /\ \E run \in FailureRuns(window) : Cardinality(run) = Burst(window)
  <1> DEFINE lengths == {Cardinality(run) : run \in FailureRuns(window)}
             failed == FailedAt(window)
  <1>1. IsFiniteSet(failed) /\ Cardinality(failed) \in Nat
    BY Zenon, AuthFacts
  <1>2. {} \in FailureRuns(window)
    BY Zenon DEF FailureRuns
  <1>3. \A run \in FailureRuns(window) : run \subseteq failed
    BY Zenon DEF FailureRuns
  <1>4. \A run \in FailureRuns(window) : Cardinality(run) \in 0..Cardinality(failed)
    <2>1. ASSUME NEW run \in FailureRuns(window)
          PROVE  Cardinality(run) \in 0..Cardinality(failed)
      <3>1. IsFiniteSet(run) /\ Cardinality(run) <= Cardinality(failed)
        BY Zenon, <1>1, <1>3, FS_Subset
      <3>2. Cardinality(run) \in Nat
        BY Zenon, <3>1, FS_CardinalityType
      <3>3. QED  BY <1>1, <3>1, <3>2
    <2>2. QED  BY <2>1
  <1>5. lengths \in SUBSET (0..Cardinality(failed)) /\ lengths # {}
    BY Zenon, <1>2, <1>4
  <1>6. \E longest \in lengths : \A length \in lengths : length <= longest
    BY Zenon, <1>1, <1>5, GreatestExists
  <1>7. Burst(window) = CHOOSE longest \in lengths : \A length \in lengths : length <= longest
    BY Zenon DEF Burst
  <1>8. Burst(window) \in lengths /\ \A length \in lengths : length <= Burst(window)
    <2> HIDE DEF lengths
    <2>1. QED  BY Zenon, <1>6, <1>7
  <1>9. Burst(window) \in 0..Cardinality(failed)
    BY Zenon, <1>5, <1>8
  <1>10. Burst(window) \in Nat /\ Burst(window) <= Cardinality(failed)
    BY <1>1, <1>9
  <1>11. \E run \in FailureRuns(window) : Cardinality(run) = Burst(window)
    BY Zenon, <1>8
  <1>12. \A run \in FailureRuns(window) : Cardinality(run) <= Burst(window)
    BY Zenon, <1>8
  <1>13. QED  BY Zenon, <1>10, <1>11, <1>12

(* Every feature is a share of what it is counted over, so in [0, 1], and  *)
(* the burst is part of the failures and there as soon as one of them is.  *)
THEOREM FeaturesAreShares ==
    ASSUME NEW O, NEW window \in Seq(O), window # <<>>
    PROVE  LET f == Features(window)
           IN  /\ f.size \in Nat \ {0}
               /\ f.auths \in 0..f.size
               /\ f.failedAuths \in 0..f.auths
               /\ f.burst \in 0..f.failedAuths
               /\ f.failedAuths > 0 => f.burst > 0
               /\ f.rejected \in 0..f.size /\ f.invalid \in 0..f.size
               /\ f.destructive \in 0..f.size /\ f.errors \in 0..f.size
               /\ f.switches \in 0..(f.size - 1)
               /\ f.repeats \in 0..(f.size - 1)
  <1> DEFINE n == Len(window)
  <1>1. n \in Nat \ {0} /\ n \in Nat /\ n - 1 \in Nat /\ DOMAIN window = 1..n
    BY SMT
  <1> HIDE DEF n
  <1>2. /\ IsFiniteSet(1..n) /\ Cardinality(1..n) = n
        /\ IsFiniteSet(2..n) /\ Cardinality(2..n) = n - 1
    <2>1. IsFiniteSet(1..n) /\ Cardinality(1..n) = n
      BY <1>1, FS_Interval
    <2>2. IsFiniteSet(2..n) /\ Cardinality(2..n) = IF 2 > n THEN 0 ELSE n - 2 + 1
      BY <1>1, FS_Interval
    <2>3. (IF 2 > n THEN 0 ELSE n - 2 + 1) = n - 1
      BY <1>1
    <2>4. QED  BY Zenon, <2>1, <2>2, <2>3
  <1>3. ASSUME NEW S, S \subseteq 1..n
        PROVE  Cardinality(S) \in 0..n
    <2>1. IsFiniteSet(S) /\ Cardinality(S) <= n
      BY Zenon, <1>2, <1>3, FS_Subset
    <2>2. Cardinality(S) \in Nat
      BY Zenon, <2>1, FS_CardinalityType
    <2>3. QED  BY <1>1, <2>1, <2>2
  <1>4. ASSUME NEW S, S \subseteq 2..n
        PROVE  Cardinality(S) \in 0..(n - 1)
    <2>1. IsFiniteSet(S) /\ Cardinality(S) <= n - 1
      BY Zenon, <1>2, <1>4, FS_Subset
    <2>2. Cardinality(S) \in Nat
      BY Zenon, <2>1, FS_CardinalityType
    <2>3. QED  BY <1>1, <2>1, <2>2
  <1>5. Features(window).size = n
    BY Zenon, FeatureDefs DEF n
  <1>6. Features(window).auths \in 0..n
    <2>1. Cardinality(AuthAt(window)) \in 0..n
      BY Zenon, <1>1, AuthFacts
    <2>2. QED  BY Zenon, <2>1, FeatureDefs
  <1>7. Features(window).failedAuths \in 0..Features(window).auths
    <2>1. /\ Cardinality(FailedAt(window)) \in Nat /\ Cardinality(AuthAt(window)) \in 0..n
          /\ Cardinality(FailedAt(window)) <= Cardinality(AuthAt(window))
      BY Zenon, <1>1, AuthFacts
    <2>2. Cardinality(FailedAt(window)) \in 0..Cardinality(AuthAt(window))
      BY <1>1, <2>1
    <2>3. QED  BY Zenon, <2>2, FeatureDefs
  <1>8. Features(window).burst \in 0..Features(window).failedAuths
    <2>1. Burst(window) \in Nat /\ Burst(window) <= Cardinality(FailedAt(window))
      BY Zenon, <1>1, BurstFacts DEF n
    <2>2. Cardinality(FailedAt(window)) \in Nat
      BY Zenon, <1>1, AuthFacts
    <2>3. Burst(window) \in 0..Cardinality(FailedAt(window))
      BY <2>1, <2>2
    <2>4. QED  BY Zenon, <2>3, FeatureDefs
  <1>9. /\ Features(window).rejected \in 0..n /\ Features(window).invalid \in 0..n
        /\ Features(window).destructive \in 0..n /\ Features(window).errors \in 0..n
    <2>1. Features(window).rejected \in 0..n
      <3> DEFINE S == {i \in DOMAIN window : ~window[i].valid}
      <3>1. S \subseteq 1..n
        BY Zenon, <1>1
      <3>2. Features(window).rejected = Cardinality(S)
        BY Zenon, FeatureDefs
      <3> HIDE DEF S
      <3>3. QED  BY Zenon, <1>3, <3>1, <3>2
    <2>2. Features(window).invalid \in 0..n
      <3> DEFINE S == {i \in DOMAIN window : window[i].status = 404}
      <3>1. S \subseteq 1..n
        BY Zenon, <1>1
      <3>2. Features(window).invalid = Cardinality(S)
        BY DEF Features
      <3> HIDE DEF S
      <3>3. QED  BY Zenon, <1>3, <3>1, <3>2
    <2>3. Features(window).destructive \in 0..n
      <3> DEFINE S == {i \in DOMAIN window : window[i].action \in DestructiveActions}
      <3>1. S \subseteq 1..n
        BY Zenon, <1>1
      <3>2. Features(window).destructive = Cardinality(S)
        BY Zenon, FeatureDefs
      <3> HIDE DEF S
      <3>3. QED  BY Zenon, <1>3, <3>1, <3>2
    <2>4. Features(window).errors \in 0..n
      <3> DEFINE S == {i \in DOMAIN window : window[i].status = 0 \/ window[i].status >= 500}
      <3>1. S \subseteq 1..n
        BY Zenon, <1>1
      <3>2. Features(window).errors = Cardinality(S)
        BY Zenon, FeatureDefs
      <3> HIDE DEF S
      <3>3. QED  BY Zenon, <1>3, <3>1, <3>2
    <2>5. QED  BY <2>1, <2>2, <2>3, <2>4
  <1>10. Features(window).switches \in 0..(n - 1)
    <2>1. Features(window).switches =
             Cardinality({i \in 2..n : Endpoint(window[i]) # Endpoint(window[i - 1])})
      BY Zenon, FeatureDefs DEF n
    <2>2. QED  BY Zenon, <1>4, <2>1
  <1>11. Features(window).repeats \in 0..(n - 1)
    <2> DEFINE again == {i \in DOMAIN window : \E j \in 1..(i - 1) :
                             Endpoint(window[j]) = Endpoint(window[i])}
    <2>1. Features(window).repeats = Cardinality(again)
      BY Zenon, FeatureDefs
    <2>2. again \subseteq 2..n
      <3>1. ASSUME NEW i \in again
            PROVE  i \in 2..n
        <4>1. i \in 1..n /\ \E j \in 1..(i - 1) : TRUE
          BY Zenon, <1>1
        <4>2. QED  BY <1>1, <4>1
      <3>2. QED  BY <3>1
    <2> HIDE DEF again
    <2>3. QED  BY Zenon, <1>4, <2>1, <2>2
  <1>12. ASSUME Features(window).failedAuths > 0
         PROVE  Features(window).burst > 0
    <2>1. Features(window).failedAuths = Cardinality(FailedAt(window))
      BY DEF Features
    <2>2. Features(window).burst = Burst(window)
      BY DEF Features
    <2>3. FailedAt(window) # {}
      <3>1. Cardinality(FailedAt(window)) # 0
        BY <1>12, <2>1
      <3>2. QED  BY Zenon, <3>1, FS_EmptySet
    <2>4. PICK i \in FailedAt(window) : TRUE
      BY Zenon, <2>3
    <2>5. {i} \in FailureRuns(window)
      <3>1. \A j : ~(i < j /\ j < i) \/ j \notin 1..n
        <4>1. i \in 1..n
          BY Zenon, <1>1, <2>4, AuthFacts
        <4>2. QED  BY <1>1, <4>1
      <3>2. AuthAt(window) \subseteq 1..n
        BY Zenon, <1>1, AuthFacts
      <3>3. QED  BY Zenon, <2>4, <3>1, <3>2 DEF FailureRuns
    <2>6. Cardinality({i}) = 1
      BY Zenon, FS_Singleton
    <2>7. 1 <= Burst(window) /\ Burst(window) \in Nat
      BY Zenon, <1>1, <2>5, <2>6, BurstFacts DEF n
    <2>8. QED  BY <2>2, <2>7
  <1>13. QED  BY Zenon, <1>1, <1>5, <1>6, <1>7, <1>8, <1>9, <1>10, <1>11, <1>12

LEMMA ScenarioSteps ==
    /\ \A i \in 2..6 : Actions("repeated_failed_login")[i] = "login"
    /\ \A i \in 2..6 : Actions("malformed_payload_probe")[i] = "create_application"
    /\ \A i \in 2..6 : Actions("invalid_resource_probe")[i] = "get_application"
    /\ \A i \in 2..7 : Actions("rapid_endpoint_switching")[i] = ReadOnlyCycle[i - 1]
  <1>1. /\ MaxActions["repeated_failed_login"] = 5
        /\ MaxActions["malformed_payload_probe"] = 5
        /\ MaxActions["invalid_resource_probe"] = 5
    BY DEF MaxActions, Scenarios
  <1>2. Actions("repeated_failed_login") = [i \in 1..6 |-> IF i = 1 THEN "register" ELSE "login"]
    BY SMT, <1>1 DEF Actions
  <1>3. Actions("malformed_payload_probe")
            = [i \in 1..6 |-> IF i = 1 THEN "register" ELSE "create_application"]
    BY SMT, <1>1 DEF Actions
  <1>4. Actions("invalid_resource_probe")
            = [i \in 1..6 |-> IF i = 1 THEN "register" ELSE "get_application"]
    BY SMT, <1>1 DEF Actions
  <1>5. \A i \in 2..7 : Actions("rapid_endpoint_switching")[i] = ReadOnlyCycle[i - 1]
    <2>1. Actions("rapid_endpoint_switching") = <<"register">> \o ReadOnlyCycle
      BY DEF Actions
    <2>2. ReadOnlyCycle \in Seq(Words) /\ Len(ReadOnlyCycle) = 6
      BY SMT DEF ReadOnlyCycle, Words
    <2> DEFINE one == <<"register">>
    <2>3. one \in Seq(Words) /\ Len(one) = 1
      BY SMT DEF Words
    <2> HIDE DEF one
    <2>4. \A i \in 1..(Len(one) + Len(ReadOnlyCycle)) :
             (one \o ReadOnlyCycle)[i] =
                 IF i <= Len(one) THEN one[i] ELSE ReadOnlyCycle[i - Len(one)]
      BY Zenon, <2>2, <2>3, ConcatProperties
    <2> DEFINE all == one \o ReadOnlyCycle
    <2> HIDE DEF all
    <2>5. \A i \in 2..7 : all[i] = ReadOnlyCycle[i - 1]
      <3>1. \A i \in 1..7 : all[i] = IF i <= 1 THEN one[i] ELSE ReadOnlyCycle[i - 1]
        <4>1. Len(one) + Len(ReadOnlyCycle) = 7
          BY <2>2, <2>3
        <4>2. \A i \in 1..7 : all[i] = IF i <= Len(one) THEN one[i] ELSE ReadOnlyCycle[i - Len(one)]
          BY Zenon, <2>4, <4>1 DEF all
        <4>3. QED  BY Zenon, <2>3, <4>2
      <3>2. QED  BY <3>1
    <2>6. QED  BY Zenon, <2>1, <2>5 DEF all, one
  <1>6. (\A i \in 2..6 : i \in 1..6 /\ i # 1)
    OBVIOUS
  <1>7. QED  BY <1>2, <1>3, <1>4, <1>5, <1>6

(* The window of a session that took every action of its plan. *)
LEMMA WholeWindow ==
    ASSUME SessionInv, Reported, Over, Whole
    PROVE  /\ Len(observations) = Span(plan) /\ DOMAIN observations = 1..Span(plan)
           /\ \A k \in 1..Span(plan) :
                 /\ observations[k].action = Actions(plan)[k]
                 /\ LabelledAs(plan, observations[k])
                 /\ observations[k].target = Target(plan, k)
                 /\ Explained(plan, observations[k].status, Actions(plan)[k], faults > 0)
  <1>1. plan \in Plans /\ observations \in Seq(Observation) /\ step \in Nat
    BY DEF SessionInv, TypeOK
  <1>2. Span(plan) \in 6..9 /\ Len(Actions(plan)) = Span(plan)
    BY <1>1, PlanFacts
  <1>3. step > Span(plan) /\ step \in 1..(Span(plan) + 1)
    BY <1>2 DEF Over, SessionInv, InPlay
  <1>4. Len(observations) = step - 1 /\ \A k \in DOMAIN observations : observations[k].step = k
    BY Zenon DEF Whole
  <1>5. Len(observations) = Span(plan) /\ DOMAIN observations = 1..Span(plan)
    BY <1>1, <1>2, <1>3, <1>4
  <1>6. ASSUME NEW k \in 1..Span(plan)
        PROVE  /\ observations[k].action = Actions(plan)[k]
               /\ LabelledAs(plan, observations[k])
               /\ observations[k].target = Target(plan, k)
               /\ Explained(plan, observations[k].status, Actions(plan)[k], faults > 0)
    <2>1. LabelledAs(plan, observations[k])
      BY Zenon, <1>5 DEF Reported, Labelled
    <2>2. Explained(plan, observations[k].status, observations[k].action, faults > 0)
      BY Zenon, <1>5 DEF Reported, Answered
    <2>3. observations[k].step = k
      BY Zenon, <1>4, <1>5
    <2>4. observations[k].action = Actions(plan)[k] /\ observations[k].target = Target(plan, k)
      BY Zenon, <2>1, <2>3 DEF LabelledAs
    <2>5. QED  BY Zenon, <2>1, <2>2, <2>4
  <1>7. QED  BY Zenon, <1>5, <1>6

(* The number of elements that are for sure in, or for sure not in, a set  *)
(* of positions.                                                           *)
LEMMA AtLeast ==
    ASSUME NEW n \in Nat, NEW m \in 1..n, NEW S, S \subseteq 1..n, m..n \subseteq S
    PROVE  Cardinality(S) \in (n - m + 1)..n
  <1>1. IsFiniteSet(1..n) /\ Cardinality(1..n) = n
    BY FS_Interval
  <1>2. Cardinality(m..n) = n - m + 1
    BY FS_Interval
  <1>3. IsFiniteSet(S) /\ Cardinality(S) <= n
    BY Zenon, <1>1, FS_Subset
  <1>4. Cardinality(m..n) <= Cardinality(S)
    BY Zenon, <1>3, FS_Subset
  <1>5. Cardinality(S) \in Nat
    BY Zenon, <1>3, FS_CardinalityType
  <1>6. QED  BY <1>2, <1>3, <1>4, <1>5

LEMMA LoginsFail ==
    ASSUME SessionInv, Reported, Over, plan = "repeated_failed_login"
    PROVE  LET f == Features(observations)
           IN  2 * f.failedAuths > f.auths /\ 2 * f.burst > f.auths
  <1> DEFINE w == observations
  <1>1. Whole /\ Span(plan) = 6
    BY DEF Reported, Complete, Span
  <1>2. /\ Len(w) = 6 /\ DOMAIN w = 1..6
        /\ \A k \in 1..6 : /\ w[k].action = Actions(plan)[k]
                           /\ Explained(plan, w[k].status, Actions(plan)[k], faults > 0)
    BY Zenon, <1>1, WholeWindow
  <1> HIDE DEF w
  <1>3. ASSUME NEW k \in 2..6
        PROVE  k \in FailedAt(w)
    <2>1. k \in 1..6 /\ Actions(plan)[k] = "login"
      <3>1. \A i \in 2..6 : Actions("repeated_failed_login")[i] = "login"
        BY Zenon, ScenarioSteps
      <3>2. QED  BY <3>1
    <2>2. w[k].action = "login" /\ Explained(plan, w[k].status, "login", faults > 0)
      BY Zenon, <1>2, <2>1
    <2>3. w[k].status \in {0, 500, 401}
      <3>1. Usual(plan, "login") = 401
        BY UsualFacts
      <3>2. QED  BY <2>2, <3>1 DEF Explained
    <2>4. Failed(w[k]) /\ w[k].action \in AuthActions
      BY <2>2, <2>3 DEF Failed, AuthActions
    <2>5. QED  BY Zenon, <1>2, <2>1, <2>4 DEF FailedAt, AuthAt
  <1>4. AuthAt(w) \subseteq 1..6 /\ FailedAt(w) \subseteq 1..6 /\ 2..6 \subseteq FailedAt(w)
    BY Zenon, <1>2, <1>3 DEF AuthAt, FailedAt
  <1>5. Cardinality(FailedAt(w)) \in 5..6 /\ Cardinality(AuthAt(w)) \in 0..6
    <2>0. 6 \in Nat /\ 2 \in 1..6
      OBVIOUS
    <2>1. Cardinality(FailedAt(w)) \in (6 - 2 + 1)..6
      BY Zenon, <1>4, <2>0, AtLeast
    <2>2. Cardinality(AuthAt(w)) \in 0..6
      BY Zenon, <1>2, AuthFacts
    <2>3. QED  BY <2>1, <2>2
  <1>6. 2..6 \in FailureRuns(w) /\ Cardinality(2..6) = 5
    <2>1. \A i, k \in 2..6 : \A j \in AuthAt(w) : i < j /\ j < k => j \in 2..6
      BY <1>4
    <2>2. 2..6 \in FailureRuns(w)
      BY Zenon, <1>4, <2>1 DEF FailureRuns
    <2>3. 2 \in Int /\ 6 \in Int
      OBVIOUS
    <2>4. Cardinality(2..6) = IF 2 > 6 THEN 0 ELSE 6 - 2 + 1
      BY Zenon, <2>3, FS_Interval
    <2>5. QED  BY <2>2, <2>4
  <1>7. Burst(w) \in Nat /\ 5 <= Burst(w)
    <2>1. Len(w) \in Nat /\ DOMAIN w = 1..Len(w)
      BY <1>2
    <2>2. QED  BY Zenon, <1>6, <2>1, BurstFacts
  <1>8. /\ Features(w).failedAuths \in 5..6 /\ Features(w).auths \in 0..6
        /\ Features(w).burst \in Nat /\ 5 <= Features(w).burst
    BY Zenon, <1>5, <1>7, FeatureDefs
  <1>9. 2 * Features(w).failedAuths > Features(w).auths /\ 2 * Features(w).burst > Features(w).auths
    BY <1>8
  <1>10. QED  BY Zenon, <1>9 DEF w

LEMMA SwitchesShow ==
    ASSUME SessionInv, Reported, Over, plan = "rapid_endpoint_switching"
    PROVE  LET f == Features(observations)
           IN  f.switches = f.size - 1 /\ f.repeats = 0
  <1> DEFINE w == observations
  <1>1. Whole /\ Span(plan) = 7
    BY DEF Reported, Complete, Span
  <1>2. /\ Len(w) = 7 /\ DOMAIN w = 1..7
        /\ \A k \in 1..7 : w[k].action = Actions(plan)[k]
    BY Zenon, <1>1, WholeWindow
  <1> HIDE DEF w
  <1>3. /\ w[1].action = "register" /\ w[2].action = "list_applications"
        /\ w[3].action = "get_dashboard_summary" /\ w[4].action = "list_learnings"
        /\ w[5].action = "get_analytics_overview" /\ w[6].action = "get_calendar_events"
        /\ w[7].action = "list_companies"
    <2>1. Actions(plan)[1] = "register"
      BY ScenarioActions DEF Scenarios
    <2>2. \A i \in 2..7 : Actions(plan)[i] = ReadOnlyCycle[i - 1]
      BY ScenarioSteps
    <2>3. \A i \in 2..7 : w[i].action = ReadOnlyCycle[i - 1]
      BY <1>2, <2>2
    <2>4. w[1].action = "register"
      BY <1>2, <2>1
    <2>5. QED  BY <2>3, <2>4 DEF ReadOnlyCycle
  <1>4. \A i, j \in 1..7 : w[i].action = w[j].action => i = j
    <2>1. \A i \in 1..7 : i \in {1, 2, 3, 4, 5, 6, 7}
      OBVIOUS
    <2>2. QED  BY <1>3, <2>1
  <1>5. \A i, j \in 1..7 : Endpoint(w[i]) = Endpoint(w[j]) => i = j
    <2>1. \A i, j \in 1..7 : w[i].action \in Path(w[j].action) => w[i].action = w[j].action
      <3>1. ASSUME NEW i \in 1..7, NEW j \in 1..7, NEW actions \in SamePath,
                   w[i].action \in actions, w[j].action \in actions
            PROVE  w[i].action = w[j].action
        <4>1. \A k \in 1..7 : k \in {1, 2, 3, 4, 5, 6, 7}
          OBVIOUS
        <4>2. \A k \in 1..7 : w[k].action \in {"register", "list_applications",
                  "get_dashboard_summary", "list_learnings", "get_analytics_overview",
                  "get_calendar_events", "list_companies"}
          BY <1>3, <4>1
        <4>3. QED  BY <3>1, <4>2 DEF SamePath
      <3>2. QED  BY Zenon, <3>1 DEF Path
    <2>2. \A o, q : Endpoint(o) = Endpoint(q) => o.action \in Path(q.action)
      <3>1. \A o, q : Endpoint(o) = Endpoint(q) => Path(o.action) = Path(q.action)
        BY DEF Endpoint
      <3>2. \A action : action \in Path(action)
        BY Zenon DEF Path
      <3>3. QED  BY Zenon, <3>1, <3>2
    <2>3. QED  BY Zenon, <1>4, <2>1, <2>2
  <1>6. Features(w).switches = 6
    <2> DEFINE S == {i \in 2..Len(w) : Endpoint(w[i]) # Endpoint(w[i - 1])}
    <2>1. \A i \in 2..7 : Endpoint(w[i]) # Endpoint(w[i - 1])
      <3>1. \A i \in 2..7 : i \in 1..7 /\ i - 1 \in 1..7 /\ i # i - 1
        OBVIOUS
      <3>2. QED  BY Zenon, <1>5, <3>1
    <2>2. S = 2..7
      BY Zenon, <1>2, <2>1
    <2>3. Features(w).switches = Cardinality(S)
      BY DEF Features
    <2> HIDE DEF S
    <2>4. 2 \in Int /\ 7 \in Int
      OBVIOUS
    <2>5. Cardinality(2..7) = IF 2 > 7 THEN 0 ELSE 7 - 2 + 1
      BY Zenon, <2>4, FS_Interval
    <2>6. QED  BY <2>2, <2>3, <2>5
  <1>7. Features(w).repeats = 0
    <2> DEFINE S == {i \in DOMAIN w : \E j \in 1..(i - 1) : Endpoint(w[j]) = Endpoint(w[i])}
    <2>1. \A i \in 1..7 : \A j \in 1..(i - 1) : j \in 1..7 /\ j # i
      OBVIOUS
    <2>2. S = {}
      BY Zenon, <1>2, <1>5, <2>1
    <2>3. Features(w).repeats = Cardinality(S)
      BY DEF Features
    <2> HIDE DEF S
    <2>4. QED  BY Zenon, <2>2, <2>3, FS_EmptySet
  <1>9. Features(w).switches = 6 /\ Features(w).repeats = 0 /\ Features(w).size = 7
    BY Zenon, <1>2, <1>6, <1>7, FeatureDefs
  <1>10. Features(w).switches = Features(w).size - 1 /\ Features(w).repeats = 0
    BY <1>9
  <1>11. QED  BY Zenon, <1>10 DEF w

(* In a session that nothing disturbs, every answer is the usual one.      *)
LEMMA UsualAnswers ==
    ASSUME SessionInv, Reported, faults = 0, expiries < 2
    PROVE  \A k \in DOMAIN observations :
              observations[k].status = Usual(plan, observations[k].action)
  <1>1. plan \in Plans /\ expiries \in Nat /\ observations \in Seq(Observation)
    BY Assumption DEF SessionInv, TypeOK
  <1>2. \A k \in DOMAIN observations :
           \/ observations[k].status = 401 /\ observations[k].action # "register"
           \/ observations[k].status = Usual(plan, observations[k].action)
    <2>1. ~(faults > 0)
      OBVIOUS
    <2>2. QED  BY Zenon, <2>1 DEF Reported, Answered, Explained
  <1>3. ~lockedOut
    <2>1. ~(faults > 0)
      OBVIOUS
    <2>2. QED  BY Zenon, <2>1 DEF Reported, Answered
  <1>4. observations # <<>> => Success(observations[1].status)
    <2> SUFFICES ASSUME observations # <<>>
                 PROVE  Success(observations[1].status)
      OBVIOUS
    <2>1. 1 \in DOMAIN observations
      BY <1>1
    <2>2. LabelledAs(plan, observations[1]) /\ observations[1].step = 1
      BY Zenon, <2>1 DEF Reported, Labelled, Complete
    <2>3. observations[1].action = "register"
      <3>1. Actions(plan)[1] = "register"
        BY <1>1, PlanFacts
      <3>2. QED  BY Zenon, <2>2, <3>1 DEF LabelledAs
    <2>4. observations[1].status = Usual(plan, "register")
      BY Zenon, <1>2, <2>1, <2>3
    <2>5. Usual(plan, "register") = 201
      BY UsualFacts
    <2>6. QED  BY <2>4, <2>5 DEF Success
  <1>5. Refused = {}
    <2> SUFFICES ASSUME Refused # {}
                 PROVE  FALSE
      BY Zenon
    <2>1. observations # <<>>
      BY <1>1 DEF Refused
    <2>2. Cardinality(Refused) < faults + expiries
      BY Zenon, <1>3, <1>4, <2>1, RefusalsCounted DEF UnauthorizedHasACause, Refused
    <2>3. IsFiniteSet(Refused) /\ Cardinality(Refused) \in Nat
      BY Zenon, RefusedFacts DEF SessionInv
    <2>4. Cardinality(Refused) # 0
      BY Zenon, <2>3, FS_EmptySet
    <2>5. PICK d \in Nat : d = Cardinality(Refused)
      BY Zenon, <2>3
    <2>6. d < faults + expiries /\ d # 0
      BY Zenon, <2>2, <2>4, <2>5
    <2>7. QED  BY <1>1, <2>6
  <1>6. ASSUME NEW k \in DOMAIN observations
        PROVE  observations[k].status = Usual(plan, observations[k].action)
    <2>1. CASE observations[k].action = "login"
      <3>1. Usual(plan, "login") = 401
        BY UsualFacts
      <3>2. QED  BY Zenon, <1>2, <2>1, <3>1
    <2>2. CASE observations[k].action # "login"
      BY Zenon, <1>2, <1>5, <2>2 DEF Refused
    <2>3. QED  BY Zenon, <2>1, <2>2
  <1>7. QED  BY <1>6

LEMMA ProbesShow ==
    ASSUME SessionInv, Reported, Over, faults = 0, expiries < 2
    PROVE  LET f == Features(observations)
           IN  /\ plan = "malformed_payload_probe" => 2 * f.rejected > f.size
               /\ plan = "invalid_resource_probe" => 2 * f.invalid > f.size
  <1> DEFINE w == observations
  <1> SUFFICES ASSUME plan \in {"malformed_payload_probe", "invalid_resource_probe"}
               PROVE  /\ plan = "malformed_payload_probe" =>
                            2 * Features(w).rejected > Features(w).size
                      /\ plan = "invalid_resource_probe" =>
                            2 * Features(w).invalid > Features(w).size
    BY Zenon
  <1>1. Whole /\ Span(plan) = 6
    BY DEF Reported, Complete, Span
  <1>2. /\ Len(w) = 6 /\ DOMAIN w = 1..6
        /\ \A k \in 1..6 : w[k].action = Actions(plan)[k] /\ LabelledAs(plan, w[k])
    BY Zenon, <1>1, WholeWindow
  <1>3. \A k \in 1..6 : w[k].status = Usual(plan, w[k].action)
    BY Zenon, <1>2, UsualAnswers
  <1>4. Features(w).size = 6
    BY Zenon, <1>2, FeatureDefs
  <1> HIDE DEF w
  <1>5. \A k \in 2..6 : k \in 1..6
    OBVIOUS
  <1>6. CASE plan = "malformed_payload_probe"
    <2> DEFINE S == {i \in DOMAIN w : ~w[i].valid}
    <2>1. \A k \in 2..6 : Actions(plan)[k] = "create_application"
      BY <1>6, ScenarioSteps
    <2>2. Usual(plan, "create_application") = 400
      BY <1>6, MakesFacts, UsualFacts
    <2>3. \A k \in 2..6 : w[k].status = 400
      <3>1. ASSUME NEW k \in 2..6
            PROVE  w[k].status = 400
        <4>1. k \in 1..6 /\ Actions(plan)[k] = "create_application"
          BY <1>5, <2>1
        <4>2. w[k].status = Usual(plan, w[k].action) /\ w[k].action = Actions(plan)[k]
          BY Zenon, <1>2, <1>3, <4>1
        <4>3. w[k].action = "create_application"
          BY <4>1, <4>2
        <4>4. Usual(plan, w[k].action) = Usual(plan, "create_application")
          BY Zenon, <4>3
        <4>5. QED  BY <2>2, <4>2, <4>4
      <3>2. QED  BY <3>1
    <2>4. \A k \in 2..6 : ~w[k].valid
      <3>1. ASSUME NEW k \in 2..6
            PROVE  ~w[k].valid
        <4>1. w[k].valid = (w[k].status # 400) /\ w[k].status = 400
          BY Zenon, <1>2, <1>5, <2>3 DEF LabelledAs
        <4>2. QED  BY <4>1
      <3>2. QED  BY <3>1
    <2>5. S \subseteq 1..6 /\ 2..6 \subseteq S /\ 6 \in Nat /\ 2 \in 1..6
      <3>1. S \subseteq 1..6 /\ 2..6 \subseteq S
        BY Zenon, <1>2, <1>5, <2>4
      <3>2. QED  BY <3>1
    <2>6. Features(w).rejected = Cardinality(S)
      BY DEF Features
    <2> HIDE DEF S
    <2>7. Cardinality(S) \in (6 - 2 + 1)..6
      BY Zenon, <2>5, AtLeast
    <2>8. 2 * Features(w).rejected > Features(w).size
      BY <1>4, <2>6, <2>7
    <2>9. QED  BY <1>6, <2>8
  <1>7. CASE plan = "invalid_resource_probe"
    <2> DEFINE S == {i \in DOMAIN w : w[i].status = 404}
    <2>1. \A k \in 2..6 : Actions(plan)[k] = "get_application"
      BY <1>7, ScenarioSteps
    <2>2. Usual(plan, "get_application") = 404
      BY UsualFacts
    <2>3. \A k \in 2..6 : w[k].status = 404
      <3>1. ASSUME NEW k \in 2..6
            PROVE  w[k].status = 404
        <4>1. k \in 1..6 /\ Actions(plan)[k] = "get_application"
          BY <1>5, <2>1
        <4>2. w[k].status = Usual(plan, w[k].action) /\ w[k].action = Actions(plan)[k]
          BY Zenon, <1>2, <1>3, <4>1
        <4>3. w[k].action = "get_application"
          BY <4>1, <4>2
        <4>4. Usual(plan, w[k].action) = Usual(plan, "get_application")
          BY Zenon, <4>3
        <4>5. QED  BY <2>2, <4>2, <4>4
      <3>2. QED  BY <3>1
    <2>5. S \subseteq 1..6 /\ 2..6 \subseteq S /\ 6 \in Nat /\ 2 \in 1..6
      <3>1. S \subseteq 1..6 /\ 2..6 \subseteq S
        BY Zenon, <1>2, <1>5, <2>3
      <3>2. QED  BY <3>1
    <2>6. Features(w).invalid = Cardinality(S)
      BY DEF Features
    <2> HIDE DEF S
    <2>7. Cardinality(S) \in (6 - 2 + 1)..6
      BY Zenon, <2>5, AtLeast
    <2>8. 2 * Features(w).invalid > Features(w).size
      BY <1>4, <2>6, <2>7
    <2>9. QED  BY <1>7, <2>8
  <1>8. QED  BY <1>6, <1>7

LEMMA WorkflowShowsNothing ==
    ASSUME SessionInv, Reported, Over, faults = 0, expiries < 2, plan = "normal"
    PROVE  LET f == Features(observations)
           IN  /\ f.size = Len(Normal)
               /\ f.failedAuths + f.rejected + f.invalid + f.errors = 0
  <1> DEFINE w == observations
  <1>1. plan \in Plans /\ Actions(plan) = Normal /\ Span(plan) = 9
    BY PlanFacts DEF Plans, Span
  <1>2. \A k \in DOMAIN w : w[k].status = Usual(plan, w[k].action)
    BY Zenon, UsualAnswers
  <1>3. \A i \in 1..9 : Usual(plan, Normal[i]) \in {200, 201}
    <2>1. ASSUME NEW i \in 1..9
          PROVE  Usual(plan, Normal[i]) \in {200, 201}
      <3>1. i \in {1, 2, 3, 4, 5, 6, 7, 8, 9}
        OBVIOUS
      <3>2. Normal[i] # "login" /\ Normal[i] # "get_application"
        BY SMT, <3>1, NormalFacts
      <3>3. plan # "malformed_payload_probe"
        OBVIOUS
      <3>4. QED  BY <3>2, <3>3, UsualFacts
    <2>2. QED  BY <2>1
  <1>4. Whole
    <2> SUFFICES ASSUME Troubled
                 PROVE  FALSE
      BY Zenon DEF Reported, Complete
    <2>1. PICK k \in DOMAIN w : w[k].status \in {0, 401, 500}
      BY Zenon DEF Troubled
    <2>2. w[k].action = Normal[w[k].step] /\ w[k].step \in 1..9
      <3>1. LabelledAs(plan, w[k])
        BY Zenon DEF Reported, Labelled
      <3>2. w[k] \in Observation
        BY DEF SessionInv, TypeOK
      <3>3. w[k].step \in Steps
        BY <3>2 DEF Observation
      <3>4. QED  BY Zenon, <1>1, <3>1, <3>3 DEF LabelledAs, Steps
    <2>3. w[k].status = Usual(plan, w[k].action)
      BY Zenon, <1>2, <2>1
    <2>4. Usual(plan, w[k].action) \in {200, 201}
      <3>1. Usual(plan, w[k].action) = Usual(plan, Normal[w[k].step])
        BY Zenon, <2>2
      <3>2. Usual(plan, Normal[w[k].step]) \in {200, 201}
        BY Zenon, <1>3, <2>2
      <3>3. QED  BY <3>1, <3>2
    <2>5. QED  BY <2>1, <2>3, <2>4
  <1>5. /\ Len(w) = 9 /\ DOMAIN w = 1..9
        /\ \A k \in 1..9 : w[k].action = Normal[k] /\ LabelledAs(plan, w[k])
    BY Zenon, <1>1, <1>4, WholeWindow
  <1> HIDE DEF w
  <1>6. \A k \in 1..9 : w[k].status \in {200, 201} /\ w[k].valid
    <2>1. ASSUME NEW k \in 1..9
          PROVE  w[k].status \in {200, 201} /\ w[k].valid
      <3>1. w[k].status = Usual(plan, w[k].action) /\ w[k].action = Normal[k]
        BY Zenon, <1>2, <1>5
      <3>2. Usual(plan, w[k].action) \in {200, 201}
        <4>1. Usual(plan, w[k].action) = Usual(plan, Normal[k])
          BY Zenon, <3>1
        <4>2. Usual(plan, Normal[k]) \in {200, 201}
          BY Zenon, <1>3
        <4>3. QED  BY <4>1, <4>2
      <3>3. w[k].status \in {200, 201}
        BY <3>1, <3>2
      <3>4. w[k].status # 400
        BY <3>3
      <3>5. w[k].valid
        <4>1. w[k].valid = (w[k].status # 400)
          BY <1>5 DEF LabelledAs
        <4>2. QED  BY <3>4, <4>1
      <3>6. QED  BY <3>3, <3>5
    <2>2. QED  BY <2>1
  <1>7. FailedAt(w) = {}
    <2>1. \A k \in DOMAIN w : ~Failed(w[k])
      BY <1>5, <1>6 DEF Failed
    <2>2. QED  BY Zenon, <2>1 DEF FailedAt, AuthAt
  <1>8. \A k \in DOMAIN w : /\ w[k].valid /\ ~(w[k].status = 404)
                            /\ ~(w[k].status = 0 \/ w[k].status >= 500)
    BY <1>5, <1>6
  <1>9. /\ Features(w).failedAuths = 0 /\ Features(w).rejected = 0
        /\ Features(w).invalid = 0 /\ Features(w).errors = 0 /\ Features(w).size = 9
    <2> DEFINE Rejected == {i \in DOMAIN w : ~w[i].valid}
               Invalid  == {i \in DOMAIN w : w[i].status = 404}
               Erred    == {i \in DOMAIN w : w[i].status = 0 \/ w[i].status >= 500}
    <2>1. Rejected = {}
      BY Zenon, <1>8
    <2>2. Invalid = {}
      <3>1. \A i \in DOMAIN w : w[i].status # 404
        BY <1>5, <1>6
      <3>2. QED  BY <3>1
    <2>3. Erred = {}
      BY Zenon, <1>8
    <2>4. Features(w).rejected = Cardinality(Rejected)
      BY DEF Features
    <2>5. Features(w).invalid = Cardinality(Invalid)
      BY DEF Features
    <2>6. Features(w).errors = Cardinality(Erred)
      BY DEF Features
    <2>7. Features(w).failedAuths = Cardinality(FailedAt(w))
      BY DEF Features
    <2>8. Features(w).size = 9
      BY Zenon, <1>5, FeatureDefs
    <2> HIDE DEF Rejected, Invalid, Erred
    <2>9. QED  BY Zenon, <1>7, <2>1, <2>2, <2>3, <2>4, <2>5, <2>6, <2>7, <2>8, FS_EmptySet
  <1>10. Features(w).failedAuths + Features(w).rejected
            + Features(w).invalid + Features(w).errors = 0
    BY <1>9
  <1>11. QED  BY Zenon, <1>9, <1>10, NormalFacts DEF w

LEMMA NothingDestroyed ==
    ASSUME TypeOK
    PROVE  Features(observations).destructive = 0
  <1> DEFINE S == {i \in DOMAIN observations : observations[i].action \in DestructiveActions}
  <1>1. \A a \in Words : a \notin DestructiveActions
    BY DEF Words, DestructiveActions
  <1>2. \A a \in Verbs : a \notin DestructiveActions
    BY Zenon, <1>1, VerbsAreWords
  <1>3. \A i \in DOMAIN observations : observations[i].action \in Verbs
    <2>1. \A i \in DOMAIN observations : observations[i] \in Observation
      BY DEF TypeOK
    <2>2. QED  BY <2>1 DEF Observation
  <1>4. S = {}
    BY Zenon, <1>2, <1>3
  <1>5. Features(observations).destructive = Cardinality(S)
    BY Zenon, FeatureDefs
  <1> HIDE DEF S
  <1>6. QED  BY Zenon, <1>4, <1>5, FS_EmptySet

(* Each scenario leaves the telemetry that its description names, whatever *)
(* is lost where it says so, and the undisturbed workflow leaves none.     *)
THEOREM TelemetryTells == Spec => []TelemetryPattern
  <1>1. SessionInv /\ Reported => TelemetryPattern
    <2> SUFFICES ASSUME SessionInv, Reported, Over
                 PROVE  TelemetryPattern
      BY Zenon DEF TelemetryPattern
    <2> DEFINE f == Features(observations)
    <2>1. plan = "repeated_failed_login" => 2 * f.failedAuths > f.auths /\ 2 * f.burst > f.auths
      BY Zenon, LoginsFail
    <2>2. plan = "rapid_endpoint_switching" => f.switches = f.size - 1 /\ f.repeats = 0
      BY Zenon, SwitchesShow
    <2>3. faults = 0 /\ expiries < 2 =>
             /\ plan = "malformed_payload_probe" => 2 * f.rejected > f.size
             /\ plan = "invalid_resource_probe" => 2 * f.invalid > f.size
      BY Zenon, ProbesShow
    <2>4. faults = 0 /\ expiries < 2 /\ plan = "normal" =>
             /\ f.size = Len(Normal)
             /\ f.failedAuths + f.rejected + f.invalid + f.errors = 0
      BY Zenon, WorkflowShowsNothing
    <2>5. f.burst <= f.failedAuths
      <3>1. Len(observations) \in Nat /\ DOMAIN observations = 1..Len(observations)
        BY DEF SessionInv, TypeOK
      <3>2. Burst(observations) <= Cardinality(FailedAt(observations))
        BY Zenon, <3>1, BurstFacts
      <3>3. f.burst = Burst(observations)
        BY DEF Features
      <3>4. f.failedAuths = Cardinality(FailedAt(observations))
        BY DEF Features
      <3>5. QED  BY Zenon, <3>2, <3>3, <3>4
    <2>6. f.destructive = 0
      BY Zenon, NothingDestroyed DEF SessionInv
    <2> HIDE DEF f
    <2>7. QED  BY Zenon, <2>1, <2>2, <2>3, <2>4, <2>5, <2>6 DEF TelemetryPattern, f
  <1>2. QED  BY <1>1, SessionInvariant, ReportIsTrue, PTL

-----------------------------------------------------------------------------
(* The split of a data set *)

LEMMA PartSizes ==
    ASSUME NEW n \in Nat
    PROVE  /\ TrainSize(n) \in Nat /\ ValSize(n) \in Nat
           /\ TrainSize(n) + ValSize(n) \in 0..n
           /\ n > 0 => TrainSize(n) + ValSize(n) < n
           /\ n >= 2 <=> TrainSize(n) > 0
           /\ n >= 5 <=> ValSize(n) > 0
  BY SMT DEF TrainSize, ValSize

(* Whatever the shuffle, every session is in one part of the split and in  *)
(* no other, so that no model is tested on a session it was trained on     *)
(* ("assert not (train_ids & test_ids)").  No data set leaves the test     *)
(* part empty; one of less than five sessions leaves the validation part   *)
(* empty, and a single session leaves nothing to train on.                 *)
THEOREM SplitIsAPartition ==
    ASSUME NEW S, NEW shuffled \in Seq(S),
           \A i, j \in DOMAIN shuffled : shuffled[i] = shuffled[j] => i = j
    PROVE  /\ Train(shuffled) \cup Val(shuffled) \cup Test(shuffled)
                 = {shuffled[i] : i \in DOMAIN shuffled}
           /\ Train(shuffled) \cap Val(shuffled) = {}
           /\ Train(shuffled) \cap Test(shuffled) = {}
           /\ Val(shuffled) \cap Test(shuffled) = {}
           /\ shuffled # <<>> <=> Test(shuffled) # {}
           /\ Len(shuffled) >= 2 <=> Train(shuffled) # {}
           /\ Len(shuffled) >= 5 <=> Val(shuffled) # {}
  <1> DEFINE n == Len(shuffled)
             t == TrainSize(n)
             v == ValSize(n)
  <1>1. n \in Nat /\ DOMAIN shuffled = 1..n /\ (shuffled # <<>> <=> n > 0)
    BY SMT
  <1>2. /\ Train(shuffled) = {shuffled[i] : i \in 1..t}
        /\ Val(shuffled) = {shuffled[i] : i \in (t + 1)..(t + v)}
        /\ Test(shuffled) = {shuffled[i] : i \in (t + v + 1)..n}
    BY Zenon DEF Train, Val, Test
  <1>3. /\ t \in Nat /\ v \in Nat /\ t + v \in 0..n /\ (n > 0 => t + v < n)
        /\ n >= 2 <=> t > 0
        /\ n >= 5 <=> v > 0
    <2> HIDE DEF n
    <2>1. n \in Nat
      BY <1>1
    <2>2. QED  BY Zenon, <2>1, PartSizes
  <1> HIDE DEF n, t, v
  <1>4. /\ 1..t \subseteq 1..n /\ (t + 1)..(t + v) \subseteq 1..n /\ (t + v + 1)..n \subseteq 1..n
        /\ \A i \in 1..n : i \in 1..t \/ i \in (t + 1)..(t + v) \/ i \in (t + v + 1)..n
    BY <1>1, <1>3
  <1>5. /\ \A i \in 1..t : i \notin (t + 1)..(t + v) /\ i \notin (t + v + 1)..n
        /\ \A i \in (t + 1)..(t + v) : i \notin (t + v + 1)..n
    BY <1>1, <1>3
  <1>6. /\ n > 0 <=> (t + v + 1)..n # {}
        /\ n >= 2 <=> 1..t # {}
        /\ n >= 5 <=> (t + 1)..(t + v) # {}
    <2>1. \A a, b \in Int : a..b # {} <=> a <= b
      <3>1. ASSUME NEW a \in Int, NEW b \in Int
            PROVE  a..b # {} <=> a <= b
        <4>1. a <= b => a \in a..b
          OBVIOUS
        <4>2. a..b # {} => a <= b
          <5>1. ASSUME NEW i \in a..b
                PROVE  a <= b
            OBVIOUS
          <5>2. QED  BY <5>1
        <4>3. a <= b => a..b # {}
          BY Zenon, <4>1
        <4>4. QED  BY Zenon, <4>2, <4>3
      <3>2. QED  BY <3>1
    <2>2. /\ t + v + 1 \in Int /\ n \in Int /\ 1 \in Int /\ t \in Int
          /\ t + 1 \in Int /\ t + v \in Int
      BY <1>1, <1>3
    <2>3. /\ (t + v + 1)..n # {} <=> t + v + 1 <= n
          /\ 1..t # {} <=> 1 <= t
          /\ (t + 1)..(t + v) # {} <=> t + 1 <= t + v
      BY Zenon, <2>1, <2>2
    <2>4. /\ n > 0 <=> t + v + 1 <= n
          /\ n >= 2 <=> 1 <= t
          /\ n >= 5 <=> t + 1 <= t + v
      BY <1>1, <1>3
    <2>5. QED  BY Zenon, <2>3, <2>4
  <1> DEFINE A == 1..t
             B == (t + 1)..(t + v)
             C == (t + v + 1)..n
  <1> HIDE DEF A, B, C
  <1>7. Train(shuffled) \cup Val(shuffled) \cup Test(shuffled)
           = {shuffled[i] : i \in DOMAIN shuffled}
    <2>1. A \cup B \cup C = DOMAIN shuffled
      BY <1>1, <1>4 DEF A, B, C
    <2>2. QED  BY Zenon, <1>2, <2>1 DEF A, B, C
  <1>8. /\ \A i \in A, j \in B : i # j
        /\ \A i \in A, j \in C : i # j
        /\ \A i \in B, j \in C : i # j
        /\ A \subseteq DOMAIN shuffled /\ B \subseteq DOMAIN shuffled /\ C \subseteq DOMAIN shuffled
    BY Zenon, <1>1, <1>4, <1>5 DEF A, B, C
  <1>9. /\ Train(shuffled) = {shuffled[i] : i \in A}
        /\ Val(shuffled) = {shuffled[i] : i \in B}
        /\ Test(shuffled) = {shuffled[i] : i \in C}
    BY Zenon, <1>2 DEF A, B, C
  <1>10. Train(shuffled) \cap Val(shuffled) = {}
    BY Zenon, <1>8, <1>9
  <1>11. Train(shuffled) \cap Test(shuffled) = {}
    BY Zenon, <1>8, <1>9
  <1>12. Val(shuffled) \cap Test(shuffled) = {}
    BY Zenon, <1>8, <1>9
  <1>13. shuffled # <<>> <=> Test(shuffled) # {}
    <2>1. n > 0 <=> C # {}
      BY <1>6 DEF C
    <2>2. Test(shuffled) # {} <=> C # {}
      BY <1>9
    <2>3. QED  BY <1>1, <2>1, <2>2
  <1>14. n >= 2 <=> Train(shuffled) # {}
    <2>1. n >= 2 <=> A # {}
      BY <1>6 DEF A
    <2>2. Train(shuffled) # {} <=> A # {}
      BY <1>9
    <2>3. QED  BY <2>1, <2>2
  <1>15. n >= 5 <=> Val(shuffled) # {}
    <2>1. n >= 5 <=> B # {}
      BY <1>6 DEF B
    <2>2. Val(shuffled) # {} <=> B # {}
      BY <1>9
    <2>3. QED  BY <2>1, <2>2
  <1>16. QED
    BY Zenon, <1>7, <1>10, <1>11, <1>12, <1>13, <1>14, <1>15 DEF n
=============================================================================
