---------------------------- MODULE LauncherProofs ----------------------------
(***************************************************************************)
(* Proofs about the launcher, for every list of worker modules and every   *)
(* number of polls, signals and deaths.                                    *)
(***************************************************************************)
EXTENDS Launcher, SequenceTheorems, TLAPS
-----------------------------------------------------------------------------
(* Sequences without repetition *)

(* A sequence is a function whose range is what it holds. *)
Spans(s) == /\ DOMAIN s = 1..Len(s) /\ Len(s) \in Nat
            /\ \A x : x \in Range(s) <=> \E n \in 1..Len(s) : s[n] = x

LEMMA SpansAll ==
    ASSUME NEW S, NEW s \in Seq(S)
    PROVE  Spans(s) /\ Range(s) \subseteq S /\ (s = << >> <=> Len(s) = 0)
<1>1. Len(s) \in Nat /\ DOMAIN s = 1..Len(s) /\ \A n \in 1..Len(s) : s[n] \in S
  BY LenProperties, ElementOfSeq
<1>2. Spans(s)
  BY <1>1 DEF Range, Spans
<1>3. s = << >> <=> Len(s) = 0
  BY <1>1
<1>4. Range(s) \subseteq S
  BY <1>1 DEF Range
<1> QED
  BY <1>2, <1>3, <1>4

LEMMA AppendNew ==
    ASSUME NEW S, NEW s \in Seq(S), IsInjective(s), NEW x \in S, x \notin Range(s)
    PROVE  /\ Append(s, x) \in Seq(S) /\ Len(Append(s, x)) = Len(s) + 1
           /\ IsInjective(Append(s, x)) /\ Range(Append(s, x)) = Range(s) \cup {x}
           /\ \A n \in 1..Len(s) : Append(s, x)[n] = s[n]
<1> DEFINE t == Append(s, x)
<1>1. /\ t \in Seq(S) /\ Len(t) = Len(s) + 1 /\ Len(s) \in Nat
      /\ \A n \in 1..Len(s) : t[n] = s[n]
      /\ t[Len(s) + 1] = x
  BY LenProperties
<1>2. /\ Spans(s)
      /\ Spans(t)
  BY <1>1, SpansAll
<1> HIDE DEF t
<1>3. IsInjective(t)
  <2> SUFFICES ASSUME NEW a \in 1..Len(t), NEW b \in 1..Len(t), t[a] = t[b]
               PROVE  a = b
    BY <1>2 DEF Spans, IsInjective
  <2>1. ASSUME NEW n \in 1..Len(s) PROVE t[n] \in Range(s) /\ t[n] # x
    BY <1>1, <1>2 DEF Spans
  <2>2. a \in 1..Len(s) \/ a = Len(s) + 1
    BY <1>1
  <2>3. b \in 1..Len(s) \/ b = Len(s) + 1
    BY <1>1
  <2>4. CASE a \in 1..Len(s) /\ b \in 1..Len(s)
    BY <1>1, <1>2, <2>4 DEF Spans, IsInjective
  <2> QED
    BY <1>1, <2>1, <2>2, <2>3, <2>4
<1>4. Range(t) = Range(s) \cup {x}
  <2>1. 1..Len(t) = (1..Len(s)) \cup {Len(s) + 1}
    BY <1>1
  <2> QED
    BY <1>1, <1>2, <2>1 DEF Spans
<1> QED
  BY <1>1, <1>3, <1>4 DEF t

LEMMA TailRest ==
    ASSUME NEW S, NEW s \in Seq(S), IsInjective(s), s # << >>
    PROVE  /\ Head(s) \in S /\ Head(s) \in Range(s) /\ Head(s) = s[1] /\ 1 \in 1..Len(s)
           /\ Tail(s) \in Seq(S) /\ IsInjective(Tail(s)) /\ Len(Tail(s)) = Len(s) - 1
           /\ Range(Tail(s)) = Range(s) \ {Head(s)}
           /\ \A n \in 1..Len(Tail(s)) : Tail(s)[n] = s[n + 1] /\ n + 1 \in 1..Len(s)
<1> DEFINE t == Tail(s)
<1>1. /\ Head(s) \in S /\ t \in Seq(S) /\ Len(t) = Len(s) - 1 /\ Head(s) = s[1]
      /\ \A n \in 1..Len(t) : t[n] = s[n + 1]
  BY HeadTailProperties
<1>2. /\ Spans(s)
      /\ Spans(t)
      /\ Len(s) \in Nat /\ Len(s) # 0
  <2>1. Spans(s) /\ Spans(t) /\ Len(s) # 0
    BY <1>1, SpansAll
  <2> QED
    BY <2>1 DEF Spans
<1> HIDE DEF t
<1>3. \A n \in 1..Len(t) : n + 1 \in 1..Len(s)
  BY <1>1, <1>2 DEF Spans
<1>4. IsInjective(t)
  <2> SUFFICES ASSUME NEW a \in 1..Len(t), NEW b \in 1..Len(t), t[a] = t[b]
               PROVE  a = b
    BY <1>2 DEF Spans, IsInjective
  <2>1. s[a + 1] = s[b + 1] /\ a + 1 \in DOMAIN s /\ b + 1 \in DOMAIN s
    BY <1>1, <1>2, <1>3 DEF Spans
  <2>2. a + 1 = b + 1
    BY <2>1 DEF IsInjective
  <2> QED
    BY <2>2
<1>5. Range(t) = Range(s) \ {Head(s)}
  <2>1. ASSUME NEW x \in Range(t) PROVE x \in Range(s) /\ x # Head(s)
    <3>1. PICK n \in 1..Len(t) : x = s[n + 1]
      BY <1>1, <1>2 DEF Spans
    <3>2. n + 1 # 1 /\ n + 1 \in 1..Len(s) /\ 1 \in 1..Len(s)
      BY <1>2, <1>3 DEF Spans
    <3>3. s[n + 1] # s[1]
      BY <1>2, <3>2 DEF Spans, IsInjective
    <3> QED
      BY <1>1, <1>2, <3>1, <3>2, <3>3 DEF Spans
  <2>2. ASSUME NEW x \in Range(s), x # Head(s) PROVE x \in Range(t)
    <3>1. PICK n \in 1..Len(s) : x = s[n]
      BY <1>2 DEF Spans
    <3>2. n # 1
      BY <1>1, <2>2, <3>1
    <3>3. PICK k \in 1..Len(t) : k + 1 = n
      <4>1. n - 1 \in 1..Len(t) /\ (n - 1) + 1 = n
        BY <1>1, <1>2, <3>1, <3>2 DEF Spans
      <4> QED
        BY <4>1
    <3> QED
      BY <1>1, <1>2, <3>1, <3>3 DEF Spans
  <2> QED
    BY <2>1, <2>2
<1> QED
  BY <1>1, <1>2, <1>3, <1>4, <1>5 DEF Spans, t

LEMMA ConcatNew ==
    ASSUME NEW S, NEW s \in Seq(S), NEW t \in Seq(S), IsInjective(s), IsInjective(t),
           Range(s) \cap Range(t) = {}
    PROVE  /\ s \o t \in Seq(S) /\ IsInjective(s \o t)
           /\ Range(s \o t) = Range(s) \cup Range(t)
           /\ Len(s \o t) = Len(s) + Len(t)
           /\ \A n \in 1..Len(s \o t) : \/ n \in 1..Len(s) /\ (s \o t)[n] = s[n]
                                        \/ n - Len(s) \in 1..Len(t) /\ (s \o t)[n] = t[n - Len(s)]
<1> DEFINE u == s \o t
<1>1. /\ u \in Seq(S) /\ Len(u) = Len(s) + Len(t)
      /\ \A n \in 1..(Len(s) + Len(t)) : u[n] = IF n <= Len(s) THEN s[n] ELSE t[n - Len(s)]
  BY ConcatProperties
<1>2. /\ Spans(s)
      /\ Spans(t)
      /\ Spans(u)
  BY <1>1, SpansAll
<1> HIDE DEF u
<1>3. \A n \in 1..Len(u) : \/ n \in 1..Len(s) /\ u[n] = s[n]
                           \/ n - Len(s) \in 1..Len(t) /\ u[n] = t[n - Len(s)]
  BY <1>1, <1>2 DEF Spans
<1>4. IsInjective(u)
  <2> SUFFICES ASSUME NEW a \in 1..Len(u), NEW b \in 1..Len(u), u[a] = u[b]
               PROVE  a = b
    BY <1>2 DEF Spans, IsInjective
  <2>1. CASE a \in 1..Len(s) /\ b \in 1..Len(s) /\ u[a] = s[a] /\ u[b] = s[b]
    BY <1>2, <2>1 DEF Spans, IsInjective
  <2>2. CASE /\ a - Len(s) \in 1..Len(t) /\ b - Len(s) \in 1..Len(t)
             /\ u[a] = t[a - Len(s)] /\ u[b] = t[b - Len(s)]
    <3>1. a - Len(s) = b - Len(s)
      BY <1>2, <2>2 DEF Spans, IsInjective
    <3> QED
      BY <1>2, <3>1 DEF Spans
  <2>3. CASE u[a] \in Range(s) /\ u[b] \in Range(t)
    BY <2>3
  <2>4. CASE u[b] \in Range(s) /\ u[a] \in Range(t)
    BY <2>4
  <2> QED
    BY <1>2, <1>3, <2>1, <2>2, <2>3, <2>4 DEF Spans
<1>5. Range(u) \subseteq Range(s) \cup Range(t)
  BY <1>2, <1>3 DEF Spans
<1>6. ASSUME NEW x \in Range(s) PROVE x \in Range(u)
  <2>1. PICK n \in 1..Len(s) : x = s[n]
    BY <1>2 DEF Spans
  <2>2. n \in 1..Len(u) /\ u[n] = s[n]
    BY <1>1, <1>2 DEF Spans
  <2> QED
    BY <1>2, <2>1, <2>2 DEF Spans
<1>7. ASSUME NEW x \in Range(t) PROVE x \in Range(u)
  <2>1. PICK n \in 1..Len(t) : x = t[n]
    BY <1>2 DEF Spans
  <2>2. PICK k \in 1..Len(u) : u[k] = t[n]
    <3>1. /\ n + Len(s) \in 1..Len(u) /\ (n + Len(s)) - Len(s) = n
          /\ ~(n + Len(s) <= Len(s))
      BY <1>1, <1>2 DEF Spans
    <3> QED
      BY <1>1, <3>1
  <2> QED
    BY <1>2, <2>1, <2>2 DEF Spans
<1> QED
  BY <1>1, <1>3, <1>4, <1>5, <1>6, <1>7 DEF u

LEMMA Single ==
    ASSUME NEW S, NEW x \in S
    PROVE  /\ <<x>> \in Seq(S) /\ IsInjective(<<x>>) /\ Range(<<x>>) = {x}
           /\ Len(<<x>>) = 1 /\ <<x>>[1] = x
<1>1. <<x>> \in Seq(S) /\ Len(<<x>>) = 1 /\ <<x>>[1] = x
  OBVIOUS
<1>2. DOMAIN <<x>> = 1..1 /\ Range(<<x>>) = {x}
  BY <1>1 DEF Range
<1>3. \A n \in 1..1 : n = 1
  OBVIOUS
<1> QED
  BY <1>1, <1>2, <1>3 DEF IsInjective
-----------------------------------------------------------------------------
(* What is still to be started is neither running nor registered, and      *)
(* Redis, if it is to be started, is the first child of all.               *)
Ordered ==
    /\ IsInjective(todo)
    /\ \A c \in Range(todo) : child[c] = "absent"
    /\ \A n \in 1..Len(todo) : todo[n] = "redis" =>
          n = 1 /\ at \in {"spawning", "ended"} /\ fresh = NoChild /\ processes = << >> /\ ~setup.url
    /\ fresh = "redis" => at \in {"spawning", "ended"} /\ processes = << >> /\ ~setup.url
    /\ at = "redis" => fresh = NoChild /\ processes = << >>
    /\ at = "polling" => fresh = NoChild /\ processes = <<"redis">> /\ ~setup.url
    /\ "frontend" \in Range(todo) => setup.mode \in {"all", "frontend"}

(* The innermost shutdown() has seen the end of the children it waited for. *)
Cleared ==
    InPhase("wait") => \A n \in 1..Len(processes) : n < This => child[processes[n]] = "dead"

(* An exit says what it left behind. *)
Explained ==
    /\ exit = "0" => \A c \in Range(processes) : child[c] = "dead"
    /\ exit = "1" => ~setup.url \/ \A c \in Children : child[c] = "absent"
    /\ exit = "1" => \A c \in Children : child[c] # "absent" => c = "redis"
    /\ exit = "raised" => setup.mode \in {"all", "frontend"} /\ ~setup.npm

LauncherInv == TypeOK /\ Ordered /\ Cleared /\ Explained

LEMMA NoneIsNoChild == NoChild \notin Children
BY LauncherAssumption DEF NoChild, Children

(* What main() has to start: each child once, and no Redis yet. *)
LEMMA ServicesApart ==
    ASSUME NEW mode \in Modes
    PROVE  /\ Services(mode) \in Seq(Children) /\ IsInjective(Services(mode))
           /\ "redis" \notin Range(Services(mode))
           /\ "frontend" \in Range(Services(mode)) => mode \in {"all", "frontend"}
<1>1. WorkerModules \in Seq(Range(WorkerModules))
  BY LauncherAssumption, LenProperties DEF Range
<1>2. WorkerModules \in Seq(Children) /\ IsInjective(WorkerModules)
  BY <1>1, LauncherAssumption, SeqMonotonic DEF Children
<1>3. /\ "redis" \notin Range(WorkerModules) /\ "api-backend" \notin Range(WorkerModules)
      /\ "frontend" \notin Range(WorkerModules)
  BY LauncherAssumption
<1>4. /\ <<"api-backend">> \in Seq(Children) /\ IsInjective(<<"api-backend">>)
      /\ Range(<<"api-backend">>) = {"api-backend"}
  BY Single DEF Children
<1>5. /\ <<"frontend">> \in Seq(Children) /\ IsInjective(<<"frontend">>)
      /\ Range(<<"frontend">>) = {"frontend"}
  BY Single DEF Children
<1>6. /\ <<"api-backend", "frontend">> \in Seq(Children)
      /\ IsInjective(<<"api-backend", "frontend">>)
      /\ Range(<<"api-backend", "frontend">>) = {"api-backend", "frontend"}
  BY DEF Children, IsInjective, Range
<1> DEFINE After(t) == WorkerModules \o t
<1>7. ASSUME NEW t \in Seq(Children), IsInjective(t), Range(WorkerModules) \cap Range(t) = {}
      PROVE  /\ After(t) \in Seq(Children) /\ IsInjective(After(t))
             /\ Range(After(t)) = Range(WorkerModules) \cup Range(t)
  BY <1>2, <1>7, ConcatNew
<1> HIDE DEF After
<1>9. mode = "workers" \/ mode = "backend" \/ mode = "frontend" \/ mode = "all"
  BY DEF Modes
<1>10. CASE mode = "workers"
  BY <1>2, <1>3, <1>10 DEF Services
<1>11. CASE mode = "backend"
  <2>1. Range(WorkerModules) \cap Range(<<"api-backend">>) = {}
    BY <1>3, <1>4
  <2>2. Services(mode) = After(<<"api-backend">>)
    BY <1>11 DEF Services, After
  <2> DEFINE t == <<"api-backend">>
  <2>3. t \in Seq(Children) /\ IsInjective(t) /\ Range(t) = {"api-backend"}
    BY <1>4
  <2>4. Range(WorkerModules) \cap Range(t) = {} /\ Services(mode) = After(t)
    BY <2>1, <2>2
  <2> HIDE DEF t
  <2>5. /\ After(t) \in Seq(Children) /\ IsInjective(After(t))
        /\ Range(After(t)) = Range(WorkerModules) \cup Range(t)
    BY <1>7, <2>3, <2>4
  <2> QED
    BY <1>3, <1>11, <2>3, <2>4, <2>5
<1>12. CASE mode = "frontend"
  BY <1>5, <1>12 DEF Services
<1>13. CASE mode = "all"
  <2>1. Range(WorkerModules) \cap Range(<<"api-backend", "frontend">>) = {}
    BY <1>3, <1>6
  <2>2. Services(mode) = After(<<"api-backend", "frontend">>)
    BY <1>13 DEF Services, After
  <2> DEFINE t == <<"api-backend", "frontend">>
  <2>3. t \in Seq(Children) /\ IsInjective(t) /\ Range(t) = {"api-backend", "frontend"}
    BY <1>6
  <2>4. Range(WorkerModules) \cap Range(t) = {} /\ Services(mode) = After(t)
    BY <2>1, <2>2
  <2> HIDE DEF t
  <2>5. /\ After(t) \in Seq(Children) /\ IsInjective(After(t))
        /\ Range(After(t)) = Range(WorkerModules) \cup Range(t)
    BY <1>7, <2>3, <2>4
  <2> QED
    BY <1>3, <1>13, <2>3, <2>4, <2>5
<1> QED
  BY <1>9, <1>10, <1>11, <1>12, <1>13

LEMMA LauncherInit == Init => LauncherInv
<1> SUFFICES ASSUME Init
             PROVE  LauncherInv
  OBVIOUS
<1>1. setup \in Setup /\ setup.mode \in Modes
  BY DEF Init, Setup
<1>2. /\ todo \in Seq(Children) /\ IsInjective(todo) /\ "redis" \notin Range(todo)
      /\ "frontend" \in Range(todo) => setup.mode \in {"all", "frontend"}
  BY <1>1, ServicesApart DEF Init
<1>3. Spans(todo) /\ Range(todo) \subseteq Children
  BY <1>2, SpansAll
<1>4. /\ processes = << >> /\ handlers = << >> /\ Range(processes) = {} /\ Range(handlers) = {}
      /\ Len(processes) = 0 /\ Len(handlers) = 0 /\ IsInjective(processes)
      /\ processes \in Seq(Children) /\ handlers \in Seq(Handler)
  BY DEF Init, Range, IsInjective
<1>5. TypeOK
  BY <1>1, <1>2, <1>4, NoneIsNoChild, LauncherAssumption DEF Init, TypeOK
<1>6. Ordered
  BY <1>2, <1>3, <1>4 DEF Init, Ordered, Spans, NoChild
<1>7. Cleared /\ Explained
  BY <1>4 DEF Init, Cleared, Explained, InPhase, Depth
<1> QED
  BY <1>5, <1>6, <1>7 DEF LauncherInv

(* A step that starts and registers nothing keeps the order of things as   *)
(* long as main() does not fall back to an earlier place.                  *)
LEMMA OrderedKept ==
    ASSUME Ordered, todo' = todo, fresh' = fresh, processes' = processes, setup' = setup,
           \A c \in Children : child[c] = "absent" => child'[c] = "absent",
           todo \in Seq(Children),
           at' = at \/ at' = "ended" \/ (at' = "spawning" /\ at \in {"redis", "polling"})
           \/ (at' = "monitoring" /\ todo = << >> /\ fresh = NoChild)
    PROVE  Ordered'
<1>1. Spans(todo) /\ Range(todo) \subseteq Children /\ (todo = << >> => Len(todo) = 0)
  BY SpansAll
<1>2. \A n \in 1..Len(todo) : todo[n] = "redis" => at' \in {"spawning", "ended"}
  BY <1>1 DEF Ordered, Spans
<1>3. fresh = "redis" => at' \in {"spawning", "ended"}
  BY DEF Ordered, NoChild
<1> QED
  BY <1>1, <1>2, <1>3 DEF Ordered

LEMMA ExplainedKept ==
    ASSUME Explained, exit' = exit, processes' = processes, setup' = setup,
           processes \in Seq(Children),
           \A c \in Children : child[c] \in {"absent", "dead"} => child'[c] = child[c]
    PROVE  Explained'
<1>1. Range(processes) \subseteq Children
  BY SpansAll
<1> QED
  BY <1>1 DEF Explained

(* main() is only where nothing has ended. *)
LEMMA MainKeeps ==
    ASSUME LauncherInv, Main
    PROVE  LauncherInv'
<1> USE DEF LauncherInv
<1>1. /\ Running /\ handlers = << >> /\ at # "ended" /\ exit = "none"
  BY DEF Main, ReuseRedis, StartRedis, Refuse, Popen, PopenRaises, SkipFrontend, Register,
     RedisAnswers, PollAgain, RedisIsLate, Monitor, Spawning, Running, TypeOK
<1>2. /\ todo \in Seq(Children) /\ processes \in Seq(Children) /\ IsInjective(processes)
      /\ IsInjective(todo) /\ Spans(todo) /\ Spans(processes)
      /\ Range(todo) \subseteq Children /\ Range(processes) \subseteq Children
      /\ (processes = << >> <=> Len(processes) = 0) /\ Len(processes) \in Nat
      /\ NoChild \notin Children /\ "redis" \in Children
  <2>1. todo \in Seq(Children) /\ processes \in Seq(Children) /\ IsInjective(processes)
        /\ IsInjective(todo)
    BY DEF TypeOK, Ordered
  <2>2. Len(processes) \in Nat
    BY <2>1, LenProperties
  <2> QED
    BY <2>1, <2>2, SpansAll, NoneIsNoChild DEF Children
<1>3. (handlers' = handlers \/ handlers' = << >>) => Cleared'
  BY <1>1 DEF Cleared, InPhase, Depth
<1>4. ASSUME NEW code \in {"0", "1", "raised"}, Ends(code), Explained'
      PROVE  LauncherInv'
  <2>1. TypeOK'
    <3>1. /\ handlers' = << >> /\ exit' = code /\ at' = "ended"
          /\ UNCHANGED <<setup, todo, fresh, processes, polls, reported, child, signals, deaths>>
      BY <1>4 DEF Ends, os
    <3>2. Range(handlers') = {} /\ handlers' \in Seq(Handler) /\ Len(handlers') = 0
      BY <3>1 DEF Range
    <3>3. signals \in 0..MaxSignals /\ 0 <= signals
      BY LauncherAssumption DEF TypeOK
    <3> QED
      BY <3>1, <3>2, <3>3 DEF TypeOK
  <2>2. Ordered'
    BY <1>2, <1>4, OrderedKept DEF Ends, os
  <2> QED
    BY <1>3, <1>4, <2>1, <2>2 DEF Ends
<1>5. ASSUME GoesOn, UNCHANGED <<todo, fresh, processes>>, TypeOK',
             at' = at \/ (at' = "spawning" /\ at \in {"redis", "polling"})
             \/ (at' = "monitoring" /\ todo = << >> /\ fresh = NoChild)
      PROVE  LauncherInv'
  <2>1. Ordered'
    BY <1>2, <1>5, OrderedKept DEF GoesOn, os
  <2>2. Explained'
    BY <1>1, <1>5 DEF GoesOn, Explained
  <2> QED
    BY <1>3, <1>5, <2>1, <2>2 DEF GoesOn
<1>6. CASE ReuseRedis
  <2>1. TypeOK'
    BY <1>6 DEF ReuseRedis, GoesOn, os, TypeOK
  <2> QED
    BY <1>5, <1>6, <2>1 DEF ReuseRedis
<1>7. CASE StartRedis
  <2>1. /\ todo' = <<"redis">> \o todo /\ at = "redis" /\ at' = "spawning" /\ ~setup.url
        /\ UNCHANGED <<setup, fresh, processes, child, exit, handlers>>
        /\ fresh = NoChild /\ processes = << >> /\ "redis" \notin Range(todo)
    <3>1. at = "redis" /\ at' = "spawning"
      BY <1>7 DEF StartRedis
    <3>2. "redis" \notin Range(todo) /\ fresh = NoChild /\ processes = << >>
      BY <1>2, <3>1 DEF Ordered, Spans
    <3> QED
      BY <1>7, <3>1, <3>2 DEF StartRedis, GoesOn, os
  <2>2. /\ <<"redis">> \in Seq(Children) /\ IsInjective(<<"redis">>) /\ Range(<<"redis">>) = {"redis"}
        /\ Len(<<"redis">>) = 1
    BY <1>2, Single
  <2>3. /\ todo' \in Seq(Children) /\ IsInjective(todo') /\ Range(todo') = {"redis"} \cup Range(todo)
        /\ \A n \in 1..Len(todo') : n \in 1..1 \/ todo'[n] \in Range(todo)
    <3> DEFINE one == <<"redis">>
    <3>1. Range(one) \cap Range(todo) = {}
      BY <2>1, <2>2
    <3> HIDE DEF one
    <3>2. /\ one \o todo \in Seq(Children) /\ IsInjective(one \o todo)
          /\ Range(one \o todo) = Range(one) \cup Range(todo)
          /\ \A n \in 1..Len(one \o todo) :
                \/ n \in 1..Len(one) /\ (one \o todo)[n] = one[n]
                \/ n - Len(one) \in 1..Len(todo) /\ (one \o todo)[n] = todo[n - Len(one)]
      <4>1. one \in Seq(Children) /\ IsInjective(one)
        BY <2>2 DEF one
      <4> QED
        BY <1>2, <3>1, <4>1, ConcatNew
    <3>3. todo' = one \o todo
      BY <2>1 DEF one
    <3>4. \A k \in 1..Len(todo) : todo[k] \in Range(todo)
      BY <1>2 DEF Spans
    <3>5. Range(one) = {"redis"} /\ Len(one) = 1
      BY <2>2 DEF one
    <3> QED
      BY <3>2, <3>3, <3>4, <3>5
  <2>4. child["redis"] = "absent"
    BY <1>2, <2>1 DEF TypeOK, Range
  <2>5. TypeOK'
    BY <1>7, <2>3 DEF StartRedis, GoesOn, os, TypeOK
  <2>6. Ordered'
    <3>1. \A n \in 1..Len(todo') : todo'[n] = "redis" => n = 1
      BY <2>1, <2>3
    <3>2. "frontend" \in Range(todo') => "frontend" \in Range(todo)
      BY <2>3
    <3> QED
      BY <2>1, <2>3, <2>4, <3>1, <3>2 DEF Ordered, NoChild
  <2>7. Explained'
    BY <1>1, <2>1 DEF Explained
  <2> QED
    BY <1>3, <2>1, <2>5, <2>6, <2>7
<1>8. CASE Refuse
  <2>1. \A c \in Children : child[c] = "absent"
    BY <1>2, <1>8 DEF Refuse, TypeOK, Ordered, Range
  <2>2. Explained'
    BY <1>8, <2>1 DEF Refuse, Ends, os, Explained
  <2> QED
    BY <1>4, <1>8, <2>2 DEF Refuse
<1>9. CASE RedisAnswers
  <2>1. TypeOK'
    BY <1>9 DEF RedisAnswers, GoesOn, os, TypeOK
  <2> QED
    BY <1>5, <1>9, <2>1 DEF RedisAnswers
<1>10. CASE PollAgain
  <2>1. polls' \in 0..Polls
    BY <1>10, LauncherAssumption DEF PollAgain, TypeOK
  <2>2. TypeOK'
    BY <1>10, <2>1 DEF PollAgain, GoesOn, os, TypeOK
  <2> QED
    BY <1>5, <1>10, <2>2 DEF PollAgain
<1>11. CASE RedisIsLate
  <2>1. processes = <<"redis">> /\ fresh = NoChild /\ ~setup.url
    BY <1>11 DEF RedisIsLate, Ordered
  <2>2. Range(processes) = {"redis"}
    BY <1>2, <2>1, Single
  <2>3. \A c \in Children : child[c] # "absent" => c = "redis"
    BY <1>2, <2>1, <2>2 DEF TypeOK
  <2>4. Explained'
    BY <1>11, <2>1, <2>3 DEF RedisIsLate, Ends, os, Explained
  <2> QED
    BY <1>4, <1>11, <2>4 DEF RedisIsLate
<1>12. CASE Monitor
  <2>1. TypeOK'
    BY <1>12 DEF Monitor, GoesOn, os, TypeOK
  <2>2. at' = at \/ (at' = "monitoring" /\ todo = << >> /\ fresh = NoChild)
    BY <1>12 DEF Monitor
  <2> QED
    BY <1>5, <1>12, <2>1, <2>2 DEF Monitor
<1>13. Spawning => /\ Upcoming \in Children /\ Upcoming \in Range(todo) /\ todo # << >>
                   /\ Upcoming = todo[1] /\ 1 \in 1..Len(todo)
                   /\ Tail(todo) \in Seq(Children) /\ IsInjective(Tail(todo))
                   /\ Range(Tail(todo)) = Range(todo) \ {Upcoming}
                   /\ \A n \in 1..Len(Tail(todo)) :
                         Tail(todo)[n] = todo[n + 1] /\ n + 1 \in 1..Len(todo) /\ n + 1 # 1
                   /\ fresh = NoChild /\ at = "spawning" /\ child[Upcoming] = "absent"
  <2> SUFFICES ASSUME Spawning
               PROVE  /\ Upcoming \in Children /\ Upcoming \in Range(todo) /\ todo # << >>
                      /\ Upcoming = todo[1] /\ 1 \in 1..Len(todo)
                      /\ Tail(todo) \in Seq(Children) /\ IsInjective(Tail(todo))
                      /\ Range(Tail(todo)) = Range(todo) \ {Upcoming}
                      /\ \A n \in 1..Len(Tail(todo)) :
                            Tail(todo)[n] = todo[n + 1] /\ n + 1 \in 1..Len(todo) /\ n + 1 # 1
                      /\ fresh = NoChild /\ at = "spawning" /\ child[Upcoming] = "absent"
    OBVIOUS
  <2>1. todo # << >> /\ fresh = NoChild /\ at = "spawning"
    BY DEF Spawning
  <2>2. /\ Upcoming \in Children /\ Upcoming \in Range(todo)
        /\ Upcoming = todo[1] /\ 1 \in 1..Len(todo)
        /\ Tail(todo) \in Seq(Children) /\ IsInjective(Tail(todo))
        /\ Range(Tail(todo)) = Range(todo) \ {Upcoming}
        /\ \A n \in 1..Len(Tail(todo)) : Tail(todo)[n] = todo[n + 1] /\ n + 1 \in 1..Len(todo)
    BY <1>2, <2>1, TailRest DEF Upcoming
  <2>3. \A n \in 1..Len(Tail(todo)) : n + 1 # 1
    OBVIOUS
  <2>4. child[Upcoming] = "absent"
    BY <2>2 DEF Ordered
  <2> QED
    BY <2>1, <2>2, <2>3, <2>4
<1>14. CASE PopenRaises
  <2>1. "frontend" \in Range(todo) /\ ~setup.npm
    BY <1>13, <1>14 DEF PopenRaises
  <2>2. Explained'
    BY <1>14, <2>1 DEF PopenRaises, Ends, os, Explained, Ordered
  <2> QED
    BY <1>4, <1>14, <2>2 DEF PopenRaises
<1>15. ASSUME Spawning, todo' = Tail(todo)
       PROVE  /\ \A n \in 1..Len(todo') : todo'[n] # "redis"
              /\ Upcoming \notin Range(todo') /\ Range(todo') \subseteq Range(todo)
              /\ todo' \in Seq(Children) /\ IsInjective(todo')
  <2>1. \A n \in 1..Len(todo') : todo'[n] = todo[n + 1] /\ n + 1 \in 1..Len(todo) /\ n + 1 # 1
    BY <1>13, <1>15
  <2> QED
    BY <1>13, <1>15, <2>1 DEF Ordered
<1>16. CASE SkipFrontend
  <2>1. Spawning /\ todo' = Tail(todo) /\ UNCHANGED <<at, fresh, processes>>
    BY <1>16 DEF SkipFrontend
  <2>2. TypeOK'
    BY <1>15, <1>16, <2>1 DEF SkipFrontend, GoesOn, os, TypeOK
  <2>3. Ordered'
    BY <1>13, <1>15, <1>16, <2>1 DEF SkipFrontend, GoesOn, os, Ordered, NoChild
  <2>4. Explained'
    BY <1>1, <1>16, <2>1 DEF SkipFrontend, GoesOn, Explained
  <2> QED
    BY <1>3, <1>16, <2>2, <2>3, <2>4 DEF SkipFrontend, GoesOn
<1>17. CASE Popen
  <2>1. /\ Spawning /\ todo' = Tail(todo) /\ fresh' = Upcoming
        /\ child' = [child EXCEPT ![Upcoming] = "running"]
        /\ UNCHANGED <<setup, at, processes, polls, reported, handlers, exit, signals, deaths>>
    BY <1>17 DEF Popen
  <2>2. PICK u \in Children : u = Upcoming
    BY <1>13, <2>1
  <2>3. /\ fresh' = u /\ child' = [child EXCEPT ![u] = "running"] /\ child[u] = "absent"
        /\ u \in Range(todo) /\ u \notin Range(todo') /\ fresh = NoChild /\ at = "spawning"
        /\ u = todo[1] /\ 1 \in 1..Len(todo)
    BY <1>13, <1>15, <2>1, <2>2
  <2>4. u \notin Range(processes) /\ u # NoChild
    BY <1>2, <2>3 DEF TypeOK
  <2>5. child \in [Children -> {"absent", "running", "stopping", "dead"}]
    BY DEF TypeOK
  <2>6. child'[u] = "running" /\ \A c \in Children \ {u} : child'[c] = child[c]
    BY <2>3, <2>5
  <2>7. \A c \in Children : child'[c] # "absent" <=> c \in Range(processes') \cup {fresh'}
    BY <1>2, <2>1, <2>3, <2>4, <2>6 DEF TypeOK
  <2>8. child' \in [Children -> {"absent", "running", "stopping", "dead"}]
    BY <2>3, <2>5
  <2>9. TypeOK'
    BY <1>15, <2>1, <2>3, <2>4, <2>7, <2>8 DEF TypeOK
  <2>10. Ordered'
    <3>1. \A c \in Range(todo') : child'[c] = "absent"
      BY <1>2, <1>15, <2>1, <2>3, <2>6 DEF Ordered
    <3>2. u = "redis" => processes = << >> /\ ~setup.url
      BY <2>3 DEF Ordered
    <3> QED
      BY <1>15, <2>1, <2>3, <3>1, <3>2 DEF Ordered
  <2>11. Explained'
    BY <1>1, <2>1 DEF Explained
  <2> QED
    BY <1>3, <2>1, <2>9, <2>10, <2>11
<1>18. CASE Register
  <2>1. /\ fresh # NoChild /\ processes' = Append(processes, fresh) /\ fresh' = NoChild
        /\ at' = IF fresh = "redis" THEN "polling" ELSE at
        /\ UNCHANGED <<setup, todo, polls, reported, child, signals, deaths, handlers, exit>>
    BY <1>18 DEF Register, GoesOn, os
  <2>2. fresh \in Children /\ fresh \notin Range(processes)
    BY <2>1 DEF TypeOK
  <2>3. /\ processes' \in Seq(Children) /\ IsInjective(processes')
        /\ Range(processes') = Range(processes) \cup {fresh}
    BY <1>2, <2>1, <2>2, AppendNew
  <2>4. NoChild \notin Range(processes')
    BY <1>2, <2>2, <2>3
  <2>5. Range(handlers') = {} /\ handlers' \in Seq(Handler) /\ Len(handlers') <= signals'
    BY <1>1, <2>1 DEF TypeOK, Range
  <2>6. at' \in {"redis", "spawning", "polling", "monitoring"}
    BY <1>1, <2>1 DEF TypeOK
  <2>7. \A c \in Children : child'[c] # "absent" <=> c \in Range(processes') \cup {fresh'}
    BY <1>2, <2>1, <2>3 DEF TypeOK
  <2>8. TypeOK'
    BY <1>1, <2>1, <2>3, <2>4, <2>5, <2>6, <2>7 DEF TypeOK
  <2>9. Ordered'
    <3>1. \A n \in 1..Len(todo) : todo[n] # "redis"
      BY <2>1 DEF Ordered
    <3>2. at # "redis" /\ at # "polling"
      BY <2>1 DEF Ordered
    <3>3. CASE fresh = "redis"
      <4>1. processes = << >> /\ ~setup.url
        BY <3>3 DEF Ordered
      <4>2. processes' = <<"redis">>
        BY <2>1, <3>3, <4>1
      <4> QED
        BY <2>1, <3>1, <3>3, <4>1, <4>2 DEF Ordered, NoChild
    <3>4. CASE fresh # "redis"
      BY <2>1, <3>1, <3>2, <3>4 DEF Ordered, NoChild
    <3> QED
      BY <3>3, <3>4
  <2>10. Explained'
    BY <1>1, <2>1 DEF Explained
  <2> QED
    BY <1>3, <2>1, <2>8, <2>9, <2>10
<1> QED
  BY <1>6, <1>7, <1>8, <1>9, <1>10, <1>11, <1>12, <1>14, <1>16, <1>17, <1>18 DEF Main

(* A handler that replaces the innermost one. *)
LEMMA InnermostReplaced ==
    ASSUME TypeOK, Depth > 0, NEW h \in Handler, h.next <= Len(processes) + 1,
           handlers' = [handlers EXCEPT ![Depth] = h]
    PROVE  /\ handlers' \in Seq(Handler) /\ Len(handlers') = Len(handlers)
           /\ handlers'[Depth] = h
           /\ \A g \in Range(handlers') : g.next <= Len(processes) + 1
<1>1. handlers \in Seq(Handler) /\ Spans(handlers) /\ \A g \in Range(handlers) : g.next <= Len(processes) + 1
  BY SpansAll DEF TypeOK
<1>2. Depth \in 1..Len(handlers) /\ Len(handlers) \in Nat
  BY <1>1 DEF Spans, Depth
<1>3. /\ handlers' \in Seq(Handler) /\ Len(handlers') = Len(handlers)
      /\ \A n \in 1..Len(handlers) : handlers'[n] = IF n = Depth THEN h ELSE handlers[n]
  BY <1>1, <1>2, ExceptSeq
<1>4. Spans(handlers')
  BY <1>3, SpansAll
<1>5. ASSUME NEW g \in Range(handlers') PROVE g.next <= Len(processes) + 1
  <2>1. PICK n \in 1..Len(handlers) : handlers'[n] = g
    BY <1>3, <1>4 DEF Spans
  <2>2. n # Depth => g \in Range(handlers)
    BY <1>1, <1>3, <2>1 DEF Spans
  <2> QED
    BY <1>1, <1>3, <2>1, <2>2
<1> QED
  BY <1>2, <1>3, <1>5

LEMMA ShutdownKeeps ==
    ASSUME LauncherInv, Shutdown
    PROVE  LauncherInv'
<1> USE DEF LauncherInv
<1>1. /\ processes \in Seq(Children) /\ Spans(processes) /\ Len(processes) \in Nat
      /\ Range(processes) \subseteq Children
  <2>1. processes \in Seq(Children)
    BY DEF TypeOK
  <2> QED
    BY <2>1, SpansAll DEF Spans
<1>2. todo \in Seq(Children) /\ handlers \in Seq(Handler)
      /\ child \in [Children -> {"absent", "running", "stopping", "dead"}]
  BY DEF TypeOK
<1>3. /\ Depth > 0 /\ Depth = Len(handlers) /\ This \in Nat \ {0}
      /\ handlers[Depth] \in Handler /\ handlers[Depth].phase \in {"terminate", "wait"}
      /\ This <= Len(processes) => /\ This \in 1..Len(processes) /\ Proc \in Children
                                   /\ child[Proc] # "absent"
  <2>1. Depth > 0 /\ Depth = Len(handlers)
    BY DEF Shutdown, Terminate, StartWaiting, Waited, Kill, Done, InPhase, Depth
  <2>2. Depth \in 1..Len(handlers)
    BY <1>2, <2>1, LenProperties
  <2>3. handlers[Depth] \in Handler
    BY <1>2, <2>2, ElementOfSeq
  <2>4. This \in Nat \ {0}
    BY <2>3 DEF This, Handler
  <2>5. This <= Len(processes) => This \in 1..Len(processes)
    BY <1>1, <2>4
  <2>6. This <= Len(processes) => Proc \in Range(processes)
    BY <1>1, <2>5 DEF Proc, Spans
  <2> QED
    BY <1>1, <2>1, <2>3, <2>4, <2>5, <2>6 DEF TypeOK, Handler
<1>4. ASSUME HandlerGoesOn, NEW h \in Handler, handlers' = [handlers EXCEPT ![Depth] = h],
             h.next <= Len(processes) + 1,
             child' \in [Children -> {"absent", "running", "stopping", "dead"}],
             \A c \in Children : /\ child[c] \in {"absent", "dead"} => child'[c] = child[c]
                                 /\ child[c] # "absent" => child'[c] # "absent",
             h.phase = "wait" => \A n \in 1..Len(processes) :
                                    n < h.next => child'[processes[n]] = "dead"
      PROVE  LauncherInv'
  <2>1. /\ handlers' \in Seq(Handler) /\ Len(handlers') = Len(handlers)
        /\ handlers'[Depth] = h
        /\ \A g \in Range(handlers') : g.next <= Len(processes) + 1
    BY <1>3, <1>4, InnermostReplaced
  <2>2. UNCHANGED <<setup, at, todo, fresh, processes, polls, reported, exit, signals, deaths>>
    BY <1>4 DEF HandlerGoesOn, main
  <2>3. \A c \in Children : child'[c] # "absent" <=> c \in Range(processes) \cup {fresh}
    BY <1>4 DEF TypeOK
  <2>4. TypeOK'
    BY <1>4, <2>1, <2>2, <2>3 DEF TypeOK
  <2>5. Ordered'
    BY <1>2, <1>4, <2>2, OrderedKept
  <2>6. Explained'
    BY <1>1, <1>4, <2>2, ExplainedKept
  <2>7. Depth' = Depth /\ This' = h.next
    BY <2>1 DEF Depth, This
  <2>8. Cleared'
    BY <1>4, <2>1, <2>2, <2>7 DEF Cleared, InPhase
  <2> QED
    BY <2>4, <2>5, <2>6, <2>8
<1>5. ASSUME Advance, This <= Len(processes)
      PROVE  /\ \E h \in Handler : /\ handlers' = [handlers EXCEPT ![Depth] = h]
                                   /\ h.next = This + 1 /\ h.next <= Len(processes) + 1
                                   /\ h.phase = handlers[Depth].phase
  <2> DEFINE h == [phase |-> handlers[Depth].phase, next |-> This + 1]
  <2>1. h \in Handler /\ h.next <= Len(processes) + 1
    BY <1>1, <1>3, <1>5 DEF Handler
  <2>2. [handlers[Depth] EXCEPT !.next = @ + 1] = h
    BY <1>3 DEF Handler, This
  <2>3. handlers' = [handlers EXCEPT ![Depth] = h]
    BY <1>5, <2>2 DEF Advance
  <2> QED
    BY <2>1, <2>3
<1>6. CASE Terminate
  <2>1. /\ HandlerGoesOn /\ Advance /\ This <= Len(processes)
        /\ child' = [child EXCEPT ![Proc] = IF Alive(Proc) THEN "stopping" ELSE @]
        /\ handlers[Depth].phase = "terminate"
    BY <1>6 DEF Terminate, InPhase
  <2>2. PICK h \in Handler : /\ handlers' = [handlers EXCEPT ![Depth] = h]
                             /\ h.next <= Len(processes) + 1 /\ h.phase = "terminate"
    BY <1>5, <2>1
  <2>3. /\ child' \in [Children -> {"absent", "running", "stopping", "dead"}]
        /\ \A c \in Children : /\ child[c] \in {"absent", "dead"} => child'[c] = child[c]
                               /\ child[c] # "absent" => child'[c] # "absent"
    BY <1>2, <1>3, <2>1 DEF Alive
  <2> QED
    BY <1>4, <2>1, <2>2, <2>3
<1>7. CASE StartWaiting
  <2> DEFINE h == [phase |-> "wait", next |-> 1]
  <2>1. h \in Handler /\ h.next = 1 /\ h.next <= Len(processes) + 1
    BY <1>1 DEF Handler
  <2>2. HandlerGoesOn /\ handlers' = [handlers EXCEPT ![Depth] = h] /\ child' = child
    BY <1>7 DEF StartWaiting
  <2>3. \A n \in 1..Len(processes) : ~(n < h.next)
    BY <2>1
  <2> HIDE DEF h
  <2> QED
    BY <1>2, <1>4, <2>1, <2>2, <2>3
<1>8. ASSUME InPhase("wait"), This <= Len(processes), HandlerGoesOn, Advance,
             child'[Proc] = "dead",
             child' \in [Children -> {"absent", "running", "stopping", "dead"}],
             \A c \in Children : c # Proc => child'[c] = child[c]
      PROVE  LauncherInv'
  <2>1. PICK h \in Handler : /\ handlers' = [handlers EXCEPT ![Depth] = h]
                             /\ h.next = This + 1 /\ h.next <= Len(processes) + 1
    BY <1>5, <1>8
  <2>2. \A c \in Children : /\ child[c] \in {"absent", "dead"} => child'[c] = child[c]
                            /\ child[c] # "absent" => child'[c] # "absent"
    BY <1>3, <1>8
  <2>3. ASSUME NEW n \in 1..Len(processes), n < h.next PROVE child'[processes[n]] = "dead"
    <3>1. processes[n] \in Children
      BY <1>1 DEF Spans
    <3>2. CASE n < This
      <4>1. child[processes[n]] = "dead"
        BY <1>8, <3>2 DEF Cleared
      <4> QED
        BY <2>2, <3>1, <4>1
    <3>3. CASE n = This
      BY <1>8, <3>3 DEF Proc
    <3> QED
      BY <1>3, <2>1, <2>3, <3>2, <3>3
  <2> QED
    BY <1>4, <1>8, <2>1, <2>2, <2>3
<1>9. CASE Waited
  BY <1>2, <1>8, <1>9 DEF Waited
<1>10. CASE Kill
  <2>1. /\ InPhase("wait") /\ This <= Len(processes) /\ HandlerGoesOn /\ Advance
        /\ child' = [child EXCEPT ![Proc] = "dead"]
    BY <1>10 DEF Kill
  <2>2. /\ child' \in [Children -> {"absent", "running", "stopping", "dead"}]
        /\ child'[Proc] = "dead" /\ \A c \in Children : c # Proc => child'[c] = child[c]
    BY <1>2, <1>3, <2>1
  <2> QED
    BY <1>8, <2>1, <2>2
<1>11. CASE Done
  <2>1. /\ InPhase("wait") /\ This > Len(processes) /\ at' = "ended" /\ exit' = "0"
        /\ handlers' = << >>
        /\ UNCHANGED <<setup, todo, fresh, processes, polls, reported, child, signals, deaths>>
    BY <1>11 DEF Done, Ends, os
  <2>2. \A c \in Range(processes) : child[c] = "dead"
    <3> SUFFICES ASSUME NEW n \in 1..Len(processes)
                 PROVE  child[processes[n]] = "dead"
      BY <1>1 DEF Spans
    <3>1. n < This
      BY <1>1, <1>3, <2>1
    <3> QED
      BY <2>1, <3>1 DEF Cleared
  <2>3. TypeOK'
    <3>1. Range(handlers') = {} /\ handlers' \in Seq(Handler) /\ Len(handlers') = 0
      BY <2>1 DEF Range
    <3>2. signals \in 0..MaxSignals /\ 0 <= signals
      BY LauncherAssumption DEF TypeOK
    <3> QED
      BY <2>1, <3>1, <3>2 DEF TypeOK
  <2>4. Ordered'
    BY <1>2, <2>1, OrderedKept
  <2>5. Cleared' /\ Explained'
    BY <2>1, <2>2 DEF Cleared, InPhase, Depth, Explained
  <2> QED
    BY <2>3, <2>4, <2>5
<1> QED
  BY <1>6, <1>7, <1>9, <1>10, <1>11 DEF Shutdown

(* What happens to the launcher and to its children from outside. *)
LEMMA OutsideKeeps ==
    ASSUME LauncherInv, Signal \/ \E c \in Children : Stops(c) \/ Dies(c)
    PROVE  LauncherInv'
<1> USE DEF LauncherInv
<1>1. /\ processes \in Seq(Children) /\ Spans(processes) /\ todo \in Seq(Children)
      /\ Range(processes) \subseteq Children /\ handlers \in Seq(Handler)
      /\ child \in [Children -> {"absent", "running", "stopping", "dead"}]
  BY SpansAll DEF TypeOK
<1>2. UNCHANGED <<setup, at, todo, fresh, processes, polls, reported, exit>>
  BY DEF Signal, Stops, Dies, main
<1>3. /\ child' \in [Children -> {"absent", "running", "stopping", "dead"}]
      /\ \A c \in Children : /\ child[c] \in {"absent", "dead"} => child'[c] = child[c]
                             /\ child[c] # "absent" => child'[c] # "absent"
  BY <1>1 DEF Signal, Stops, Dies, Alive
<1>4. Ordered' /\ Explained'
  BY <1>1, <1>2, <1>3, OrderedKept, ExplainedKept
<1>5. \A c \in Children : child'[c] # "absent" <=> c \in Range(processes) \cup {fresh}
  BY <1>3 DEF TypeOK
<1>6. CASE Signal
  <2> DEFINE h == [phase |-> "terminate", next |-> 1]
  <2>1. handlers' = Append(handlers, h) /\ signals' = signals + 1 /\ deaths' = deaths
        /\ signals < MaxSignals
    BY <1>6 DEF Signal
  <2>2. h \in Handler /\ h.next = 1 /\ h.phase = "terminate"
    BY DEF Handler
  <2> HIDE DEF h
  <2>3. /\ handlers' \in Seq(Handler) /\ Len(handlers') = Len(handlers) + 1
        /\ Len(handlers) \in Nat /\ handlers'[Len(handlers) + 1] = h
        /\ \A n \in 1..Len(handlers) : handlers'[n] = handlers[n]
    BY <1>1, <2>1, <2>2
  <2>4. Spans(handlers) /\ Spans(handlers') /\ Len(processes) \in Nat
    BY <1>1, <2>3, SpansAll DEF Spans
  <2>5. \A g \in Range(handlers') : g.next <= Len(processes) + 1
    <3> SUFFICES ASSUME NEW n \in 1..Len(handlers') PROVE handlers'[n].next <= Len(processes) + 1
      BY <2>4 DEF Spans
    <3>1. CASE n \in 1..Len(handlers)
      BY <2>3, <2>4, <3>1 DEF TypeOK, Spans
    <3>2. CASE n = Len(handlers) + 1
      BY <2>2, <2>3, <2>4, <3>2
    <3> QED
      BY <2>3, <3>1, <3>2
  <2>6. Len(handlers') <= signals' /\ signals' \in 0..MaxSignals
    BY <2>1, <2>3, LauncherAssumption DEF TypeOK
  <2>7. TypeOK'
    BY <1>2, <1>3, <1>5, <2>1, <2>3, <2>5, <2>6 DEF TypeOK
  <2>8. Cleared'
    BY <2>2, <2>3 DEF Cleared, InPhase, Depth
  <2> QED
    BY <1>4, <2>7, <2>8
<1>7. CASE \E c \in Children : Stops(c) \/ Dies(c)
  <2>1. handlers' = handlers /\ signals' = signals /\ deaths' \in 0..MaxDeaths
    BY <1>7, LauncherAssumption DEF Stops, Dies, TypeOK
  <2>2. TypeOK'
    BY <1>2, <1>3, <1>5, <2>1 DEF TypeOK
  <2>3. ASSUME NEW n \in 1..Len(processes), child[processes[n]] = "dead"
        PROVE  child'[processes[n]] = "dead"
    <3>1. processes[n] \in Children
      BY <1>1 DEF Spans
    <3> QED
      BY <1>3, <2>3, <3>1
  <2>4. Cleared'
    BY <1>2, <2>1, <2>3 DEF Cleared, InPhase, Depth, This
  <2> QED
    BY <1>4, <2>2, <2>4
<1> QED
  BY <1>6, <1>7

LEMMA LauncherNext == LauncherInv /\ [Next]_vars => LauncherInv'
<1> SUFFICES ASSUME LauncherInv, [Next]_vars
             PROVE  LauncherInv'
  OBVIOUS
<1>1. CASE UNCHANGED vars
  BY <1>1 DEF vars, main, os, LauncherInv, TypeOK, Ordered, Cleared, Explained, InPhase,
     Depth, This
<1>2. CASE Next
  BY <1>2, MainKeeps, ShutdownKeeps, OutsideKeeps DEF Next
<1> QED
  BY <1>1, <1>2

(* Every variable keeps its type; no child is started or registered twice, *)
(* and a child runs exactly if main() has started it.                      *)
THEOREM TypeCorrect == Safety => []TypeOK
<1>1. Safety => []LauncherInv
  BY LauncherInit, LauncherNext, PTL DEF Safety
<1> QED
  BY <1>1, PTL DEF LauncherInv

LEMMA CausesKnown == LauncherInv => SurvivorsHaveACause
<1> SUFFICES ASSUME LauncherInv PROVE SurvivorsHaveACause
  OBVIOUS
<1>1. /\ \A c \in Children : child[c] # "absent" <=> c \in Range(processes) \cup {fresh}
      /\ Explained
  BY DEF LauncherInv, TypeOK
<1>2. exit = "0" => \A c \in Children : Alive(c) => c = fresh /\ c \notin Range(processes)
  BY <1>1 DEF Explained, Alive
<1>3. exit = "1" => \A c \in Children : Alive(c) => ~setup.url /\ c = "redis"
  BY <1>1 DEF Explained, Alive
<1> QED
  BY <1>1, <1>2, <1>3 DEF SurvivorsHaveACause, Explained

(* However signals interrupt main() and each other, and whether or not a   *)
(* child listens, shutdown() leaves none but the one _spawn had not yet    *)
(* noted, and another exit leaves only what it is known to leave.          *)
THEOREM NoUnexplainedSurvivor == Safety => []SurvivorsHaveACause
<1>1. Safety => []LauncherInv
  BY LauncherInit, LauncherNext, PTL DEF Safety
<1> QED
  BY <1>1, CausesKnown, PTL
===============================================================================
