------------------------------ MODULE Launcher ------------------------------
(***************************************************************************)
(* The launcher (src/run.py): finds or starts Redis, starts the workers,   *)
(* the API and the frontend as child processes, and watches them until a   *)
(* signal makes shutdown() stop them.  shutdown() is a Python signal       *)
(* handler: it runs between two steps of main(), or of an earlier          *)
(* shutdown(), and never returns to them.                                  *)
(***************************************************************************)
EXTENDS Naturals, Sequences, Functions

CONSTANTS WorkerModules,  (* WORKER_MODULES                                  *)
          Polls,          (* how often start_redis pings the Redis it started *)
          MaxSignals,     (* bound: SIGINT and SIGTERM in a run              *)
          MaxDeaths       (* bound: children that end by themselves          *)

(* The worker modules have names of their own. *)
ASSUME LauncherAssumption == /\ WorkerModules \in Seq(STRING)
                             /\ IsInjective(WorkerModules)
                             /\ {"redis", "api-backend", "frontend", "none"}
                                  \cap Range(WorkerModules) = {}
                             /\ Polls \in Nat \ {0}
                             /\ MaxSignals \in Nat
                             /\ MaxDeaths \in Nat

Children == Range(WorkerModules) \cup {"redis", "api-backend", "frontend"}
NoChild == "none"

VARIABLES setup,        (* the arguments and what is installed               *)
          at,           (* where main() stands                               *)
          todo,         (* children still to start, in order                 *)
          fresh,        (* a child started and not yet in _processes         *)
          processes,    (* _processes                                        *)
          child,        (* per child, what the operating system knows of it  *)
          polls,        (* pings start_redis has left                        *)
          reported,     (* children main() has warned about                  *)
          handlers,     (* the calls of shutdown() on the stack              *)
          exit,         (* how the launcher ended                            *)
          signals, deaths

os == <<child, signals, deaths>>
main == <<at, todo, fresh, processes, polls, reported>>
vars == <<setup, main, os, handlers, exit>>

Modes == {"all", "backend", "workers", "frontend"}
Setup == [mode : Modes,
          installed : BOOLEAN,      (* the Python dependencies               *)
          url : BOOLEAN,            (* REDIS_URL is set                      *)
          redisRuns : BOOLEAN,      (* a Redis that the launcher did not start *)
          binary : BOOLEAN,         (* redis-server is on the PATH           *)
          modules : BOOLEAN,        (* frontend/node_modules exists          *)
          npm : BOOLEAN]            (* npm is on the PATH                    *)

Services(mode) == CASE mode = "workers"  -> WorkerModules
                    [] mode = "backend"  -> WorkerModules \o <<"api-backend">>
                    [] mode = "frontend" -> <<"frontend">>
                    [] OTHER             -> WorkerModules \o <<"api-backend", "frontend">>

Handler == [phase : {"terminate", "wait"}, next : Nat \ {0}]

TypeOK == /\ setup \in Setup
          /\ at \in {"redis", "spawning", "polling", "monitoring", "ended"}
          /\ todo \in Seq(Children)
          /\ fresh \in Children \cup {NoChild}
          /\ processes \in Seq(Children) /\ IsInjective(processes)
          /\ fresh \notin Range(processes)
          /\ child \in [Children -> {"absent", "running", "stopping", "dead"}]
          /\ \A c \in Children : child[c] # "absent" <=> c \in Range(processes) \cup {fresh}
          /\ polls \in 0..Polls
          /\ reported \subseteq Range(processes)
          /\ handlers \in Seq(Handler) /\ Len(handlers) <= signals
          /\ \A h \in Range(handlers) : h.next <= Len(processes) + 1
          /\ exit \in {"none", "0", "1", "raised"}
          /\ (exit = "none") = (at # "ended")
          /\ signals \in 0..MaxSignals
          /\ deaths \in 0..MaxDeaths

Init == /\ setup \in Setup
        /\ at = IF setup.mode = "frontend" THEN "spawning" ELSE "redis"
        /\ todo = Services(setup.mode)
        /\ fresh = NoChild
        /\ processes = << >>
        /\ child = [c \in Children |-> "absent"]
        /\ polls = Polls
        /\ reported = {}
        /\ handlers = << >>
        /\ exit = "none"
        /\ signals = 0
        /\ deaths = 0

Alive(c) == child[c] \in {"running", "stopping"}

-----------------------------------------------------------------------------
(* main(): none of this runs once a handler is on the stack.               *)
Running == at # "ended" /\ handlers = << >>

Ends(code) == /\ at' = "ended"
              /\ exit' = code
              /\ handlers' = << >>
              /\ UNCHANGED <<setup, todo, fresh, processes, polls, reported, os>>

GoesOn == UNCHANGED <<setup, os, handlers, exit>>

(* check_redis_running: a ping may fail although Redis runs. *)
Ping == IF setup.redisRuns \/ child["redis"] = "running" THEN BOOLEAN ELSE {FALSE}

(* start_redis uses a Redis that answers, ... *)
ReuseRedis == /\ Running /\ at = "redis" /\ setup.installed
              /\ TRUE \in Ping
              /\ at' = "spawning"
              /\ UNCHANGED <<todo, fresh, processes, polls, reported>> /\ GoesOn

(* ... starts one only if none was configured, ... *)
StartRedis == /\ Running /\ at = "redis" /\ setup.installed
              /\ FALSE \in Ping
              /\ ~setup.url /\ setup.binary
              /\ at' = "spawning"
              /\ todo' = <<"redis">> \o todo
              /\ UNCHANGED <<fresh, processes, polls, reported>> /\ GoesOn

(* ... and main() exits without one, or without the dependencies.          *)
Refuse == /\ Running /\ at = "redis"
          /\ setup.installed => FALSE \in Ping /\ (setup.url \/ ~setup.binary)
          /\ Ends("1")

Upcoming == Head(todo)
Spawning == Running /\ at = "spawning" /\ todo # << >> /\ fresh = NoChild

(* _spawn: the child runs before it is in _processes. *)
Popen == /\ Spawning
         /\ Upcoming = "frontend" => setup.modules /\ setup.npm
         /\ fresh' = Upcoming
         /\ todo' = Tail(todo)
         /\ child' = [child EXCEPT ![Upcoming] = "running"]
         /\ UNCHANGED <<setup, at, processes, polls, reported, handlers, exit, signals, deaths>>

(* npm is missing: nothing catches what Popen raises. *)
PopenRaises == /\ Spawning
               /\ Upcoming = "frontend" /\ setup.modules /\ ~setup.npm
               /\ Ends("raised")

(* start_frontend does without the frontend if it was never installed. *)
SkipFrontend == /\ Spawning
                /\ Upcoming = "frontend" /\ ~setup.modules
                /\ todo' = Tail(todo)
                /\ UNCHANGED <<at, fresh, processes, polls, reported>> /\ GoesOn

(* Mutant: a second entry for the same child. *)
RegisterTwice ==
    /\ Running /\ fresh # NoChild
    /\ processes' = processes \o <<fresh, fresh>>
    /\ fresh' = NoChild
    /\ at' = IF fresh = "redis" THEN "polling" ELSE at
    /\ UNCHANGED <<todo, polls, reported>> /\ GoesOn

(* _processes.append(proc) *)
Register == /\ Running /\ fresh # NoChild
            /\ processes' = Append(processes, fresh)
            /\ fresh' = NoChild
            /\ at' = IF fresh = "redis" THEN "polling" ELSE at
            /\ UNCHANGED <<todo, polls, reported>> /\ GoesOn

RedisAnswers == /\ Running /\ at = "polling"
                /\ TRUE \in Ping
                /\ at' = "spawning"
                /\ UNCHANGED <<todo, fresh, processes, polls, reported>> /\ GoesOn

PollAgain == /\ Running /\ at = "polling"
             /\ FALSE \in Ping
             /\ polls > 1
             /\ polls' = polls - 1
             /\ UNCHANGED <<at, todo, fresh, processes, reported>> /\ GoesOn

(* "did not become reachable in time": start_redis returns False, and      *)
(* main() exits.                                                           *)
RedisIsLate == /\ Running /\ at = "polling"
               /\ FALSE \in Ping
               /\ polls = 1
               /\ Ends("1")

(* The endless loop: a warning, every second, for each dead child.         *)
Monitor == /\ Running
           /\ at = "monitoring" \/ (at = "spawning" /\ todo = << >> /\ fresh = NoChild)
           /\ at' = "monitoring"
           /\ reported' = {c \in Range(processes) : child[c] = "dead"}
           /\ UNCHANGED <<todo, fresh, processes, polls>> /\ GoesOn

Main == \/ ReuseRedis \/ StartRedis \/ Refuse
        \/ Popen \/ PopenRaises \/ SkipFrontend \/ Register
        \/ RedisAnswers \/ PollAgain \/ RedisIsLate \/ Monitor

-----------------------------------------------------------------------------
(* shutdown(): terminate every child, then wait for each in turn.  Only    *)
(* the innermost call runs, and the SystemExit it ends in unwinds them all. *)
Depth == Len(handlers)
InPhase(phase) == Depth > 0 /\ handlers[Depth].phase = phase
This == handlers[Depth].next
Proc == processes[This]

Advance == handlers' = [handlers EXCEPT ![Depth].next = @ + 1]
HandlerGoesOn == UNCHANGED <<setup, main, exit, signals, deaths>>

Terminate == /\ InPhase("terminate") /\ This <= Len(processes)
             /\ child' = [child EXCEPT ![Proc] = IF Alive(Proc) THEN "stopping" ELSE @]
             /\ Advance /\ HandlerGoesOn

StartWaiting == /\ InPhase("terminate") /\ This > Len(processes)
                /\ handlers' = [handlers EXCEPT ![Depth] = [phase |-> "wait", next |-> 1]]
                /\ UNCHANGED child /\ HandlerGoesOn

Waited == /\ InPhase("wait") /\ This <= Len(processes)
          /\ child[Proc] = "dead"
          /\ UNCHANGED child /\ Advance /\ HandlerGoesOn

(* Mutant: wait() has no timeout. *)
WaitForEver == Waited

(* Mutant: a child that does not stop in time is left alone. *)
GiveUpOnIt == /\ InPhase("wait") /\ This <= Len(processes)
              /\ Alive(Proc)
              /\ UNCHANGED child /\ Advance /\ HandlerGoesOn

(* wait(timeout=5) expires: the child is killed. *)
Kill == /\ InPhase("wait") /\ This <= Len(processes)
        /\ Alive(Proc)
        /\ child' = [child EXCEPT ![Proc] = "dead"]
        /\ Advance /\ HandlerGoesOn

Done == /\ InPhase("wait") /\ This > Len(processes)
        /\ Ends("0")

Shutdown == Terminate \/ StartWaiting \/ Waited \/ Kill \/ Done

-----------------------------------------------------------------------------
(* A signal for the launcher: from a terminal, Ctrl+C reaches every child  *)
(* in its process group as well.                                           *)
Signal == /\ at # "ended"
          /\ signals < MaxSignals
          /\ signals' = signals + 1
          /\ handlers' = Append(handlers, [phase |-> "terminate", next |-> 1])
          /\ child' \in {child, [c \in Children |-> IF Alive(c) THEN "stopping" ELSE child[c]]}
          /\ UNCHANGED <<setup, main, exit, deaths>>

(* A child that was told to stop does so, sooner or later or never ... *)
Stops(c) == /\ child[c] = "stopping"
            /\ child' = [child EXCEPT ![c] = "dead"]
            /\ UNCHANGED <<setup, main, handlers, exit, signals, deaths>>

(* ... and one may end by itself. *)
Dies(c) == /\ child[c] = "running"
           /\ deaths < MaxDeaths
           /\ deaths' = deaths + 1
           /\ child' = [child EXCEPT ![c] = "dead"]
           /\ UNCHANGED <<setup, main, handlers, exit, signals>>

Next == Main \/ Shutdown \/ Signal \/ \E c \in Children : Stops(c) \/ Dies(c)

(* The launcher is scheduled, and a timeout expires. *)
Safety == Init /\ [][Next]_vars
Spec == Safety /\ WF_vars(Main) /\ WF_vars(Shutdown)

-----------------------------------------------------------------------------
(* Properties *)

(* shutdown() leaves no child behind, however often it is interrupted and  *)
(* whether or not the children listen, except one that _spawn had started  *)
(* and not yet noted when the signal came.  An exit that does not go       *)
(* through shutdown() leaves behind what was started: a Redis that would   *)
(* not answer, or, if npm cannot be run, everything.                       *)
SurvivorsHaveACause ==
    LET left == {c \in Children : Alive(c)}
    IN  /\ exit = "0" => left \subseteq {fresh} \ Range(processes)
        /\ exit = "1" => left \subseteq (IF setup.url THEN {} ELSE {"redis"})
        /\ exit = "raised" => setup.mode \in {"all", "frontend"} /\ ~setup.npm

(* A signal ends the launcher: neither a child that ignores SIGTERM nor a  *)
(* second signal in the middle of a shutdown keeps it; and until then a    *)
(* child that dies is reported.                                            *)
ShutdownEnds ==
    /\ signals > 0 ~> at = "ended"
    /\ \A c \in Children : child[c] = "dead" ~> c \in reported \/ at = "ended"
=============================================================================
