------------------------ MODULE IncidentProcessProofs ------------------------
(***************************************************************************)
(* Proofs about process() for every number of server processes, threads,   *)
(* samples and faults: who works on which sample, that no undone action is *)
(* missing from a history, that one process settles a sample once, and     *)
(* that what was answered is kept.                                         *)
(***************************************************************************)
EXTENDS IncidentProcess, FiniteSetTheorems, SequenceTheorems, WellFoundedInduction, TLAPS

Works(t) == call[t] # Idle
Phases == {"chain", "defend", "measure", "emit", "leave"}

(* The part of TypeOK the arguments need. *)
Shape == /\ file \in Seq([incident : Nat, kind : Kinds])
         /\ rollbacks \in [Procs -> Nat]
         /\ index \in [Procs -> [Samples -> Nat]]
         /\ inFlight \in [Procs -> SUBSET Samples]
         /\ born \in Seq([sample : Samples, process : Procs])
         /\ call = [t \in Threads |-> call[t]]
         /\ \A t \in Threads : Works(t) => call[t].pc \in Phases

(* A working thread holds its sample, alone in its process, and a sample   *)
(* is only held by a working thread.                                       *)
Holds(t, p, s) == ProcOf[t] = p /\ Works(t) /\ call[t].sample = s
Held == /\ \A t \in Threads : Works(t) => call[t].sample \in inFlight[ProcOf[t]]
        /\ \A t, u \in Threads : \A p \in Procs, s \in Samples :
              Holds(t, p, s) /\ Holds(u, p, s) => t = u
        /\ \A p \in Procs : \A s \in inFlight[p] : \E t \in Threads : Holds(t, p, s)

(* No two threads work on one incident. *)
OwnIncidents ==
    /\ \A t \in Threads : Works(t) => call[t].incident \in Incidents
    /\ \A t, u \in Threads :
          Works(t) /\ Works(u) /\ call[t].incident = call[u].incident => t = u

HeldInv == Shape /\ Held /\ OwnIncidents

HasRollback(i) == \E n \in EventsOf(i, DOMAIN file) : file[n].kind = "rollback"

(* How far a thread's incident is, and what that says of its history. *)
Before(c) == c.pc \in {"chain", "defend", "measure"}
Plans == {<<"rollback", "settled">>, <<"settled">>, << >>}

InOrder(t) ==
    LET c == call[t]
        i == c.incident
    IN  /\ c.pc \in {"chain", "defend"} => i \notin rolledBack
        /\ Before(c) => ~Settled(i)
        /\ c.pc \in {"defend", "measure"} =>
              c.before \in Nat /\ c.before <= rollbacks[ProcOf[t]]
        /\ c.pc = "measure" /\ i \in rolledBack =>
              c.recovered /\ RollbackOccurred(t)
        /\ c.pc = "emit" =>
              /\ c.todo \in Plans
              /\ c.todo # << >> => ~Settled(i)
              /\ i \in rolledBack /\ c.todo # <<"rollback", "settled">> => HasRollback(i)

RollbackInv == /\ HeldInv
               /\ rolledBack \subseteq Incidents
               /\ \A i \in Nat : Settled(i) => i \in Incidents
               /\ \A t \in Threads : Works(t) => InOrder(t)
               /\ RollbackIsRecorded
-----------------------------------------------------------------------------
(* The next incident and the next event. *)

LEMMA Elements ==
    ASSUME NEW S, NEW q \in Seq(S)
    PROVE  Len(q) \in Nat /\ \A i \in 1..Len(q) : q[i] \in S
OBVIOUS

LEMMA BornFacts ==
    ASSUME Shape
    PROVE  /\ Len(born) \in Nat
           /\ \A i \in Incidents : /\ i \in Nat /\ i # None
                                   /\ born[i].sample \in Samples
                                   /\ born[i].process \in Procs
<1>1. born \in Seq([sample : Samples, process : Procs])
  BY DEF Shape
<1>2. Len(born) \in Nat /\ \A i \in 1..Len(born) : born[i] \in [sample : Samples, process : Procs]
  BY <1>1, Elements
<1> QED
  BY <1>2 DEF Incidents, None

LEMMA BornGrows ==
    ASSUME Shape, NEW s \in Samples, NEW p \in Procs,
           born' = Append(born, [sample |-> s, process |-> p])
    PROVE  /\ born' \in Seq([sample : Samples, process : Procs])
           /\ Len(born) \in Nat /\ Len(born') = Len(born) + 1
           /\ Len(born) + 1 \in Incidents' /\ Len(born) + 1 \notin Incidents
           /\ Incidents \subseteq Incidents'
BY DEF Shape, Incidents

LEMMA FileGrows ==
    ASSUME Shape, NEW j \in Nat, NEW k \in Kinds, file' = Append(file, Event(j, k))
    PROVE  /\ file' \in Seq([incident : Nat, kind : Kinds])
           /\ \A i : Settled(i)' <=> Settled(i) \/ (i = j /\ k = "settled")
           /\ \A i : HasRollback(i)' <=> HasRollback(i) \/ (i = j /\ k = "rollback")
<1>1. /\ file' \in Seq([incident : Nat, kind : Kinds])
      /\ DOMAIN file = 1..Len(file) /\ Len(file) \in Nat
      /\ DOMAIN file' = 1..(Len(file) + 1)
      /\ file'[Len(file) + 1].incident = j /\ file'[Len(file) + 1].kind = k
      /\ \A n \in DOMAIN file : n \in DOMAIN file' /\ file'[n] = file[n]
  BY DEF Shape, Event
<1>2. \A n \in DOMAIN file' : n = Len(file) + 1 \/ n \in DOMAIN file
  BY <1>1
<1>3. ASSUME NEW i
      PROVE  /\ Settled(i)' <=> Settled(i) \/ (i = j /\ k = "settled")
             /\ HasRollback(i)' <=> HasRollback(i) \/ (i = j /\ k = "rollback")
  <2>1. /\ Settled(i)' <=> \E n \in EventsOf(i, DOMAIN file)' : file'[n].kind = "settled"
        /\ Settled(i) <=> \E n \in EventsOf(i, DOMAIN file) : file[n].kind = "settled"
    BY DEF Settled, IsTerminal
  <2>2. /\ HasRollback(i)' <=> \E n \in EventsOf(i, DOMAIN file)' : file'[n].kind = "rollback"
        /\ HasRollback(i) <=> \E n \in EventsOf(i, DOMAIN file) : file[n].kind = "rollback"
    BY DEF HasRollback
  <2>3. \A n : n \in EventsOf(i, DOMAIN file)' <=>
               n \in EventsOf(i, DOMAIN file) \/ (n = Len(file) + 1 /\ i = j)
    BY <1>1, <1>2 DEF EventsOf
  <2>4. \A n \in EventsOf(i, DOMAIN file) : file'[n] = file[n]
    BY <1>1 DEF EventsOf
  <2>5. Settled(i)' <=> Settled(i) \/ (i = j /\ k = "settled")
    BY <1>1, <2>1, <2>3, <2>4
  <2>6. HasRollback(i)' <=> HasRollback(i) \/ (i = j /\ k = "rollback")
    BY <1>1, <2>2, <2>3, <2>4
  <2> QED
    BY <2>5, <2>6
<1> QED
  BY <1>1, <1>3

LEMMA FileUnchanged ==
    ASSUME UNCHANGED file
    PROVE  \A i : (Settled(i)' <=> Settled(i)) /\ (HasRollback(i)' <=> HasRollback(i))
<1> SUFFICES ASSUME NEW i
             PROVE  (Settled(i)' <=> Settled(i)) /\ (HasRollback(i)' <=> HasRollback(i))
  OBVIOUS
<1>1. EventsOf(i, DOMAIN file)' = EventsOf(i, DOMAIN file)
  BY DEF EventsOf
<1> QED
  BY <1>1 DEF Settled, IsTerminal, HasRollback
-----------------------------------------------------------------------------
(* What a restarted manager puts in its index *)

LEMMA LeastNumber ==
    ASSUME NEW T \in SUBSET Nat, T # {}
    PROVE  \E m \in T : \A n \in T : m <= n
<1>1. IsWellFoundedOn(OpToRel(<, Nat), Nat)
  BY NatLessThanWellFounded
<1>2. PICK m \in T : \A n \in T : ~(<<n, m>> \in OpToRel(<, Nat))
  BY Zenon, <1>1, WFMin
<1>3. \A n \in T : ~(n < m)
  BY <1>2 DEF OpToRel
<1> QED
  BY <1>3

(* Of the incidents with events in the store, one began last. *)
LEMMA OneBeganLast ==
    ASSUME Shape, NEW E, E # {}, \A i \in E : EventsOf(i, DOMAIN file) # {}
    PROVE  \E i \in E : \A j \in E \ {i} : Earlier(j, i)
<1> DEFINE F == {n \in DOMAIN file : /\ file[n].incident \in E
                                     /\ \A m \in EventsOf(file[n].incident, DOMAIN file) : n <= m}
           G == {Len(file) - n : n \in F}
<1>1. DOMAIN file = 1..Len(file) /\ Len(file) \in Nat
  BY DEF Shape
<1>2. ASSUME NEW i \in E PROVE \E n \in F : file[n].incident = i
  <2>1. EventsOf(i, DOMAIN file) \in SUBSET Nat /\ EventsOf(i, DOMAIN file) # {}
    BY <1>1 DEF EventsOf
  <2>2. PICK n \in EventsOf(i, DOMAIN file) : \A m \in EventsOf(i, DOMAIN file) : n <= m
    BY <2>1, LeastNumber
  <2>3. n \in DOMAIN file /\ file[n].incident = i
    BY <2>2 DEF EventsOf
  <2> QED
    BY <2>2, <2>3
<1>3. G \in SUBSET Nat /\ G # {}
  BY <1>1, <1>2
<1>4. PICK g \in G : \A h \in G : g <= h
  <2> HIDE DEF G
  <2> QED
    BY <1>3, LeastNumber
<1>5. PICK n \in F : g = Len(file) - n
  BY <1>4
<1>6. \A m \in F : m <= n
  <2> SUFFICES ASSUME NEW m \in F PROVE m <= n
    OBVIOUS
  <2>1. g <= Len(file) - m
    BY <1>4
  <2> QED
    BY <1>1, <1>5, <2>1
<1>7. ASSUME NEW j \in E, j # file[n].incident PROVE Earlier(j, file[n].incident)
  <2>1. PICK k \in F : file[k].incident = j
    BY <1>2
  <2>2. k < n
    BY <1>1, <1>6, <1>7, <2>1
  <2>3. k \in EventsOf(j, DOMAIN file)
    BY <2>1 DEF EventsOf
  <2>4. \A m \in EventsOf(file[n].incident, DOMAIN file) : k < m
    <3> SUFFICES ASSUME NEW m \in EventsOf(file[n].incident, DOMAIN file) PROVE k < m
      OBVIOUS
    <3>1. n <= m /\ m \in DOMAIN file
      BY DEF EventsOf
    <3> QED
      BY <1>1, <2>2, <3>1
  <2> QED
    BY <2>3, <2>4 DEF Earlier
<1> QED
  BY <1>7

(* A sample of a settled incident gets such an incident, others get none. *)
LEMMA RebuiltIndexIsRight ==
    ASSUME Shape
    PROVE  /\ RebuiltIndex \in [Samples -> Nat]
           /\ \A s \in Samples : RebuiltIndex[s] # None =>
                 /\ RebuiltIndex[s] \in Incidents
                 /\ Settled(RebuiltIndex[s])
           /\ \A i \in Incidents : Settled(i) => RebuiltIndex[born[i].sample] # None
<1> DEFINE ended(s) == {i \in Incidents : born[i].sample = s /\ IsTerminal(EventsOf(i, DOMAIN file))}
<1>1. Len(born) \in Nat /\ \A i \in Incidents : i \in Nat /\ i # None /\ born[i].sample \in Samples
  BY BornFacts
<1>2. RebuiltIndex = [s \in Samples |->
            IF ended(s) = {} THEN None
            ELSE CHOOSE i \in ended(s) : \A j \in ended(s) \ {i} : Earlier(j, i)]
  BY DEF RebuiltIndex
<1>3. ASSUME NEW s \in Samples, ended(s) # {}
      PROVE  (CHOOSE i \in ended(s) : \A j \in ended(s) \ {i} : Earlier(j, i)) \in ended(s)
  <2>1. \A i \in ended(s) : EventsOf(i, DOMAIN file) # {}
    BY DEF IsTerminal
  <2>2. \E i \in ended(s) : \A j \in ended(s) \ {i} : Earlier(j, i)
    <3> HIDE DEF ended
    <3> QED
      BY <1>3, <2>1, OneBeganLast
  <2> HIDE DEF ended
  <2> QED
    BY Zenon, <2>2
<1>4. \A s \in Samples : ended(s) # {} => RebuiltIndex[s] \in ended(s)
  <2> HIDE DEF ended
  <2> QED
    BY <1>2, <1>3
<1>5. \A s \in Samples : ended(s) = {} => RebuiltIndex[s] = None
  <2> HIDE DEF ended
  <2> QED
    BY <1>2
<1>6. \A s \in Samples : RebuiltIndex[s] # None =>
         RebuiltIndex[s] \in Incidents /\ Settled(RebuiltIndex[s])
  BY <1>4, <1>5 DEF Settled
<1>7. \A i \in Incidents : Settled(i) => i \in ended(born[i].sample)
  BY DEF Settled
<1>8. RebuiltIndex \in [Samples -> Nat]
  <2>1. \A s \in Samples : RebuiltIndex[s] \in Nat
    BY <1>1, <1>6 DEF None
  <2> HIDE DEF ended
  <2> QED
    BY <1>2, <2>1
<1> QED
  BY <1>1, <1>4, <1>6, <1>7, <1>8

-----------------------------------------------------------------------------
(* Holding a sample *)

LEMMA HeldInit == Init => HeldInv
<1> SUFFICES ASSUME Init PROVE HeldInv
  OBVIOUS
<1>1. \A t \in Threads : ~Works(t)
  BY DEF Init, Works
<1>2. Shape
  BY <1>1 DEF Init, Shape, None
<1> QED
  BY <1>1, <1>2 DEF Init, HeldInv, Held, OwnIncidents, Holds

(* A thread that goes on working, or leaves, changes nothing for others. *)
LEMMA GoingOn ==
    ASSUME HeldInv, NEW t \in Threads, NEW c,
           Works(t), c.pc \in Phases,
           c.sample = call[t].sample, c.incident = call[t].incident,
           call' = [call EXCEPT ![t] = c],
           UNCHANGED <<inFlight, born>>,
           rollbacks' \in [Procs -> Nat],
           index' \in [Procs -> [Samples -> Nat]],
           file' \in Seq([incident : Nat, kind : Kinds])
    PROVE  HeldInv'
<1>1. /\ call'[t] = c
      /\ \A u \in Threads : u # t => call'[u] = call[u]
      /\ call' = [u \in Threads |-> call'[u]]
  BY DEF HeldInv, Shape
<1>2. c # Idle
  BY DEF Phases, Idle
<1>3. \A u \in Threads : /\ Works(u)' <=> Works(u)
                         /\ Works(u) => call'[u].sample = call[u].sample
                         /\ Works(u) => call'[u].incident = call[u].incident
                         /\ Works(u) => call'[u].pc \in Phases
  BY <1>1, <1>2 DEF Works, HeldInv, Shape
<1>4. \A u \in Threads : \A p, s : Holds(u, p, s)' <=> Holds(u, p, s)
  BY <1>3 DEF Holds
<1>5. Shape'
  BY <1>1, <1>3 DEF HeldInv, Shape
<1>6. Held'
  BY <1>3, <1>4 DEF HeldInv, Held
<1>7. OwnIncidents'
  BY <1>3 DEF HeldInv, OwnIncidents, Incidents
<1> QED
  BY <1>5, <1>6, <1>7 DEF HeldInv

(* A thread leaves: its sample, which nobody else holds, is released. *)
LEMMA Leaving ==
    ASSUME HeldInv, NEW t \in Threads, Works(t),
           call' = [call EXCEPT ![t] = Idle],
           inFlight' = [inFlight EXCEPT ![ProcOf[t]] = @ \ {call[t].sample}],
           UNCHANGED <<file, born, rollbacks, index>>
    PROVE  HeldInv'
<1> DEFINE p == ProcOf[t]
           s == call[t].sample
<1>1. /\ p \in Procs /\ s \in inFlight[p] /\ s \in Samples
      /\ Holds(t, p, s)
  BY ProcessAssumption DEF HeldInv, Held, Shape, Holds
<1>2. /\ ~Works(t)'
      /\ \A u \in Threads : u # t => call'[u] = call[u]
      /\ call' = [u \in Threads |-> call'[u]]
  BY DEF HeldInv, Shape, Works
<1>3. /\ inFlight'[p] = inFlight[p] \ {s}
      /\ \A q \in Procs : q # p => inFlight'[q] = inFlight[q]
      /\ inFlight' \in [Procs -> SUBSET Samples]
  BY <1>1 DEF HeldInv, Shape
<1>4. Shape'
  BY <1>2, <1>3 DEF HeldInv, Shape, Works
<1>5. \A u \in Threads : \A q, r : Holds(u, q, r)' <=> Holds(u, q, r) /\ u # t
  BY <1>2 DEF Holds, Works
<1>6. ASSUME NEW u \in Threads, Works(u)'
      PROVE  call'[u].sample \in inFlight'[ProcOf[u]]
  <2>1. u # t /\ Works(u) /\ call'[u] = call[u]
    BY <1>2, <1>6 DEF Works
  <2>2. call[u].sample \in inFlight[ProcOf[u]] /\ ProcOf[u] \in Procs
    BY <2>1, ProcessAssumption DEF HeldInv, Held
  <2>3. ~Holds(u, p, s)
    BY <1>1, <2>1 DEF HeldInv, Held
  <2> QED
    BY <1>3, <2>1, <2>2, <2>3 DEF Holds
<1>7. ASSUME NEW q \in Procs, NEW r \in inFlight'[q]
      PROVE  \E u \in Threads : Holds(u, q, r)'
  <2>1. r \in inFlight[q] /\ ~(q = p /\ r = s)
    BY <1>3, <1>7
  <2>2. PICK u \in Threads : Holds(u, q, r)
    BY <2>1 DEF HeldInv, Held
  <2>3. u # t
    BY <2>1, <2>2 DEF Holds
  <2> QED
    BY <1>5, <2>2, <2>3
<1>8. Held'
  BY <1>5, <1>6, <1>7 DEF HeldInv, Held
<1>9. OwnIncidents'
  BY <1>2 DEF HeldInv, OwnIncidents, Works, Incidents
<1> QED
  BY <1>4, <1>8, <1>9 DEF HeldInv

(* A thread takes a sample that nobody in its process works on. *)
LEMMA Taking ==
    ASSUME HeldInv, NEW t \in Threads, NEW s \in Samples, ~Works(t),
           ~Busy(ProcOf[t], s),
           inFlight' = [inFlight EXCEPT ![ProcOf[t]] = @ \cup {s}],
           born' = Append(born, [sample |-> s, process |-> ProcOf[t]]),
           call' = [call EXCEPT ![t] = [pc |-> "chain", sample |-> s,
                                        incident |-> Len(born) + 1]],
           UNCHANGED <<file, rollbacks, index>>
    PROVE  HeldInv'
<1> DEFINE p == ProcOf[t]
<1>1. p \in Procs /\ s \notin inFlight[p]
  BY ProcessAssumption DEF Busy
<1>2. /\ Works(t)' /\ call'[t].sample = s /\ call'[t].pc = "chain"
      /\ call'[t].incident = Len(born) + 1
      /\ \A u \in Threads : u # t => call'[u] = call[u]
      /\ call' = [u \in Threads |-> call'[u]]
  BY DEF HeldInv, Shape, Works, Idle
<1>3. /\ inFlight'[p] = inFlight[p] \cup {s}
      /\ \A q \in Procs : q # p => inFlight'[q] = inFlight[q]
      /\ inFlight' \in [Procs -> SUBSET Samples]
  BY <1>1 DEF HeldInv, Shape
<1>4. /\ born' \in Seq([sample : Samples, process : Procs])
      /\ Len(born) + 1 \in Incidents' /\ Len(born) + 1 \notin Incidents
      /\ Incidents \subseteq Incidents'
  BY <1>1, BornGrows DEF HeldInv
<1>5. Shape'
  BY <1>2, <1>3, <1>4 DEF HeldInv, Shape, Works, Phases
<1>6. \A u \in Threads : \A q, r :
         Holds(u, q, r)' <=> Holds(u, q, r) \/ (u = t /\ q = p /\ r = s)
  BY <1>2 DEF Holds, Works
<1>7. \A u \in Threads : ~Holds(u, p, s)
  BY <1>1 DEF HeldInv, Held, Holds
<1>8. ASSUME NEW u \in Threads, NEW v \in Threads, NEW q \in Procs, NEW r \in Samples,
             Holds(u, q, r)', Holds(v, q, r)'
      PROVE  u = v
  <2>1. CASE q = p /\ r = s
    BY <1>6, <1>7, <1>8, <2>1
  <2>2. CASE ~(q = p /\ r = s)
    BY <1>6, <1>8, <2>2 DEF HeldInv, Held
  <2> QED
    BY <2>1, <2>2
<1>9. ASSUME NEW u \in Threads, Works(u)'
      PROVE  call'[u].sample \in inFlight'[ProcOf[u]]
  <2>1. CASE u = t
    BY <1>2, <1>3, <2>1
  <2>2. CASE u # t
    <3>1. ProcOf[u] \in Procs /\ call[u].sample \in inFlight[ProcOf[u]]
      BY <1>2, <1>9, <2>2, ProcessAssumption DEF HeldInv, Held, Works
    <3> QED
      BY <1>2, <1>3, <2>2, <3>1
  <2> QED
    BY <2>1, <2>2
<1>10. ASSUME NEW q \in Procs, NEW r \in inFlight'[q]
       PROVE  \E u \in Threads : Holds(u, q, r)'
  <2>1. CASE q = p /\ r = s
    BY <1>6, <2>1
  <2>2. CASE ~(q = p /\ r = s)
    <3>1. r \in inFlight[q]
      BY <1>3, <1>10, <2>2
    <3> QED
      BY <1>6, <3>1 DEF HeldInv, Held
  <2> QED
    BY <2>1, <2>2
<1>11. Held'
  BY <1>8, <1>9, <1>10 DEF Held
<1>12. OwnIncidents'
  <2>1. \A u \in Threads : u # t /\ Works(u)' => Works(u) /\ call'[u].incident = call[u].incident
                                                /\ call[u].incident \in Incidents
    BY <1>2 DEF HeldInv, OwnIncidents, Works
  <2> QED
    BY <1>2, <1>4, <2>1 DEF HeldInv, OwnIncidents
<1> QED
  BY <1>5, <1>11, <1>12 DEF HeldInv

(* A call that is skipped or refused ends where it began. *)
LEMMA Refused ==
    ASSUME HeldInv, NEW t \in Threads, ~Works(t),
           call' = [call EXCEPT ![t] = Idle],
           UNCHANGED <<inFlight, born, rollbacks, index>>,
           file' \in Seq([incident : Nat, kind : Kinds])
    PROVE  HeldInv'
<1>1. call' = call
  BY DEF HeldInv, Shape, Works
<1>2. Shape'
  BY <1>1 DEF HeldInv, Shape, Works
<1>3. Held'
  BY <1>1 DEF HeldInv, Held, Holds, Works
<1>4. OwnIncidents'
  BY <1>1 DEF HeldInv, OwnIncidents, Works, Incidents
<1> QED
  BY <1>2, <1>3, <1>4 DEF HeldInv

(* A process dies, and all its threads with it. *)
LEMMA Dying ==
    ASSUME HeldInv, NEW p \in Procs, Restart(p)
    PROVE  HeldInv'
<1>1. /\ \A t \in Threads : Works(t)' <=> Works(t) /\ ProcOf[t] # p
      /\ \A t \in Threads : ProcOf[t] # p => call'[t] = call[t]
      /\ call' = [t \in Threads |-> call'[t]]
  <2>1. call' = [t \in Threads |-> IF ProcOf[t] = p THEN Idle ELSE call[t]]
    BY DEF Restart
  <2>2. \A t \in Threads : call'[t] = IF ProcOf[t] = p THEN Idle ELSE call[t]
    BY <2>1
  <2> QED
    BY <2>1, <2>2 DEF Works
<1>2. /\ inFlight'[p] = {} /\ \A q \in Procs : q # p => inFlight'[q] = inFlight[q]
      /\ inFlight' \in [Procs -> SUBSET Samples]
      /\ rollbacks' \in [Procs -> Nat]
      /\ UNCHANGED <<file, born>>
  BY DEF HeldInv, Shape, Restart, history
<1>a. index' \in [Procs -> [Samples -> Nat]]
  BY RebuiltIndexIsRight DEF HeldInv, Shape, Restart
<1>3. Shape'
  BY <1>1, <1>2, <1>a DEF HeldInv, Shape
<1>4. \A t \in Threads : \A q, s : Holds(t, q, s)' <=> Holds(t, q, s) /\ q # p
  BY <1>1 DEF Holds
<1>5. ASSUME NEW t \in Threads, Works(t)'
      PROVE  call'[t].sample \in inFlight'[ProcOf[t]]
  BY <1>1, <1>2, <1>5, ProcessAssumption DEF HeldInv, Held
<1>6. ASSUME NEW q \in Procs, NEW s \in inFlight'[q]
      PROVE  \E t \in Threads : Holds(t, q, s)'
  BY <1>2, <1>4, <1>6 DEF HeldInv, Held
<1>7. Held'
  BY <1>4, <1>5, <1>6 DEF HeldInv, Held
<1>8. OwnIncidents'
  BY <1>1, <1>2 DEF HeldInv, OwnIncidents, Incidents
<1> QED
  BY <1>3, <1>7, <1>8 DEF HeldInv
-----------------------------------------------------------------------------
(* Experiments ask for samples one after the other. *)

PlanInv == /\ experiment \in [Threads -> Experiment \cup {NoExperiment}]
           /\ \A t \in Threads : Running(t) =>
                 experiment[t] \in Experiment /\ experiment[t].plan # << >>
           /\ named \in 0..MaxSamples

LEMMA Accounts ==
    ASSUME PlanInv, NEW t \in Threads, Running(t), NEW i \in Nat
    PROVE  /\ Accounted(t, i) \in Experiment
           /\ Accounted(t, i).status = "running" => Accounted(t, i).plan # << >>
<1> DEFINE x == experiment[t]
           rest == Tail(x.plan)
           y == [status |-> "failed", plan |-> x.plan, incidents |-> x.incidents]
           z == [status |-> IF rest = << >> THEN "completed" ELSE "running",
                 plan |-> rest, incidents |-> x.incidents \cup {i}]
<1>1. x \in Experiment /\ x.plan # << >>
  BY DEF PlanInv
<1>2. rest \in Seq(Samples) /\ x.plan \in Seq(Samples) /\ x.incidents \in SUBSET Numbers
  BY <1>1 DEF Experiment
<1>3. Accounted(t, i) = y \/ (i # None /\ Accounted(t, i) = z)
  <2>1. CASE i = None
    <3>1. Accounted(t, i) = [x EXCEPT !.status = "failed"]
      BY <2>1 DEF Accounted
    <3> QED
      BY <1>1, <3>1 DEF Experiment
  <2>2. CASE i # None
    <3>1. Accounted(t, i) = [x EXCEPT !.incidents = @ \cup {i}, !.plan = Tail(@),
                        !.status = IF Tail(x.plan) = << >> THEN "completed" ELSE "running"]
      BY <2>2 DEF Accounted
    <3>2. Accounted(t, i) = z
      BY <1>1, <3>1 DEF Experiment
    <3> QED
      BY <2>2, <3>2
  <2> QED
    BY <2>1, <2>2
<1>4. y \in Experiment /\ y.status # "running"
  BY <1>2 DEF Experiment
<1>5. i # None => z \in Experiment /\ (z.status = "running" => z.plan # << >>)
  <2>1. i # None => x.incidents \cup {i} \in SUBSET Numbers
    BY <1>2 DEF Numbers, None
  <2> HIDE DEF rest
  <2> QED
    BY <1>2, <2>1 DEF Experiment
<1> HIDE DEF y, z, Accounted
<1> QED
  BY Zenon, <1>3, <1>4, <1>5

LEMMA ReturningKeepsPlans ==
    ASSUME PlanInv, NEW t \in Threads, NEW i \in Nat, Returns(t, i), UNCHANGED named
    PROVE  PlanInv'
<1>1. CASE Running(t)
  <2>1. experiment' = [experiment EXCEPT ![t] = Accounted(t, i)]
    BY <1>1 DEF Returns
  <2>2. /\ Accounted(t, i) \in Experiment
        /\ Accounted(t, i).status = "running" => Accounted(t, i).plan # << >>
    BY <1>1, Accounts
  <2>3. experiment' \in [Threads -> Experiment \cup {NoExperiment}]
    BY <2>1, <2>2 DEF PlanInv
  <2>4. /\ experiment'[t] = Accounted(t, i)
        /\ \A u \in Threads : u # t => experiment'[u] = experiment[u]
    BY <2>1 DEF PlanInv
  <2> QED
    BY <2>2, <2>3, <2>4 DEF PlanInv, Running
<1>2. CASE ~Running(t)
  BY <1>2 DEF Returns, PlanInv, Running
<1> QED
  BY <1>1, <1>2

(* The incident a call is about, or that a sample has, is a number. *)
LEMMA Numbered ==
    ASSUME HeldInv
    PROVE  /\ \A t \in Threads : Works(t) => call[t].incident \in Nat
           /\ \A p \in Procs, s \in Samples : Existing(p, s) \in Nat
           /\ None \in Nat
BY BornFacts DEF HeldInv, OwnIncidents, Shape, Existing, None

LEMMA PlanNext == HeldInv /\ PlanInv /\ [Next]_vars => PlanInv'
<1> SUFFICES ASSUME HeldInv, PlanInv, [Next]_vars
             PROVE  PlanInv'
  OBVIOUS
<1>1. ASSUME UNCHANGED <<experiment, named>> PROVE PlanInv'
  BY <1>1 DEF PlanInv, Running
<1>2. ASSUME NEW t \in Threads, NEW s \in Samples, Enter(t, s), UNCHANGED named
      PROVE  PlanInv'
  <2>1. ProcOf[t] \in Procs
    BY ProcessAssumption
  <2>2. UNCHANGED experiment \/ \E i \in Nat : Returns(t, i)
    BY <1>2, <2>1, Numbered DEF Enter, Skip
  <2> QED
    BY <1>1, <1>2, <2>2, ReturningKeepsPlans
<1>3. ASSUME NEW t \in Threads, Leave(t) PROVE PlanInv'
  <2>1. Works(t)
    BY <1>3 DEF Leave, Works, Idle
  <2>2. \E i \in Nat : Returns(t, i)
    BY <1>3, <2>1, Numbered DEF Leave
  <2> QED
    BY <1>3, <2>2, ReturningKeepsPlans DEF Leave, bounds
<1>4. ASSUME NEW t \in Threads,
             Chain(t) \/ ChainRaises(t) \/ Defend(t) \/ Emit(t) \/ Finish(t)
      PROVE  PlanInv'
  BY <1>1, <1>4 DEF Chain, ChainRaises, Defend, Emit, Finish, bounds
<1>5. ASSUME NEW t \in Threads, Session(t) PROVE PlanInv'
  <2>1. Head(experiment[t].plan) \in Samples
    BY <1>5 DEF Session, PlanInv, Experiment
  <2> QED
    BY <1>2, <1>5, <2>1 DEF Session
<1>6. ASSUME NEW t \in Threads, NEW s \in Samples, Submit(t, s) PROVE PlanInv'
  BY <1>2, <1>6 DEF Submit
<1>7. ASSUME NEW t \in Threads, Start(t) PROVE PlanInv'
  <2>1. PICK n \in 1..MaxSessions :
          /\ named + n <= MaxSamples
          /\ named' = named + n
          /\ experiment' = [experiment EXCEPT ![t] =
                 [status |-> "running", plan |-> [k \in 1..n |-> named + k], incidents |-> {}]]
    BY <1>7 DEF Start
  <2>2. n \in Nat /\ n > 0 /\ named \in Nat /\ MaxSamples \in Nat
    BY ProcessAssumption DEF PlanInv
  <2> DEFINE plan == [k \in 1..n |-> named + k]
             x == [status |-> "running", plan |-> plan, incidents |-> {}]
  <2>3. \A k \in 1..n : named + k \in Samples
    BY <2>1, <2>2 DEF Samples
  <2>4. plan \in Seq(Samples) /\ Len(plan) = n
    BY <2>2, <2>3
  <2>5. x \in Experiment /\ x.plan # << >>
    <3> HIDE DEF plan
    <3> QED
      BY <2>2, <2>4 DEF Experiment
  <2>6. /\ experiment' \in [Threads -> Experiment \cup {NoExperiment}]
        /\ experiment'[t] = x
        /\ \A u \in Threads : u # t => experiment'[u] = experiment[u]
    <3>1. experiment' = [experiment EXCEPT ![t] = x]
      BY <2>1
    <3> HIDE DEF x
    <3> QED
      BY <2>5, <3>1 DEF PlanInv
  <2> HIDE DEF x
  <2>7. \A u \in Threads : Running(u)' => experiment'[u] \in Experiment /\ experiment'[u].plan # << >>
    BY <2>5, <2>6 DEF PlanInv, Running
  <2>8. named' \in 0..MaxSamples
    BY <2>1, <2>2
  <2> QED
    BY <2>6, <2>7, <2>8 DEF PlanInv
<1>8. ASSUME NEW p \in Procs, Restart(p) PROVE PlanInv'
  <2>1. /\ experiment' = [t \in Threads |-> IF ProcOf[t] = p THEN NoExperiment ELSE experiment[t]]
        /\ UNCHANGED named
    BY <1>8 DEF Restart
  <2>2. \A t \in Threads : experiment'[t] = NoExperiment \/ experiment'[t] = experiment[t]
    BY <2>1
  <2>3. experiment' \in [Threads -> Experiment \cup {NoExperiment}]
    BY <2>1 DEF PlanInv
  <2> QED
    BY <2>1, <2>2, <2>3 DEF PlanInv, Running, NoExperiment
<1>9. CASE UNCHANGED vars
  BY <1>1, <1>9 DEF vars, bounds
<1> QED
  BY <1>3, <1>4, <1>5, <1>6, <1>7, <1>8, <1>9 DEF Next, Step
-----------------------------------------------------------------------------
(* Every step keeps who holds what. *)

LEMMA Appending ==
    ASSUME Shape, NEW p, NEW j \in Nat, NEW k \in Kinds,
           Appended(p, Event(j, k)) \/ AppendRaises(p, Event(j, k))
    PROVE  /\ file' \in Seq([incident : Nat, kind : Kinds])
           /\ file' = Append(file, Event(j, k)) \/ UNCHANGED file
<1>1. file' = Append(file, Event(j, k)) \/ UNCHANGED file
  BY DEF Appended, AppendRaises
<1> QED
  BY <1>1, FileGrows DEF Shape

LEMMA Entering ==
    ASSUME HeldInv, NEW t \in Threads, NEW s \in Samples, Ready(t), Enter(t, s),
           UNCHANGED <<rollbacks, index>>
    PROVE  HeldInv'
<1>1. ~Works(t) /\ ProcOf[t] \in Procs
  BY ProcessAssumption DEF Ready, Works
<1>2. CASE Skip(t, s) /\ UNCHANGED <<inFlight, born>>
  <2>1. Existing(ProcOf[t], s) \in Nat /\ "skip" \in Kinds
    BY <1>1, Numbered DEF Kinds
  <2>2. file' \in Seq([incident : Nat, kind : Kinds])
    BY <1>2, <2>1, Appending DEF Skip, HeldInv
  <2>3. call' = [call EXCEPT ![t] = Idle]
    BY <1>2 DEF Skip, Returns
  <2> QED
    BY <1>1, <1>2, <2>2, <2>3, Refused
<1>3. CASE Returns(t, None) /\ UNCHANGED <<file, inFlight, born>>
  BY <1>1, <1>3, Refused DEF Returns, HeldInv, Shape
<1>4. CASE /\ ~Busy(ProcOf[t], s)
           /\ inFlight' = [inFlight EXCEPT ![ProcOf[t]] = @ \cup {s}]
           /\ born' = Append(born, [sample |-> s, process |-> ProcOf[t]])
           /\ call' = [call EXCEPT ![t] = [pc |-> "chain", sample |-> s,
                                           incident |-> Len(born) + 1]]
           /\ UNCHANGED file
  BY <1>1, <1>4, Taking
<1> QED
  BY <1>2, <1>3, <1>4 DEF Enter

(* What is left to record starts with an event and leaves a plan. *)
LEMMA HeadOfPending ==
    ASSUME NEW t \in Threads, Recording(t),
           call[t].pc = "emit" => call[t].todo \in Plans
    PROVE  /\ Head(Pending(t)) \in Kinds
           /\ Tail(Pending(t)) \in Plans
           /\ Head(Pending(t)) = "settled" <=> Tail(Pending(t)) = << >>
           /\ call[t].pc = "measure" =>
                 /\ Head(Pending(t)) = "detected"
                 /\ call[t].recovered /\ RollbackOccurred(t) =>
                       Tail(Pending(t)) = <<"rollback", "settled">>
           /\ call[t].pc = "emit" =>
                 \/ /\ call[t].todo = <<"rollback", "settled">>
                    /\ Head(Pending(t)) = "rollback" /\ Tail(Pending(t)) = <<"settled">>
                 \/ /\ call[t].todo = <<"settled">>
                    /\ Head(Pending(t)) = "settled" /\ Tail(Pending(t)) = << >>
<1>1. CASE call[t].pc = "measure"
  <2> DEFINE undone == call[t].recovered /\ RollbackOccurred(t)
  <2>1. /\ undone => Pending(t) = <<"detected", "rollback", "settled">>
        /\ ~undone => Pending(t) = <<"detected", "settled">>
    <3>1. Pending(t) = History(t)
      BY <1>1 DEF Pending
    <3> QED
      BY Zenon, <3>1 DEF History
  <2>2. /\ Head(<<"detected", "rollback", "settled">>) = "detected"
        /\ Tail(<<"detected", "rollback", "settled">>) = <<"rollback", "settled">>
        /\ Head(<<"detected", "settled">>) = "detected"
        /\ Tail(<<"detected", "settled">>) = <<"settled">>
        /\ <<"rollback", "settled">> # << >> /\ <<"settled">> # << >>
    OBVIOUS
  <2> QED
    BY <1>1, <2>1, <2>2 DEF Kinds, Plans
<1>2. CASE call[t].pc = "emit"
  <2>1. Pending(t) = <<"rollback", "settled">> \/ Pending(t) = <<"settled">>
    BY <1>2 DEF Pending, Recording, Plans
  <2>2. /\ Head(<<"rollback", "settled">>) = "rollback"
        /\ Tail(<<"rollback", "settled">>) = <<"settled">>
        /\ Head(<<"settled">>) = "settled"
        /\ Tail(<<"settled">>) = << >>
        /\ <<"settled">> # << >>
    OBVIOUS
  <2>3. Pending(t) = call[t].todo
    BY <1>2 DEF Pending
  <2> QED
    BY <1>2, <2>1, <2>2, <2>3 DEF Kinds, Plans
<1> QED
  BY <1>1, <1>2 DEF Recording

LEMMA HeldNext == RollbackInv /\ PlanInv /\ [Next]_vars => HeldInv'
<1> SUFFICES ASSUME RollbackInv, PlanInv, [Next]_vars
             PROVE  HeldInv'
  OBVIOUS
<1> USE DEF RollbackInv
<1>a. /\ file \in Seq([incident : Nat, kind : Kinds])
      /\ rollbacks \in [Procs -> Nat]
      /\ index \in [Procs -> [Samples -> Nat]]
  BY DEF HeldInv, Shape
<1>b. \A t \in Threads : /\ Ending(t).pc \in Phases
                         /\ Ending(t).sample = call[t].sample
                         /\ Ending(t).incident = call[t].incident
  BY DEF Ending, Phases
<1>1. ASSUME NEW t \in Threads, Chain(t) PROVE HeldInv'
  <2> DEFINE c == [pc |-> "defend", sample |-> call[t].sample,
                   incident |-> call[t].incident, before |-> rollbacks[ProcOf[t]]]
  <2>1. /\ Works(t) /\ call' = [call EXCEPT ![t] = c]
        /\ UNCHANGED <<inFlight, born, rollbacks, index, file>>
    BY <1>1 DEF Chain, manager, history, Works, Idle
  <2>2. c.pc \in Phases /\ c.sample = call[t].sample /\ c.incident = call[t].incident
    BY DEF Phases
  <2> HIDE DEF c
  <2> QED
    BY <1>a, <2>1, <2>2, GoingOn
<1>2. ASSUME NEW t \in Threads, ChainRaises(t) PROVE HeldInv'
  <2>1. /\ Works(t) /\ call' = [call EXCEPT ![t] = Ending(t)]
        /\ UNCHANGED <<inFlight, born, rollbacks, index, file>>
    BY <1>2 DEF ChainRaises, manager, history, Works, Idle
  <2> QED
    BY <1>a, <1>b, <2>1, GoingOn
<1>3. ASSUME NEW t \in Threads, Defend(t) PROVE HeldInv'
  <2>1. PICK c : /\ call' = [call EXCEPT ![t] = c]
                 /\ c.pc \in Phases
                 /\ c.sample = call[t].sample
                 /\ c.incident = call[t].incident
    <3>1. PICK outcome \in {"verified", "recovered", "rolled back"} :
                 call' = [call EXCEPT ![t] =
                     [pc |-> "measure", sample |-> call[t].sample, incident |-> call[t].incident,
                      before |-> call[t].before, recovered |-> outcome # "verified"]]
      BY <1>3 DEF Defend
    <3> DEFINE d == [pc |-> "measure", sample |-> call[t].sample, incident |-> call[t].incident,
                     before |-> call[t].before, recovered |-> outcome # "verified"]
    <3>2. call' = [call EXCEPT ![t] = d]
      BY Zenon, <3>1
    <3>3. d.pc \in Phases /\ d.sample = call[t].sample /\ d.incident = call[t].incident
      BY DEF Phases
    <3> HIDE DEF d
    <3> QED
      BY <3>2, <3>3
  <2>2. call[t].pc = "defend" /\ UNCHANGED <<file, manager, born>>
    BY <1>3 DEF Defend
  <2>3. Works(t) /\ UNCHANGED <<inFlight, born, index, file>>
    BY <2>2 DEF manager, Works, Idle
  <2>4. \/ rollbacks' = [rollbacks EXCEPT ![ProcOf[t]] = @ + 1]
        \/ UNCHANGED rollbacks
    BY <1>3 DEF Defend
  <2>5. rollbacks' \in [Procs -> Nat]
    <3>1. \A n \in Nat : n + 1 \in Nat
      OBVIOUS
    <3>2. ProcOf[t] \in Procs => rollbacks[ProcOf[t]] + 1 \in Nat
      BY <1>a, <3>1
    <3>3. [rollbacks EXCEPT ![ProcOf[t]] = @ + 1] \in [Procs -> Nat]
      BY <1>a, <3>2
    <3> QED
      BY <1>a, <2>4, <3>3
  <2> QED
    BY <1>a, <2>1, <2>3, <2>5, GoingOn
<1>4. ASSUME NEW t \in Threads, Emit(t) PROVE HeldInv'
  <2>1. Works(t) /\ Recording(t)
    BY <1>4 DEF Emit, Recording, Works, Idle
  <2>2. Head(Pending(t)) \in Kinds
    BY <2>1, HeadOfPending DEF InOrder
  <2>3. call[t].incident \in Nat
    BY <2>1, Numbered
  <2>4. file' \in Seq([incident : Nat, kind : Kinds])
    BY <1>4, <2>2, <2>3, Appending DEF Emit, HeldInv
  <2>5. PICK c \in {Remaining(t), Ending(t)} : call' = [call EXCEPT ![t] = c]
    BY <1>4 DEF Emit
  <2>6. c.pc \in Phases /\ c.sample = call[t].sample /\ c.incident = call[t].incident
    BY <1>b, <2>5 DEF Remaining, Phases
  <2> QED
    BY <1>4, <1>a, <2>1, <2>4, <2>5, <2>6, GoingOn DEF Emit
<1>5. ASSUME NEW t \in Threads, Finish(t) PROVE HeldInv'
  <2>1. Works(t) /\ call' = [call EXCEPT ![t] = Ending(t)]
    BY <1>5 DEF Finish, Works, Idle
  <2>2. call[t].incident \in Nat
    BY <2>1, Numbered
  <2>3. index' \in [Procs -> [Samples -> Nat]]
    <3>1. \/ UNCHANGED index
          \/ index' = [index EXCEPT ![ProcOf[t]][call[t].sample] = call[t].incident]
      BY <1>5 DEF Finish
    <3>2. ProcOf[t] \in Procs /\ index[ProcOf[t]] \in [Samples -> Nat]
      BY <1>a, ProcessAssumption
    <3>3. [index[ProcOf[t]] EXCEPT ![call[t].sample] = call[t].incident] \in [Samples -> Nat]
      BY <2>2, <3>2
    <3> QED
      BY <1>a, <3>1, <3>2, <3>3
  <2> QED
    BY <1>5, <1>a, <1>b, <2>1, <2>3, GoingOn DEF Finish
<1>6. ASSUME NEW t \in Threads, Leave(t) PROVE HeldInv'
  <2>1. Works(t)
    BY <1>6 DEF Leave, Works, Idle
  <2> QED
    BY <1>6, <2>1, Leaving DEF Leave, Returns, history
<1>7. ASSUME NEW t \in Threads, Session(t) PROVE HeldInv'
  <2>1. Head(experiment[t].plan) \in Samples
    BY <1>7 DEF Session, PlanInv, Experiment
  <2> QED
    BY <1>7, <2>1, Entering DEF Session
<1>8. ASSUME NEW t \in Threads, NEW s \in Samples, Submit(t, s) PROVE HeldInv'
  BY <1>8, Entering DEF Submit
<1>9. ASSUME UNCHANGED <<call, inFlight, born, rollbacks, index, file>> PROVE HeldInv'
  <2>1. Shape' /\ Held'
    BY <1>9 DEF HeldInv, Shape, Held, Holds, Works
  <2>2. OwnIncidents'
    BY <1>9 DEF HeldInv, OwnIncidents, Works, Incidents
  <2> QED
    BY <2>1, <2>2 DEF HeldInv
<1>10. ASSUME NEW t \in Threads, Start(t) PROVE HeldInv'
  BY <1>9, <1>10 DEF Start, manager, history
<1>11. ASSUME NEW p \in Procs, Restart(p) PROVE HeldInv'
  BY <1>11, Dying
<1>12. CASE UNCHANGED vars
  BY <1>9, <1>12 DEF vars, manager, history
<1> QED
  BY <1>1, <1>2, <1>3, <1>4, <1>5, <1>6, <1>7, <1>8, <1>10, <1>11, <1>12 DEF Next, Step
-----------------------------------------------------------------------------
(* What an undone action leaves in the history *)

(* Whatever others do, a thread's incident stays where it is as long as    *)
(* nobody else settles it, undoes it or takes a rollback away.             *)
LEMMA Undisturbed ==
    ASSUME RollbackInv, NEW t \in Threads, Works(t),
           call'[t] = call[t],
           rollbacks'[ProcOf[t]] \in Nat,
           rollbacks'[ProcOf[t]] >= rollbacks[ProcOf[t]],
           Settled(call[t].incident)' => Settled(call[t].incident),
           HasRollback(call[t].incident) => HasRollback(call[t].incident)',
           call[t].incident \in rolledBack' => call[t].incident \in rolledBack
    PROVE  InOrder(t)'
<1> DEFINE i == call[t].incident
<1>1. InOrder(t)
  BY DEF RollbackInv
<1>2. /\ rollbacks[ProcOf[t]] \in Nat
  BY ProcessAssumption DEF RollbackInv, HeldInv, Shape
<1>3. Before(call'[t]) <=> Before(call[t])
  BY DEF Before
<1>4. /\ call[t].pc \in {"chain", "defend"} => i \notin rolledBack'
      /\ Before(call[t]) => ~Settled(i)'
  BY <1>1 DEF InOrder
<1>5. call[t].pc \in {"defend", "measure"} =>
          call[t].before \in Nat /\ call[t].before <= rollbacks'[ProcOf[t]]
  BY <1>1, <1>2 DEF InOrder
<1>6. call[t].pc = "measure" /\ i \in rolledBack' => call[t].recovered /\ RollbackOccurred(t)'
  <2> SUFFICES ASSUME call[t].pc = "measure", i \in rolledBack'
               PROVE  call[t].recovered /\ RollbackOccurred(t)'
    OBVIOUS
  <2>1. call[t].recovered /\ RollbackOccurred(t) /\ call[t].before \in Nat
    BY <1>1 DEF InOrder
  <2>2. RollbackOccurred(t)'
    BY <1>2, <2>1 DEF RollbackOccurred
  <2> QED
    BY <2>1, <2>2
<1>7. call[t].pc = "emit" =>
          /\ call[t].todo \in Plans
          /\ call[t].todo # << >> => ~Settled(i)'
          /\ i \in rolledBack' /\ call[t].todo # <<"rollback", "settled">> => HasRollback(i)'
  BY <1>1 DEF InOrder
<1> QED
  BY <1>3, <1>4, <1>5, <1>6, <1>7 DEF InOrder

(* A step that appends nothing and undoes nothing. *)
LEMMA NothingRecorded ==
    ASSUME RollbackInv, HeldInv', NEW T \in SUBSET Threads,
           UNCHANGED <<file, rolledBack>>, Incidents \subseteq Incidents',
           \A t \in Threads \ T : Works(t)' =>
               /\ call'[t] = call[t]
               /\ rollbacks'[ProcOf[t]] = rollbacks[ProcOf[t]],
           \A t \in T : Works(t)' => InOrder(t)'
    PROVE  RollbackInv'
<1>1. \A i : (Settled(i)' <=> Settled(i)) /\ (HasRollback(i)' <=> HasRollback(i))
  BY FileUnchanged
<1>2. ASSUME NEW t \in Threads \ T, Works(t)' PROVE InOrder(t)'
  <2>1. /\ Works(t) /\ call'[t] = call[t] /\ rollbacks'[ProcOf[t]] = rollbacks[ProcOf[t]]
        /\ rollbacks[ProcOf[t]] \in Nat
    BY <1>2, ProcessAssumption DEF Works, RollbackInv, HeldInv, Shape
  <2>2. rollbacks'[ProcOf[t]] >= rollbacks[ProcOf[t]]
    BY <2>1
  <2> QED
    BY <1>1, <2>1, <2>2, Undisturbed
<1>3. RollbackIsRecorded'
  <2>1. \A i \in rolledBack' : Settled(i)' => HasRollback(i)'
    BY <1>1 DEF RollbackInv, RollbackIsRecorded, HasRollback
  <2> QED
    BY <2>1 DEF RollbackIsRecorded, HasRollback
<1>4. rolledBack' \subseteq Incidents' /\ \A i \in Nat : Settled(i)' => i \in Incidents'
  BY <1>1 DEF RollbackInv
<1> QED
  BY <1>2, <1>3, <1>4 DEF RollbackInv

(* A step that appends an event. *)
LEMMA EventRecorded ==
    ASSUME RollbackInv, HeldInv', NEW T \in SUBSET Threads,
           NEW j \in Nat, NEW k \in Kinds, file' = Append(file, Event(j, k)),
           UNCHANGED <<rolledBack, born, rollbacks>>,
           k = "settled" =>
               /\ j \in Incidents
               /\ j \in rolledBack => HasRollback(j)
               /\ \A t \in Threads \ T : Works(t) => call[t].incident # j,
           \A t \in Threads \ T : call'[t] = call[t],
           \A t \in T : Works(t)' => InOrder(t)'
    PROVE  RollbackInv'
<1>1. /\ \A i : Settled(i)' <=> Settled(i) \/ (i = j /\ k = "settled")
      /\ \A i : HasRollback(i)' <=> HasRollback(i) \/ (i = j /\ k = "rollback")
  BY FileGrows DEF RollbackInv, HeldInv
<1>2. ASSUME NEW t \in Threads \ T, Works(t)' PROVE InOrder(t)'
  <2>1. /\ Works(t) /\ call'[t] = call[t]
        /\ rollbacks'[ProcOf[t]] = rollbacks[ProcOf[t]]
        /\ rollbacks[ProcOf[t]] \in Nat
    BY <1>2, ProcessAssumption DEF Works, RollbackInv, HeldInv, Shape
  <2>2. rollbacks'[ProcOf[t]] >= rollbacks[ProcOf[t]]
    BY <2>1
  <2>3. Settled(call[t].incident)' => Settled(call[t].incident)
    BY <1>1, <2>1
  <2> QED
    BY <1>1, <2>1, <2>2, <2>3, Undisturbed
<1>3. RollbackIsRecorded'
  <2>1. \A i \in rolledBack : Settled(i) => HasRollback(i)
    BY DEF RollbackInv, RollbackIsRecorded, HasRollback
  <2>2. \A i \in rolledBack' : Settled(i)' => HasRollback(i)'
    BY <1>1, <2>1
  <2> QED
    BY <2>2 DEF RollbackIsRecorded, HasRollback
<1>4. rolledBack' \subseteq Incidents' /\ \A i \in Nat : Settled(i)' => i \in Incidents'
  BY <1>1 DEF RollbackInv, Incidents
<1> QED
  BY <1>2, <1>3, <1>4 DEF RollbackInv

LEMMA ChainKeepsOrder ==
    ASSUME RollbackInv, HeldInv', NEW t \in Threads, Chain(t) \/ ChainRaises(t)
    PROVE  RollbackInv'
<1>1. /\ UNCHANGED <<file, rolledBack, born, rollbacks>>
      /\ call[t].pc = "chain" /\ Works(t)
      /\ \E c : call' = [call EXCEPT ![t] = c]
  BY DEF Chain, ChainRaises, history, Works, Idle
<1>2. /\ \A u \in Threads \ {t} : call'[u] = call[u]
      /\ \A c : call' = [call EXCEPT ![t] = c] => call'[t] = c
  BY <1>1 DEF RollbackInv, HeldInv, Shape
<1>3. InOrder(t) /\ rollbacks[ProcOf[t]] \in Nat
  BY <1>1, ProcessAssumption DEF RollbackInv, HeldInv, Shape
<1>a. /\ {t} \in SUBSET Threads /\ Incidents \subseteq Incidents'
      /\ \A u \in Threads \ {t} : Works(u)' =>
            call'[u] = call[u] /\ rollbacks'[ProcOf[u]] = rollbacks[ProcOf[u]]
  BY <1>1, <1>2 DEF Incidents
<1>4. \A i : (Settled(i)' <=> Settled(i)) /\ (HasRollback(i)' <=> HasRollback(i))
  BY <1>1, FileUnchanged
<1>5. CASE Chain(t)
  <2>1. /\ call'[t].pc = "defend" /\ call'[t].incident = call[t].incident
        /\ call'[t].before = rollbacks[ProcOf[t]]
    BY <1>2, <1>5 DEF Chain
  <2>2. InOrder(t)'
    BY <1>1, <1>3, <1>4, <2>1 DEF InOrder, Before
  <2>3. \A u \in {t} : Works(u)' => InOrder(u)'
    BY <2>2
  <2> QED
    BY <1>1, <1>a, <2>3, NothingRecorded
<1>6. CASE ChainRaises(t)
  <2>1. call'[t].pc = "leave"
    BY <1>2, <1>6 DEF ChainRaises, Ending
  <2>2. InOrder(t)'
    BY <2>1 DEF InOrder, Before
  <2>3. \A u \in {t} : Works(u)' => InOrder(u)'
    BY <2>2
  <2> QED
    BY <1>1, <1>a, <2>3, NothingRecorded
<1> QED
  BY <1>5, <1>6

LEMMA DefendKeepsOrder ==
    ASSUME RollbackInv, HeldInv', NEW t \in Threads, Defend(t)
    PROVE  RollbackInv'
<1> DEFINE c == call[t]
           i == call[t].incident
           p == ProcOf[t]
<1>1. /\ c.pc = "defend" /\ Works(t)
      /\ UNCHANGED <<file, born>>
  <2>1. c.pc = "defend" /\ UNCHANGED <<file, born>>
    BY DEF Defend
  <2> QED
    BY <2>1 DEF Works, Idle
<1>2. /\ call'[t].pc = "measure" /\ call'[t].incident = i /\ call'[t].before = c.before
      /\ \A u \in Threads \ {t} : call'[u] = call[u]
      /\ \/ UNCHANGED <<rollbacks, rolledBack>>
         \/ /\ rollbacks' = [rollbacks EXCEPT ![p] = @ + 1]
            /\ rolledBack' = rolledBack \cup {i}
            /\ call'[t].recovered
  <2>1. PICK outcome \in {"verified", "recovered", "rolled back"} :
              /\ call' = [call EXCEPT ![t] =
                     [pc |-> "measure", sample |-> c.sample, incident |-> c.incident,
                      before |-> c.before, recovered |-> outcome # "verified"]]
              /\ \/ UNCHANGED <<rollbacks, rolledBack>>
                 \/ /\ rollbacks' = [rollbacks EXCEPT ![p] = @ + 1]
                    /\ rolledBack' = rolledBack \cup {i}
                    /\ outcome = "rolled back"
    BY DEF Defend
  <2> DEFINE d == [pc |-> "measure", sample |-> c.sample, incident |-> c.incident,
                   before |-> c.before, recovered |-> outcome # "verified"]
  <2>2. /\ d.pc = "measure" /\ d.incident = i /\ d.before = c.before
    OBVIOUS
  <2>3. outcome = "rolled back" => d.recovered
    OBVIOUS
  <2>4. call' = [call EXCEPT ![t] = d]
    BY Zenon, <2>1
  <2> HIDE DEF d
  <2>5. call'[t] = d /\ \A u \in Threads \ {t} : call'[u] = call[u]
    BY <2>4 DEF RollbackInv, HeldInv, Shape
  <2> HIDE DEF c, i, p
  <2> QED
    BY Zenon, <2>1, <2>2, <2>3, <2>5
<1>3. /\ InOrder(t) /\ rollbacks[p] \in Nat /\ p \in Procs
      /\ i \in Incidents /\ i \notin rolledBack /\ ~Settled(i)
      /\ c.before \in Nat /\ c.before <= rollbacks[p]
  BY <1>1, ProcessAssumption DEF RollbackInv, HeldInv, Shape, OwnIncidents, InOrder, Before
<1>4. \A j : (Settled(j)' <=> Settled(j)) /\ (HasRollback(j)' <=> HasRollback(j))
  BY <1>1, FileUnchanged
<1>5. CASE UNCHANGED <<rollbacks, rolledBack>>
  <2>1. InOrder(t)'
    BY <1>2, <1>3, <1>4, <1>5 DEF InOrder, Before
  <2>2. \A u \in {t} : Works(u)' => InOrder(u)'
    BY <2>1
  <2>3. /\ {t} \in SUBSET Threads /\ Incidents \subseteq Incidents'
        /\ \A u \in Threads \ {t} : Works(u)' =>
              call'[u] = call[u] /\ rollbacks'[ProcOf[u]] = rollbacks[ProcOf[u]]
    BY <1>1, <1>2, <1>5 DEF Incidents
  <2> QED
    BY <1>1, <1>5, <2>2, <2>3, NothingRecorded
<1>6. CASE /\ rollbacks' = [rollbacks EXCEPT ![p] = @ + 1]
           /\ rolledBack' = rolledBack \cup {i}
           /\ call'[t].recovered
  <2>1. /\ rollbacks'[p] = rollbacks[p] + 1
        /\ \A q \in Procs : q # p => rollbacks'[q] = rollbacks[q]
        /\ rollbacks \in [Procs -> Nat]
    BY <1>3, <1>6 DEF RollbackInv, HeldInv, Shape
  <2>2. RollbackOccurred(t)' /\ c.before <= rollbacks'[p]
    BY <1>2, <1>3, <2>1 DEF RollbackOccurred
  <2>3. InOrder(t)'
    BY <1>2, <1>3, <1>4, <1>6, <2>2 DEF InOrder, Before
  <2>4. ASSUME NEW u \in Threads \ {t}, Works(u)'
        PROVE  InOrder(u)'
    <3>1. Works(u) /\ call'[u] = call[u] /\ ProcOf[u] \in Procs
      BY <1>2, <2>4, ProcessAssumption DEF Works
    <3>2. rollbacks'[ProcOf[u]] \in Nat /\ rollbacks'[ProcOf[u]] >= rollbacks[ProcOf[u]]
      BY <1>3, <2>1, <3>1
    <3>3. call[u].incident # i
      BY <1>1, <2>4, <3>1 DEF RollbackInv, HeldInv, OwnIncidents
    <3>4. call[u].incident \in rolledBack' => call[u].incident \in rolledBack
      BY <1>6, <3>3
    <3> QED
      BY <1>4, <3>1, <3>2, <3>4, Undisturbed
  <2>5. RollbackIsRecorded'
    <3>1. \A j \in rolledBack' : Settled(j)' => j \in rolledBack /\ HasRollback(j)'
      BY <1>3, <1>4, <1>6 DEF RollbackInv, RollbackIsRecorded, HasRollback
    <3> QED
      BY <3>1 DEF RollbackIsRecorded, HasRollback
  <2>6. rolledBack' \subseteq Incidents' /\ \A j \in Nat : Settled(j)' => j \in Incidents'
    BY <1>1, <1>3, <1>4, <1>6 DEF RollbackInv, Incidents
  <2> QED
    BY <2>3, <2>4, <2>5, <2>6 DEF RollbackInv
<1> QED
  BY <1>2, <1>5, <1>6

LEMMA EmitKeepsOrder ==
    ASSUME RollbackInv, HeldInv', NEW t \in Threads, Emit(t)
    PROVE  RollbackInv'
<1>1. /\ Recording(t) /\ Works(t)
      /\ UNCHANGED <<born, rolledBack, rollbacks>>
  BY DEF Emit, Recording, Works, Idle
<1>i. PICK i \in Nat : i = call[t].incident
  BY <1>1, Numbered DEF RollbackInv
<1>k. PICK k : k = Head(Pending(t))
  OBVIOUS
<1>2. InOrder(t) /\ i \in Incidents
  BY <1>1, <1>i DEF RollbackInv, HeldInv, OwnIncidents
<1>3. /\ k \in Kinds
      /\ Tail(Pending(t)) \in Plans
      /\ call[t].pc = "measure" =>
            /\ k = "detected"
            /\ call[t].recovered /\ RollbackOccurred(t) =>
                  Tail(Pending(t)) = <<"rollback", "settled">>
      /\ call[t].pc = "emit" =>
            \/ /\ call[t].todo = <<"rollback", "settled">>
               /\ k = "rollback" /\ Tail(Pending(t)) = <<"settled">>
            \/ /\ call[t].todo = <<"settled">>
               /\ k = "settled" /\ Tail(Pending(t)) = << >>
  BY <1>1, <1>2, <1>k, HeadOfPending DEF InOrder
<1>4. k = "settled" => (i \in rolledBack => HasRollback(i))
  BY <1>1, <1>i, <1>2, <1>3 DEF InOrder, Recording
<1>5. \A u \in Threads \ {t} : Works(u) => call[u].incident # i
  BY <1>1, <1>i DEF RollbackInv, HeldInv, OwnIncidents
<1>6. /\ \A u \in Threads \ {t} : call'[u] = call[u]
      /\ \A c : call' = [call EXCEPT ![t] = c] => call'[t] = c
  BY DEF Emit, RollbackInv, HeldInv, Shape
<1>7. {t} \in SUBSET Threads /\ Incidents \subseteq Incidents'
  BY <1>1 DEF Incidents
<1>8. \/ /\ file' = Append(file, Event(i, k))
         /\ call'[t] = Remaining(t)
      \/ /\ file' = Append(file, Event(i, k)) \/ UNCHANGED file
         /\ call'[t] = Ending(t)
  BY <1>6, <1>i, <1>k DEF Emit, Appended, AppendRaises
<1>9. CASE /\ file' = Append(file, Event(i, k))
           /\ call'[t] = Remaining(t)
  <2>1. /\ call'[t].pc = "emit" /\ call'[t].incident = i
        /\ call'[t].todo = Tail(Pending(t))
    BY <1>9, <1>i DEF Remaining
  <2>2. /\ Settled(i)' <=> Settled(i) \/ k = "settled"
        /\ HasRollback(i)' <=> HasRollback(i) \/ k = "rollback"
    BY <1>2, <1>3, <1>9, FileGrows DEF RollbackInv, HeldInv
  <2>3. InOrder(t)'
    <3>1. CASE call[t].pc = "measure"
      <4>1. ~Settled(i)'
        BY <1>i, <1>2, <1>3, <2>2, <3>1 DEF InOrder, Before
      <4>2. i \in rolledBack => Tail(Pending(t)) = <<"rollback", "settled">>
        BY <1>i, <1>2, <1>3, <3>1 DEF InOrder
      <4> QED
        BY <1>1, <1>3, <2>1, <4>1, <4>2 DEF InOrder, Before
    <3>2. CASE call[t].pc = "emit"
      <4>1. CASE k = "rollback" /\ Tail(Pending(t)) = <<"settled">>
        <5>1. call[t].todo = <<"rollback", "settled">> /\ k # "settled"
          BY <1>3, <3>2, <4>1
        <5>2. call[t].todo # << >>
          BY <5>1
        <5>3. ~Settled(i)' /\ HasRollback(i)'
          BY <1>i, <1>2, <2>2, <3>2, <4>1, <5>1, <5>2 DEF InOrder
        <5> QED
          BY <1>1, <1>3, <2>1, <5>3 DEF InOrder, Before
      <4>2. CASE k = "settled" /\ Tail(Pending(t)) = << >>
        <5>1. i \in rolledBack => HasRollback(i)'
          BY <1>4, <2>2, <4>2
        <5> QED
          BY <1>1, <1>3, <2>1, <4>2, <5>1 DEF InOrder, Before
      <4> QED
        BY <1>3, <3>2, <4>1, <4>2
    <3> QED
      BY <1>1, <3>1, <3>2 DEF Recording
  <2>4. \A u \in {t} : Works(u)' => InOrder(u)'
    BY <2>3
  <2> QED
    BY <1>1, <1>2, <1>3, <1>4, <1>5, <1>6, <1>7, <1>9, <2>4, EventRecorded
<1>10. CASE call'[t] = Ending(t)
  <2>1. InOrder(t)'
    BY <1>10 DEF Ending, InOrder, Before
  <2>2. \A u \in {t} : Works(u)' => InOrder(u)'
    BY <2>1
  <2>3. CASE file' = Append(file, Event(i, k))
    BY <1>1, <1>2, <1>3, <1>4, <1>5, <1>6, <1>7, <2>2, <2>3, EventRecorded
  <2>4. CASE UNCHANGED file
    <3>1. \A u \in Threads \ {t} : Works(u)' =>
              call'[u] = call[u] /\ rollbacks'[ProcOf[u]] = rollbacks[ProcOf[u]]
      BY <1>1, <1>6
    <3> QED
      BY <1>1, <1>7, <2>2, <2>4, <3>1, NothingRecorded
  <2> QED
    BY <1>8, <2>3, <2>4
<1> QED
  BY <1>8, <1>9, <1>10

LEMMA EnterKeepsOrder ==
    ASSUME RollbackInv, HeldInv', NEW t \in Threads, NEW s \in Samples,
           Ready(t), Enter(t, s), UNCHANGED <<rollbacks, rolledBack>>
    PROVE  RollbackInv'
<1>1. /\ ~Works(t) /\ ProcOf[t] \in Procs /\ {t} \in SUBSET Threads
  BY ProcessAssumption DEF Ready, Works
<1>2. ASSUME call' = [call EXCEPT ![t] = Idle]
      PROVE  /\ \A u \in Threads \ {t} : call'[u] = call[u]
             /\ \A u \in {t} : Works(u)' => InOrder(u)'
  BY <1>2 DEF RollbackInv, HeldInv, Shape, Works
<1>3. ASSUME call' = [call EXCEPT ![t] = Idle], UNCHANGED <<file, born>>
      PROVE  RollbackInv'
  <2>1. /\ \A u \in Threads \ {t} : Works(u)' =>
               call'[u] = call[u] /\ rollbacks'[ProcOf[u]] = rollbacks[ProcOf[u]]
        /\ Incidents \subseteq Incidents'
    BY <1>2, <1>3 DEF Incidents
  <2> QED
    BY <1>1, <1>2, <1>3, <2>1, NothingRecorded
<1>4. CASE Skip(t, s) /\ UNCHANGED <<inFlight, born>>
  <2> DEFINE j == Existing(ProcOf[t], s)
             k == "skip"
  <2>1. j \in Nat /\ k \in Kinds /\ k # "settled"
    BY <1>1, Numbered DEF Kinds, RollbackInv
  <2>2. call' = [call EXCEPT ![t] = Idle]
    BY <1>4 DEF Skip, Returns
  <2>3. file' = Append(file, Event(j, k)) \/ UNCHANGED file
    BY <1>4 DEF Skip, Appended, AppendRaises
  <2> HIDE DEF j, k
  <2>4. CASE file' = Append(file, Event(j, k))
    BY <1>1, <1>2, <1>4, <2>1, <2>2, <2>4, EventRecorded
  <2> QED
    BY <1>3, <1>4, <2>2, <2>3, <2>4
<1>5. CASE Returns(t, None) /\ UNCHANGED <<file, inFlight, born>>
  BY <1>3, <1>5 DEF Returns
<1>6. CASE /\ born' = Append(born, [sample |-> s, process |-> ProcOf[t]])
           /\ call' = [call EXCEPT ![t] = [pc |-> "chain", sample |-> s,
                                           incident |-> Len(born) + 1]]
           /\ UNCHANGED file
  <2>1. /\ call'[t].pc = "chain" /\ call'[t].incident = Len(born) + 1
        /\ \A u \in Threads \ {t} : call'[u] = call[u]
    BY <1>6 DEF RollbackInv, HeldInv, Shape
  <2>2. /\ Len(born) + 1 \notin Incidents /\ Len(born) + 1 \in Nat
        /\ Incidents \subseteq Incidents'
    BY <1>1, <1>6, BornGrows DEF RollbackInv, HeldInv
  <2>3. Len(born) + 1 \notin rolledBack /\ ~Settled(Len(born) + 1)
    BY <2>2 DEF RollbackInv
  <2>4. InOrder(t)'
    BY <1>6, <2>1, <2>3, FileUnchanged DEF InOrder, Before
  <2>5. /\ \A u \in {t} : Works(u)' => InOrder(u)'
        /\ \A u \in Threads \ {t} : Works(u)' =>
               call'[u] = call[u] /\ rollbacks'[ProcOf[u]] = rollbacks[ProcOf[u]]
    BY <2>1, <2>4
  <2> QED
    BY <1>1, <1>6, <2>2, <2>5, NothingRecorded
<1> QED
  BY <1>4, <1>5, <1>6 DEF Enter

LEMMA RollbackNext == RollbackInv /\ PlanInv /\ [Next]_vars => RollbackInv'
<1> SUFFICES ASSUME RollbackInv, PlanInv, [Next]_vars
             PROVE  RollbackInv'
  OBVIOUS
<1>1. HeldInv'
  BY HeldNext
<1>2. ASSUME UNCHANGED <<file, rolledBack, born, rollbacks>>,
             \A t \in Threads : Works(t)' => call'[t] = call[t] \/ call'[t].pc = "leave"
      PROVE  RollbackInv'
  <2> DEFINE T == {t \in Threads : Works(t)' /\ call'[t].pc = "leave"}
  <2>1. T \in SUBSET Threads /\ Incidents \subseteq Incidents'
    BY <1>2 DEF Incidents
  <2>2. \A t \in T : Works(t)' => InOrder(t)'
    BY DEF InOrder, Before
  <2>3. \A t \in Threads \ T : Works(t)' =>
            call'[t] = call[t] /\ rollbacks'[ProcOf[t]] = rollbacks[ProcOf[t]]
    BY <1>2
  <2> HIDE DEF T
  <2> QED
    BY <1>1, <1>2, <2>1, <2>2, <2>3, NothingRecorded
<1>3. ASSUME NEW t \in Threads, Finish(t) PROVE RollbackInv'
  <2>1. /\ UNCHANGED <<file, rolledBack, born, rollbacks>>
        /\ call' = [call EXCEPT ![t] = Ending(t)]
    BY <1>3 DEF Finish
  <2>2. \A u \in Threads : call'[u] = call[u] \/ call'[u] = Ending(t)
    BY <2>1 DEF RollbackInv, HeldInv, Shape
  <2>3. Ending(t).pc = "leave"
    BY DEF Ending
  <2> QED
    BY <1>2, <2>1, <2>2, <2>3
<1>4. ASSUME NEW t \in Threads, Leave(t) PROVE RollbackInv'
  <2>1. /\ UNCHANGED <<file, rolledBack, born, rollbacks>>
        /\ call' = [call EXCEPT ![t] = Idle]
    BY <1>4 DEF Leave, Returns, history
  <2>2. \A u \in Threads : Works(u)' => call'[u] = call[u]
    BY <2>1 DEF RollbackInv, HeldInv, Shape, Works
  <2> QED
    BY <1>2, <2>1, <2>2
<1>5. ASSUME NEW t \in Threads, Session(t) PROVE RollbackInv'
  <2>1. Head(experiment[t].plan) \in Samples
    BY <1>5 DEF Session, PlanInv, Experiment
  <2> QED
    BY <1>1, <1>5, <2>1, EnterKeepsOrder DEF Session
<1>6. ASSUME NEW t \in Threads, NEW s \in Samples, Submit(t, s) PROVE RollbackInv'
  BY <1>1, <1>6, EnterKeepsOrder DEF Submit
<1>7. ASSUME NEW t \in Threads, Start(t) PROVE RollbackInv'
  BY <1>2, <1>7 DEF Start, history
<1>8. ASSUME NEW p \in Procs, Restart(p) PROVE RollbackInv'
  <2>1. /\ UNCHANGED <<file, rolledBack, born>>
        /\ call' = [t \in Threads |-> IF ProcOf[t] = p THEN Idle ELSE call[t]]
        /\ rollbacks' = [rollbacks EXCEPT ![p] = 0]
    BY <1>8 DEF Restart, history
  <2>2. \A t \in Threads \ {} : Works(t)' =>
            call'[t] = call[t] /\ rollbacks'[ProcOf[t]] = rollbacks[ProcOf[t]]
    BY <2>1, ProcessAssumption DEF Works, RollbackInv, HeldInv, Shape
  <2>3. {} \in SUBSET Threads /\ Incidents \subseteq Incidents'
    BY <2>1 DEF Incidents
  <2> QED
    BY <1>1, <2>1, <2>2, <2>3, NothingRecorded
<1>9. CASE UNCHANGED vars
  BY <1>2, <1>9 DEF vars, history
<1> QED
  BY <1>1, <1>3, <1>4, <1>5, <1>6, <1>7, <1>8, <1>9, ChainKeepsOrder, DefendKeepsOrder,
     EmitKeepsOrder DEF Next, Step

LEMMA InitInv == Init => RollbackInv /\ PlanInv
<1> SUFFICES ASSUME Init PROVE RollbackInv /\ PlanInv
  OBVIOUS
<1>1. \A t \in Threads : ~Works(t) /\ ~Running(t)
  BY DEF Init, Works, Running, NoExperiment
<1>2. \A i \in Nat : ~Settled(i)
  BY DEF Init, Settled, IsTerminal, EventsOf
<1>3. RollbackInv
  BY <1>1, <1>2, HeldInit DEF Init, RollbackInv, RollbackIsRecorded
<1>4. PlanInv
  BY <1>1, ProcessAssumption DEF Init, PlanInv
<1> QED
  BY <1>3, <1>4

LEMMA Always == Spec => [](RollbackInv /\ PlanInv)
<1>1. RollbackInv /\ PlanInv /\ [Next]_vars => (RollbackInv /\ PlanInv)'
  BY RollbackNext, PlanNext DEF RollbackInv
<1> QED
  BY InitInv, <1>1, PTL DEF Spec

(* Whatever the other threads of a process roll back, and however appends  *)
(* fail and processes restart, no settled history lacks an undone action.  *)
THEOREM NoRollbackIsLost == Spec => []RollbackIsRecorded
<1>1. RollbackInv /\ PlanInv => RollbackIsRecorded
  BY DEF RollbackInv
<1> QED
  BY Always, <1>1, PTL

(* However many threads race for a sample, one of a process works on it,   *)
(* and the mark that refuses the others never outlives the call.           *)
THEOREM OneCallPerSample == Spec => []HeldByItsCall
<1>1. RollbackInv /\ PlanInv => HeldByItsCall
  <2> SUFFICES ASSUME HeldInv, NEW p \in Procs, NEW s \in Samples
               PROVE  LET calls == {t \in Threads : /\ ProcOf[t] = p
                                                   /\ call[t] # Idle
                                                   /\ call[t].sample = s}
                      IN  Cardinality(calls) = IF s \in inFlight[p] THEN 1 ELSE 0
    BY DEF RollbackInv, HeldByItsCall
  <2> DEFINE calls == {t \in Threads : /\ ProcOf[t] = p
                                       /\ call[t] # Idle
                                       /\ call[t].sample = s}
  <2>1. calls = {t \in Threads : Holds(t, p, s)}
    BY DEF Holds, Works
  <2>2. CASE s \in inFlight[p]
    <3>1. PICK t \in Threads : Holds(t, p, s)
      BY <2>2 DEF HeldInv, Held
    <3>2. calls = {t}
      BY <2>1, <3>1 DEF HeldInv, Held
    <3> QED
      BY <2>2, <3>2, FS_Singleton
  <2>3. CASE s \notin inFlight[p]
    <3>1. \A t \in Threads : ~Holds(t, p, s)
      BY <2>3 DEF HeldInv, Held, Holds
    <3>2. calls = {}
      BY <2>1, <3>1
    <3> QED
      BY <2>3, <3>2, FS_EmptySet
  <2> QED
    BY <2>2, <2>3
<1> QED
  BY Always, <1>1, PTL
-----------------------------------------------------------------------------
(* What the store holds, and what each process knows of it. *)

StoreShape == /\ backend \in {"jsonl", "redis"}
              /\ loaded \in [Procs -> SUBSET DOMAIN file]
              /\ snapshots \in [Procs -> [Incidents -> SUBSET DOMAIN file]]
              /\ unheard \in SUBSET Incidents
              /\ answered \in SUBSET Incidents

(* The manager of the process has the incident as ended, and so does what *)
(* it reads from the store.                                               *)
Shows(p, i) == IsTerminal(snapshots[p][i]) /\ IsTerminal(Timeline(p, i))
Home(i) == index[born[i].process][born[i].sample]

(* The process that ended an incident reads the event that did. *)
Stored == \A n \in DOMAIN file :
             /\ file[n].incident \in Incidents
             /\ file[n].kind = "settled" => n \in Reads(born[file[n].incident].process)

(* What is in an index is an incident that has ended ... *)
Indexed == \A p \in Procs, s \in Samples :
              index[p][s] # None => /\ index[p][s] \in Incidents
                                    /\ Shows(p, index[p][s])

(* ... and what has ended, to the knowledge of its process, is in the      *)
(* index or is about to be.                                                *)
Finishing(t) == Works(t) /\ call[t].pc = "emit" /\ call[t].todo = << >>
Complete == \A i \in Incidents :
              Settled(i) /\ i \notin unheard =>
                 \/ Home(i) # None
                 \/ \E t \in Threads : Finishing(t) /\ call[t].incident = i

(* While a thread works on a sample, the index has nothing for it. *)
AtWork == \A t \in Threads : Works(t) =>
             /\ born[call[t].incident] = [sample |-> call[t].sample, process |-> ProcOf[t]]
             /\ call[t].pc # "leave" => index[ProcOf[t]][call[t].sample] = None
             /\ Finishing(t) => Settled(call[t].incident)

Answers == \A i \in answered : Settled(i) /\ Home(i) # None /\ Shows(born[i].process, i)

StoreInv == /\ StoreShape /\ Stored /\ Indexed /\ Complete /\ AtWork /\ Answers
            /\ SettledOnce

LEMMA EventsGrow ==
    ASSUME Shape, NEW j \in Nat, NEW k \in Kinds,
           file' = Append(file, Event(j, k)) \/ UNCHANGED file
    PROVE  /\ DOMAIN file \subseteq DOMAIN file'
           /\ \A n \in DOMAIN file : file'[n] = file[n]
           /\ file' = Append(file, Event(j, k)) => Len(file) + 1 \in DOMAIN file'
           /\ \A n \in DOMAIN file' : n \in DOMAIN file
                 \/ /\ file' = Append(file, Event(j, k)) /\ n = Len(file) + 1
                    /\ file'[n].incident = j /\ file'[n].kind = k
<1>1. CASE file' = Append(file, Event(j, k))
  <2>1. /\ DOMAIN file = 1..Len(file) /\ Len(file) \in Nat
        /\ DOMAIN file' = 1..(Len(file) + 1)
        /\ file'[Len(file) + 1].incident = j /\ file'[Len(file) + 1].kind = k
        /\ \A n \in DOMAIN file : file'[n] = file[n]
    BY <1>1 DEF Shape, Event
  <2> QED
    BY <1>1, <2>1
<1>2. CASE UNCHANGED file
  BY <1>2
<1> QED
  BY <1>1, <1>2

LEMMA ReadsOnlyEvents ==
    ASSUME StoreShape, NEW p \in Procs
    PROVE  Reads(p) \subseteq DOMAIN file
BY DEF StoreShape, Reads

LEMMA SettledIsSeen ==
    ASSUME Shape, StoreShape, Stored, NEW i \in Incidents, Settled(i)
    PROVE  IsTerminal(Timeline(born[i].process, i))
<1>1. PICK n \in DOMAIN file : file[n].incident = i /\ file[n].kind = "settled"
  BY DEF Settled, IsTerminal, EventsOf
<1>2. n \in Reads(born[i].process)
  BY <1>1 DEF Stored
<1> QED
  BY <1>1, <1>2 DEF IsTerminal, Timeline, EventsOf

(* What a process reads, and has as ended, it keeps. *)
LEMMA StillTerminal ==
    ASSUME DOMAIN file \subseteq DOMAIN file',
           \A n \in DOMAIN file : file'[n] = file[n]
    PROVE  /\ \A S \in SUBSET DOMAIN file :
                 (\E n \in S : file'[n].kind = "settled") <=> (\E n \in S : file[n].kind = "settled")
           /\ \A i : Settled(i) => Settled(i)'
           /\ \A p \in Procs : \A i :
                 StoreShape /\ Reads(p) \subseteq Reads(p)' /\ IsTerminal(Timeline(p, i))
                    => IsTerminal(Timeline(p, i))'
<1>1. ASSUME NEW i, Settled(i) PROVE Settled(i)'
  <2>1. PICK n \in EventsOf(i, DOMAIN file) : file[n].kind = "settled"
    BY <1>1 DEF Settled, IsTerminal
  <2>2. n \in EventsOf(i, DOMAIN file)' /\ file'[n].kind = "settled"
    BY <2>1 DEF EventsOf
  <2> QED
    BY <2>2 DEF Settled, IsTerminal
<1>2. ASSUME StoreShape, NEW p \in Procs, NEW i, Reads(p) \subseteq Reads(p)',
             IsTerminal(Timeline(p, i))
      PROVE  IsTerminal(Timeline(p, i))'
  <2>1. PICK n \in EventsOf(i, Reads(p)) : file[n].kind = "settled"
    BY <1>2 DEF Timeline, IsTerminal
  <2>2. n \in DOMAIN file /\ n \in Reads(p)' /\ file[n].incident = i
    BY <1>2, <2>1, ReadsOnlyEvents DEF EventsOf
  <2>3. n \in EventsOf(i, Reads(p))' /\ file'[n].kind = "settled"
    BY <2>1, <2>2 DEF EventsOf
  <2> QED
    BY <2>3 DEF Timeline, IsTerminal
<1> QED
  BY <1>1, <1>2

(* The steps that leave the index and the incidents as they are. *)
LEMMA Onward ==
    ASSUME HeldInv, StoreInv, HeldInv', StoreShape',
           UNCHANGED <<backend, index, born, answered>>,
           DOMAIN file \subseteq DOMAIN file',
           \A n \in DOMAIN file : file'[n] = file[n],
           \A n \in DOMAIN file' : n \in DOMAIN file \/
              /\ file'[n].incident \in Incidents
              /\ \A p \in Procs : p = born[file'[n].incident].process =>
                    (file'[n].kind = "settled" => n \in Reads(p)'),
           \A p \in Procs : Reads(p) \subseteq Reads(p)',
           \A p \in Procs : \A i \in Incidents : Shows(p, i) => IsTerminal(snapshots[p][i])',
           unheard \subseteq unheard',
           \A t \in Threads : Works(t)' =>
              /\ Works(t)
              /\ call'[t].sample = call[t].sample /\ call'[t].incident = call[t].incident
              /\ call'[t].pc # "leave" => call[t].pc # "leave"
              /\ Finishing(t)' => Settled(call[t].incident)',
           \A t \in Threads : Finishing(t) => Finishing(t)' /\ call'[t].incident = call[t].incident,
           \A i \in Incidents : Settled(i)' /\ i \notin unheard' =>
              Settled(i) \/ \E t \in Threads : Finishing(t)' /\ call'[t].incident = i
    PROVE  StoreInv'
<1>a. Incidents' = Incidents /\ \A i : Home(i)' = Home(i)
  BY DEF Incidents, Home
<1>b. \A i \in Incidents : i \in Nat /\ born[i].process \in Procs /\ born[i].sample \in Samples
  BY BornFacts DEF HeldInv
<1>c. \A i : Settled(i) => Settled(i)'
  BY StillTerminal
<1>d. \A p \in Procs : \A i \in Incidents : Shows(p, i) => Shows(p, i)'
  <2> SUFFICES ASSUME NEW p \in Procs, NEW i \in Incidents, Shows(p, i) PROVE Shows(p, i)'
    OBVIOUS
  <2>1. IsTerminal(Timeline(p, i))'
    BY StillTerminal DEF Shows, StoreInv
  <2> QED
    BY <2>1 DEF Shows
<1>1. Stored'
  <2> SUFFICES ASSUME NEW n \in DOMAIN file'
               PROVE  /\ file'[n].incident \in Incidents'
                      /\ \A p \in Procs : p = born[file'[n].incident].process =>
                            (file'[n].kind = "settled" => n \in Reads(p)')
    BY <1>a, <1>b DEF Stored
  <2>1. CASE n \in DOMAIN file
    <3>1. /\ file'[n] = file[n] /\ file[n].incident \in Incidents
          /\ file[n].kind = "settled" => n \in Reads(born[file[n].incident].process)
      BY <2>1 DEF StoreInv, Stored
    <3> QED
      BY <1>a, <1>b, <3>1
  <2>2. CASE n \notin DOMAIN file
    BY <1>a, <2>2
  <2> QED
    BY <2>1, <2>2
<1>2. Indexed'
  BY <1>a, <1>d DEF StoreInv, Indexed
<1>3. Complete'
  <2> SUFFICES ASSUME NEW i \in Incidents, Settled(i)', i \notin unheard'
               PROVE  \/ Home(i)' # None
                      \/ \E t \in Threads : Finishing(t)' /\ call'[t].incident = i
    BY <1>a DEF Complete
  <2>1. CASE Settled(i)
    <3>1. CASE Home(i) # None
      BY <1>a, <3>1
    <3>2. CASE \E t \in Threads : Finishing(t) /\ call[t].incident = i
      BY <3>2
    <3> QED
      BY <2>1, <3>1, <3>2 DEF StoreInv, Complete
  <2> QED
    BY <2>1
<1>4. AtWork'
  BY DEF StoreInv, AtWork
<1>5. Answers'
  <2> SUFFICES ASSUME NEW i \in answered
               PROVE  Settled(i)' /\ Home(i)' # None /\ Shows(born[i].process, i)'
    BY DEF Answers
  <2>1. i \in Incidents /\ Settled(i) /\ Home(i) # None /\ Shows(born[i].process, i)
    BY DEF StoreInv, StoreShape, Answers
  <2> QED
    BY <1>a, <1>b, <1>c, <1>d, <2>1
<1>6. ASSUME NEW i \in Incidents, NEW j \in Incidents, i # j, born[i] = born[j],
             Settled(i)', Settled(j)', ~Settled(i), i \notin unheard', j \notin unheard'
      PROVE  FALSE
  <2>1. PICK t \in Threads : Finishing(t)' /\ call'[t].incident = i
    BY <1>6
  <2>2. /\ Works(t) /\ call[t].pc # "leave" /\ call[t].incident = i
        /\ Works(t)'
    BY <2>1 DEF Finishing
  <2>3. /\ born[i] = [sample |-> call[t].sample, process |-> ProcOf[t]]
        /\ index[ProcOf[t]][call[t].sample] = None
    BY <2>2 DEF StoreInv, AtWork
  <2>4. Home(j)' = None
    BY <1>6, <1>a, <2>3 DEF Home
  <2>5. PICK u \in Threads : Finishing(u)' /\ call'[u].incident = j
    BY <1>3, <1>6, <1>a, <2>4 DEF Complete
  <2>6. /\ Works(u)'
        /\ born'[j] = [sample |-> call'[u].sample, process |-> ProcOf[u]]
        /\ born'[i] = [sample |-> call'[t].sample, process |-> ProcOf[t]]
    BY <1>4, <2>1, <2>2, <2>5 DEF AtWork, Finishing
  <2>7. call'[u].sample = call'[t].sample /\ ProcOf[u] = ProcOf[t]
    BY <1>6, <2>6
  <2>8. call'[t].sample \in Samples /\ ProcOf[t] \in Procs
    BY <1>b, <2>6
  <2>9. Holds(t, ProcOf[t], call[t].sample)' /\ Holds(u, ProcOf[t], call[t].sample)'
    BY <2>2, <2>6, <2>7 DEF Holds
  <2>10. t = u
    BY <2>8, <2>9 DEF HeldInv, Held
  <2> QED
    BY <1>6, <2>1, <2>5, <2>10
<1>7. SettledOnce'
  <2> SUFFICES ASSUME NEW i \in Incidents, NEW j \in Incidents, i # j, born[i] = born[j],
                      Settled(i)', Settled(j)', i \notin unheard', j \notin unheard'
               PROVE  FALSE
    BY <1>a DEF SettledOnce
  <2>1. i \notin unheard /\ j \notin unheard
    OBVIOUS
  <2>2. ~Settled(i) \/ ~Settled(j)
    <3>1. (i # j /\ born[i] = born[j] /\ Settled(i) /\ Settled(j)) => unheard \cap {i, j} # {}
      BY DEF StoreInv, SettledOnce
    <3> QED
      BY <2>1, <3>1
  <2> QED
    BY <1>6, <2>2
<1> QED
  BY <1>1, <1>2, <1>3, <1>4, <1>5, <1>7 DEF StoreInv

(* One event of an incident, appended or not. *)
LEMMA EventStored ==
    ASSUME Shape, StoreShape, NEW p \in Procs, NEW i \in Incidents, NEW k \in Kinds,
           k = "settled" => born[i].process = p,
           Appended(p, Event(i, k)) \/ AppendRaises(p, Event(i, k)),
           UNCHANGED <<backend, born>>
    PROVE  /\ DOMAIN file \subseteq DOMAIN file'
           /\ \A n \in DOMAIN file : file'[n] = file[n]
           /\ \A n \in DOMAIN file' : n \in DOMAIN file \/
                 /\ file'[n].incident \in Incidents
                 /\ \A q \in Procs : q = born[file'[n].incident].process =>
                       (file'[n].kind = "settled" => n \in Reads(q)')
           /\ \A q \in Procs : Reads(q) \subseteq Reads(q)'
           /\ loaded' \in [Procs -> SUBSET DOMAIN file']
           /\ unheard \subseteq unheard' /\ unheard' \in SUBSET Incidents
           /\ \A j : Settled(j)' => Settled(j) \/ (j = i /\ k = "settled")
           /\ \A j : Settled(j)' /\ j \notin unheard' =>
                 Settled(j) \/ (j = i /\ k = "settled" /\ Appended(p, Event(i, k)))
<1>1. i \in Nat
  BY BornFacts
<1>2. file' = Append(file, Event(i, k)) \/ UNCHANGED file
  BY DEF Appended, AppendRaises
<1>3. /\ DOMAIN file \subseteq DOMAIN file'
      /\ \A n \in DOMAIN file : file'[n] = file[n]
      /\ file' = Append(file, Event(i, k)) => Len(file) + 1 \in DOMAIN file'
      /\ \A n \in DOMAIN file' : n \in DOMAIN file
                 \/ /\ file' = Append(file, Event(i, k)) /\ n = Len(file) + 1
                    /\ file'[n].incident = i /\ file'[n].kind = k
  BY <1>1, <1>2, EventsGrow
<1>4. \A q \in Procs : Reads(q) \subseteq Reads(q)' /\ loaded'[q] \subseteq DOMAIN file'
  <2> SUFFICES ASSUME NEW q \in Procs
               PROVE  Reads(q) \subseteq Reads(q)' /\ loaded'[q] \subseteq DOMAIN file'
    OBVIOUS
  <2>1. loaded[q] \subseteq DOMAIN file
    BY DEF StoreShape
  <2>2. /\ loaded[q] \subseteq loaded'[q]
        /\ \A n \in loaded'[q] : n \in loaded[q] \/ (Appended(p, Event(i, k)) /\ n = Len(file) + 1)
    BY DEF Appended, AppendRaises, StoreShape
  <2>3. Reads(q) \subseteq Reads(q)'
    BY <1>3, <2>2 DEF Reads
  <2>4. loaded'[q] \subseteq DOMAIN file'
    BY <1>3, <2>1, <2>2 DEF Appended
  <2> QED
    BY <2>3, <2>4
<1>5. loaded' \in [Procs -> SUBSET DOMAIN file']
  <2>1. loaded' = [q \in Procs |-> loaded'[q]]
    BY DEF Appended, AppendRaises, StoreShape
  <2> QED
    BY <1>4, <2>1
<1>6. ASSUME NEW n \in DOMAIN file', n \notin DOMAIN file
      PROVE  /\ file'[n].incident \in Incidents
             /\ \A q \in Procs : q = born[file'[n].incident].process =>
                   (file'[n].kind = "settled" => n \in Reads(q)')
  <2>1. file' = Append(file, Event(i, k)) /\ n = Len(file) + 1
        /\ file'[n].incident = i /\ file'[n].kind = k
    BY <1>3, <1>6
  <2>2. k = "settled" => n \in Reads(p)'
    <3>1. CASE backend = "redis"
      BY <3>1 DEF Reads
    <3>2. CASE backend # "redis"
      <4>1. Appended(p, Event(i, k))
        BY <1>6, <3>2 DEF AppendRaises
      <4>2. loaded' = [loaded EXCEPT ![p] = @ \cup {n}]
        BY <2>1, <3>2, <4>1 DEF Appended
      <4>3. n \in loaded'[p]
        BY <4>2 DEF StoreShape
      <4> QED
        BY <3>2, <4>3 DEF Reads
    <3> QED
      BY <3>1, <3>2
  <2> QED
    BY <2>1, <2>2
<1>7. unheard \subseteq unheard' /\ unheard' \in SUBSET Incidents
  BY DEF Appended, AppendRaises, StoreShape, Event
<1>8. \A j : Settled(j)' => Settled(j) \/ (j = i /\ k = "settled" /\ file' = Append(file, Event(i, k)))
  BY <1>1, <1>2, FileGrows, FileUnchanged
<1>9. \A j : Settled(j)' /\ j \notin unheard' =>
                 Settled(j) \/ (j = i /\ k = "settled" /\ Appended(p, Event(i, k)))
  <2>1. CASE Appended(p, Event(i, k))
    BY <1>8, <2>1
  <2>2. CASE UNCHANGED file
    BY <2>2, FileUnchanged
  <2>3. CASE unheard' = unheard \cup {i}
    BY <1>8, <2>3
  <2> QED
    BY <2>1, <2>2, <2>3 DEF AppendRaises, Event
<1> QED
  BY <1>3, <1>4, <1>5, <1>6, <1>7, <1>8, <1>9

(* Nothing is stored, and no thread gets to the end of its history. *)
LEMMA Quietly ==
    ASSUME HeldInv, StoreInv, HeldInv',
           UNCHANGED <<backend, file, loaded, snapshots, index, born, unheard, answered>>,
           NEW t \in Threads, ~Finishing(t),
           \A u \in Threads \ {t} : call'[u] = call[u],
           Works(t)' => /\ Works(t)
                        /\ call'[t].sample = call[t].sample
                        /\ call'[t].incident = call[t].incident
                        /\ call'[t].pc # "leave" => call[t].pc # "leave"
                        /\ call'[t].pc # "emit"
    PROVE  StoreInv'
<1>1. StoreShape'
  BY DEF StoreInv, StoreShape, Incidents
<1>2. \A p \in Procs : Reads(p) \subseteq Reads(p)'
  BY DEF Reads
<1>3. \A p \in Procs : \A i \in Incidents : Shows(p, i) => IsTerminal(snapshots[p][i])'
  BY DEF Shows, IsTerminal
<1>4. \A u \in Threads : Works(u)' =>
              /\ Works(u)
              /\ call'[u].sample = call[u].sample /\ call'[u].incident = call[u].incident
              /\ call'[u].pc # "leave" => call[u].pc # "leave"
              /\ Finishing(u)' => Settled(call[u].incident)'
  <2> SUFFICES ASSUME NEW u \in Threads, Works(u)'
               PROVE  /\ Works(u)
                      /\ call'[u].sample = call[u].sample /\ call'[u].incident = call[u].incident
                      /\ call'[u].pc # "leave" => call[u].pc # "leave"
                      /\ Finishing(u)' => Settled(call[u].incident)'
    OBVIOUS
  <2>1. CASE u = t
    BY <2>1 DEF Finishing
  <2>2. CASE u # t
    <3>1. call'[u] = call[u] /\ Works(u)
      BY <2>2 DEF Works
    <3>2. Finishing(u)' => Finishing(u)
      BY <3>1 DEF Finishing
    <3>3. Finishing(u) => Settled(call[u].incident)'
      BY <3>1, FileUnchanged DEF StoreInv, AtWork
    <3> QED
      BY <3>1, <3>2, <3>3
  <2> QED
    BY <2>1, <2>2
<1>5. \A u \in Threads : Finishing(u) => Finishing(u)' /\ call'[u].incident = call[u].incident
  BY DEF Finishing, Works
<1>6. \A i : Settled(i)' => Settled(i)
  BY FileUnchanged
<1> QED
  BY <1>1, <1>2, <1>3, <1>4, <1>5, <1>6, Onward

LEMMA EmitKeepsStore ==
    ASSUME RollbackInv, StoreInv, HeldInv', NEW t \in Threads, Emit(t)
    PROVE  StoreInv'
<1> USE DEF RollbackInv
<1>1. /\ Recording(t) /\ Works(t) /\ ~Finishing(t) /\ call[t].pc # "leave"
      /\ UNCHANGED <<backend, snapshots, index, born, answered>>
  BY DEF Emit, Recording, Works, Idle, Finishing, Pending
<1>i. PICK i \in Incidents : i = call[t].incident
  BY <1>1 DEF HeldInv, OwnIncidents
<1>p. PICK p \in Procs : p = ProcOf[t]
  BY ProcessAssumption
<1>k. PICK k : k = Head(Pending(t))
  OBVIOUS
<1>2. born[i] = [sample |-> call[t].sample, process |-> p]
  BY <1>1, <1>i, <1>p DEF StoreInv, AtWork
<1>3. k \in Kinds /\ (k = "settled" <=> Tail(Pending(t)) = << >>)
  <2>1. call[t].pc = "emit" => call[t].todo \in Plans
    BY <1>1 DEF InOrder
  <2> QED
    BY <1>1, <1>k, <2>1, HeadOfPending
<1>4. \/ Appended(p, Event(i, k)) /\ call' = [call EXCEPT ![t] = Remaining(t)]
      \/ AppendRaises(p, Event(i, k)) /\ call' = [call EXCEPT ![t] = Ending(t)]
  BY <1>i, <1>p, <1>k DEF Emit
<1>5. /\ DOMAIN file \subseteq DOMAIN file'
      /\ \A n \in DOMAIN file : file'[n] = file[n]
      /\ \A n \in DOMAIN file' : n \in DOMAIN file \/
            /\ file'[n].incident \in Incidents
            /\ \A q \in Procs : q = born[file'[n].incident].process =>
                  (file'[n].kind = "settled" => n \in Reads(q)')
      /\ \A q \in Procs : Reads(q) \subseteq Reads(q)'
      /\ loaded' \in [Procs -> SUBSET DOMAIN file']
      /\ unheard \subseteq unheard' /\ unheard' \in SUBSET Incidents
      /\ \A j : Settled(j)' /\ j \notin unheard' =>
            Settled(j) \/ (j = i /\ k = "settled" /\ Appended(p, Event(i, k)))
  BY <1>1, <1>2, <1>3, <1>4, EventStored DEF StoreInv, HeldInv
<1>6. /\ \A u \in Threads \ {t} : call'[u] = call[u]
      /\ \A c : call' = [call EXCEPT ![t] = c] => call'[t] = c
  BY <1>4 DEF HeldInv, Shape
<1>7. /\ Remaining(t).pc = "emit" /\ Remaining(t).todo = Tail(Pending(t))
      /\ Remaining(t).sample = call[t].sample /\ Remaining(t).incident = i
      /\ Ending(t).pc = "leave"
      /\ Ending(t).sample = call[t].sample /\ Ending(t).incident = i
  BY <1>i DEF Remaining, Ending
<1>8. /\ call'[t] = Remaining(t) \/ call'[t] = Ending(t)
      /\ call'[t].sample = call[t].sample /\ call'[t].incident = i
      /\ call'[t].pc \in {"emit", "leave"}
  BY <1>4, <1>6, <1>7
<1>w. Works(t)'
  BY <1>8 DEF Works, Idle
<1>f. Finishing(t)' <=> call'[t] = Remaining(t) /\ k = "settled"
  BY <1>3, <1>7, <1>8, <1>w DEF Finishing
<1>9. Finishing(t)' => Settled(call[t].incident)'
  <2> SUFFICES ASSUME Finishing(t)' PROVE Settled(i)'
    BY <1>8
  <2>1. call' # [call EXCEPT ![t] = Ending(t)] /\ k = "settled"
    <3>1. call'[t].pc # "leave"
      BY <1>f, <1>7
    <3> QED
      BY <1>6, <1>7, <1>f, <3>1
  <2>2. file' = Append(file, Event(i, k))
    BY <1>4, <2>1 DEF Appended
  <2>3. i \in Nat
    BY BornFacts DEF HeldInv
  <2> QED
    BY <1>3, <2>1, <2>2, <2>3, FileGrows DEF HeldInv
<1>10. StoreShape'
  <2>1. snapshots \in [Procs -> [Incidents -> SUBSET DOMAIN file']]
    BY <1>5 DEF StoreInv, StoreShape
  <2>2. Incidents' = Incidents
    BY <1>1 DEF Incidents
  <2> QED
    BY <1>1, <1>5, <2>1, <2>2 DEF StoreInv, StoreShape
<1>11. \A q \in Procs : \A j \in Incidents : Shows(q, j) => IsTerminal(snapshots[q][j])'
  <2> SUFFICES ASSUME NEW q \in Procs, NEW j \in Incidents, IsTerminal(snapshots[q][j])
               PROVE  IsTerminal(snapshots[q][j])'
    BY DEF Shows
  <2>1. snapshots[q][j] \in SUBSET DOMAIN file
    BY DEF StoreInv, StoreShape
  <2> QED
    BY <1>1, <1>5, <2>1, StillTerminal DEF IsTerminal
<1>12. \A u \in Threads : Works(u)' =>
              /\ Works(u)
              /\ call'[u].sample = call[u].sample /\ call'[u].incident = call[u].incident
              /\ call'[u].pc # "leave" => call[u].pc # "leave"
              /\ Finishing(u)' => Settled(call[u].incident)'
  <2> SUFFICES ASSUME NEW u \in Threads, u # t, Works(u)'
               PROVE  /\ Works(u)
                      /\ call'[u].sample = call[u].sample /\ call'[u].incident = call[u].incident
                      /\ call'[u].pc # "leave" => call[u].pc # "leave"
                      /\ Finishing(u)' => Settled(call[u].incident)'
    BY <1>1, <1>8, <1>9, <1>i
  <2>1. call'[u] = call[u]
    BY <1>6
  <2>2. Finishing(u)' => Finishing(u)
    BY <2>1 DEF Finishing, Works
  <2>3. Finishing(u) => Settled(call[u].incident)'
    <3>1. PICK j : j = call[u].incident
      OBVIOUS
    <3>2. Settled(j) => Settled(j)'
      BY <1>5, StillTerminal
    <3> QED
      BY <2>1, <3>1, <3>2 DEF StoreInv, AtWork, Finishing
  <2> QED
    BY <2>1, <2>2, <2>3 DEF Works
<1>13. \A u \in Threads : Finishing(u) => Finishing(u)' /\ call'[u].incident = call[u].incident
  BY <1>1, <1>6 DEF Finishing, Works
<1>14. \A j \in Incidents : Settled(j)' /\ j \notin unheard' =>
          Settled(j) \/ \E u \in Threads : Finishing(u)' /\ call'[u].incident = j
  <2> SUFFICES ASSUME NEW j \in Incidents, Settled(j)', j \notin unheard', ~Settled(j)
               PROVE  Finishing(t)' /\ call'[t].incident = j
    OBVIOUS
  <2>1. j = i /\ k = "settled" /\ Appended(p, Event(i, k))
    BY <1>5
  <2>2. CASE call' = [call EXCEPT ![t] = Remaining(t)]
    BY <1>6, <1>8, <1>f, <2>1, <2>2
  <2>3. CASE AppendRaises(p, Event(i, k))
    <3>1. i \in Nat /\ file \in Seq([incident : Nat, kind : Kinds])
      BY BornFacts DEF HeldInv, Shape
    <3>2. file' # file /\ unheard' = unheard
      <4>1. Len(file') = Len(file) + 1 /\ Len(file) \in Nat
        BY <2>1, <3>1 DEF Appended
      <4> QED
        BY <2>1, <4>1 DEF Appended
    <3>3. i \in unheard'
      BY <2>3, <3>2 DEF AppendRaises, Event
    <3> QED
      BY <2>1, <3>3
  <2> QED
    BY <1>4, <2>2, <2>3
<1> QED
  BY <1>1, <1>5, <1>10, <1>11, <1>12, <1>13, <1>14, Onward

(* A call that is answered with the sample's incident, which is noted. *)
LEMMA SkipKeepsStore ==
    ASSUME RollbackInv, StoreInv, HeldInv', NEW t \in Threads, NEW s \in Samples,
           Ready(t), Known(ProcOf[t], s), Skip(t, s),
           UNCHANGED <<backend, index, inFlight, born, answered>>
    PROVE  StoreInv'
<1> USE DEF RollbackInv
<1>p. PICK p \in Procs : p = ProcOf[t]
  BY ProcessAssumption
<1>i. PICK i : i = index[p][s]
  OBVIOUS
<1>1. i \in Incidents /\ Shows(p, i)
  BY <1>i, <1>p DEF StoreInv, Indexed, Known, Existing
<1>2. /\ Appended(p, Event(i, "skip")) \/ AppendRaises(p, Event(i, "skip"))
      /\ \/ snapshots' = [snapshots EXCEPT ![p][i] =
                                EventsOf(i, Reads(p)) \cup {Len(file) + 1}]
            /\ Appended(p, Event(i, "skip"))
         \/ UNCHANGED snapshots
      /\ call' = [call EXCEPT ![t] = Idle]
  BY <1>p, <1>i, Zenon DEF Skip, Returns, Existing
<1>3. "skip" \in Kinds /\ "skip" # "settled"
  BY DEF Kinds
<1>4. /\ DOMAIN file \subseteq DOMAIN file'
      /\ \A n \in DOMAIN file : file'[n] = file[n]
      /\ \A n \in DOMAIN file' : n \in DOMAIN file \/
            /\ file'[n].incident \in Incidents
            /\ \A q \in Procs : q = born[file'[n].incident].process =>
                  (file'[n].kind = "settled" => n \in Reads(q)')
      /\ \A q \in Procs : Reads(q) \subseteq Reads(q)'
      /\ loaded' \in [Procs -> SUBSET DOMAIN file']
      /\ unheard \subseteq unheard' /\ unheard' \in SUBSET Incidents
      /\ \A j : Settled(j)' => Settled(j)
  BY <1>1, <1>2, <1>3, EventStored DEF StoreInv, HeldInv
<1>5. call' = call
  BY <1>2 DEF HeldInv, Shape, Ready
<1>6. Incidents' = Incidents
  BY DEF Incidents
<1>7. Reads(p) \subseteq DOMAIN file
  BY ReadsOnlyEvents DEF StoreInv
<1>8. ASSUME NEW q \in Procs, NEW j \in Incidents
      PROVE  /\ snapshots'[q][j] \in SUBSET DOMAIN file'
             /\ snapshots'[q][j] = snapshots[q][j] \/
                   /\ q = p /\ j = i
                   /\ EventsOf(i, Reads(p)) \subseteq snapshots'[q][j]
  <2>1. snapshots[q][j] \in SUBSET DOMAIN file'
    BY <1>4 DEF StoreInv, StoreShape
  <2>2. CASE UNCHANGED snapshots
    BY <2>1, <2>2
  <2>3. CASE /\ snapshots' = [snapshots EXCEPT ![p][i] =
                                EventsOf(i, Reads(p)) \cup {Len(file) + 1}]
             /\ Appended(p, Event(i, "skip"))
    <3>1. Len(file) + 1 \in DOMAIN file'
      <4>1. i \in Nat
        BY <1>1, BornFacts DEF HeldInv
      <4> QED
        BY <1>3, <2>3, <4>1, EventsGrow DEF HeldInv, Appended
    <3>2. EventsOf(i, Reads(p)) \subseteq DOMAIN file'
      BY <1>4, <1>7 DEF EventsOf
    <3>3. snapshots'[q][j] = IF q = p /\ j = i THEN EventsOf(i, Reads(p)) \cup {Len(file) + 1}
                             ELSE snapshots[q][j]
      BY <2>3 DEF StoreInv, StoreShape
    <3> QED
      BY <2>1, <3>1, <3>2, <3>3
  <2> QED
    BY <1>2, <2>2, <2>3
<1>9. StoreShape'
  <2>1. snapshots' = [q \in Procs |-> snapshots'[q]]
    BY <1>2 DEF StoreInv, StoreShape
  <2>2. \A q \in Procs : snapshots'[q] = [j \in Incidents |-> snapshots'[q][j]]
    BY <1>2 DEF StoreInv, StoreShape
  <2>3. snapshots' \in [Procs -> [Incidents -> SUBSET DOMAIN file']]
    BY <1>8, <2>1, <2>2
  <2> QED
    BY <1>4, <1>6, <2>3 DEF StoreInv, StoreShape
<1>10. \A q \in Procs : \A j \in Incidents : Shows(q, j) => IsTerminal(snapshots[q][j])'
  <2> SUFFICES ASSUME NEW q \in Procs, NEW j \in Incidents, IsTerminal(snapshots[q][j])
               PROVE  IsTerminal(snapshots[q][j])'
    BY DEF Shows
  <2>1. \E n \in snapshots'[q][j] : n \in DOMAIN file /\ file[n].kind = "settled"
    <3>1. CASE snapshots'[q][j] = snapshots[q][j]
      BY <3>1 DEF IsTerminal, StoreInv, StoreShape
    <3>2. CASE EventsOf(i, Reads(p)) \subseteq snapshots'[q][j]
      BY <1>1, <1>7, <3>2 DEF Shows, Timeline, IsTerminal, EventsOf
    <3> QED
      BY <1>8, <3>1, <3>2
  <2> QED
    BY <1>4, <2>1 DEF IsTerminal
<1>11. \A u \in Threads : Finishing(u)' <=> Finishing(u)
  BY <1>5 DEF Finishing, Works
<1>12. \A u \in Threads : Finishing(u) => Settled(call[u].incident)'
  BY <1>4, <1>5, StillTerminal DEF StoreInv, AtWork, Finishing
<1>13. \A u \in Threads : Works(u)' =>
              /\ Works(u)
              /\ call'[u].sample = call[u].sample /\ call'[u].incident = call[u].incident
              /\ call'[u].pc # "leave" => call[u].pc # "leave"
              /\ Finishing(u)' => Settled(call[u].incident)'
  BY <1>5, <1>11, <1>12 DEF Works
<1> QED
  BY <1>4, <1>5, <1>9, <1>10, <1>11, <1>13, Onward

(* A new incident, which has no events yet. *)
LEMMA NewKeepsStore ==
    ASSUME RollbackInv, StoreInv, HeldInv', NEW t \in Threads, NEW s \in Samples,
           Ready(t), ~Known(ProcOf[t], s),
           born' = Append(born, [sample |-> s, process |-> ProcOf[t]]),
           snapshots' = [q \in Procs |-> Append(snapshots[q], {})],
           call' = [call EXCEPT ![t] = [pc |-> "chain", sample |-> s,
                                        incident |-> Len(born) + 1]],
           UNCHANGED <<backend, file, loaded, index, unheard, answered>>
    PROVE  StoreInv'
<1> USE DEF RollbackInv
<1>p. PICK p \in Procs : p = ProcOf[t]
  BY ProcessAssumption
<1>1. /\ Len(born) \in Nat /\ Len(born') = Len(born) + 1
      /\ Incidents = 1..Len(born) /\ Incidents' = 1..(Len(born) + 1)
      /\ \A i \in Incidents : born'[i] = born[i]
      /\ born'[Len(born) + 1] = [sample |-> s, process |-> p]
  BY <1>p DEF HeldInv, Shape, Incidents
<1>2. \A i \in Incidents : /\ i \in Incidents'
                           /\ born[i].process \in Procs /\ born[i].sample \in Samples
                           /\ Home(i)' = Home(i)
  BY <1>1, BornFacts DEF Home, HeldInv
<1>3. \A i : Settled(i)' <=> Settled(i)
  BY FileUnchanged
<1>4. ~Settled(Len(born) + 1)
  BY <1>1 DEF HeldInv
<1>5. index[p][s] = None
  BY <1>p DEF StoreInv, Indexed, Known, Existing, Shows
<1>6. \A q \in Procs : /\ snapshots'[q] \in [Incidents' -> SUBSET DOMAIN file]
                       /\ \A i \in Incidents : snapshots'[q][i] = snapshots[q][i]
  <2> SUFFICES ASSUME NEW q \in Procs
               PROVE  /\ snapshots'[q] \in [Incidents' -> SUBSET DOMAIN file]
                      /\ \A i \in Incidents : snapshots'[q][i] = snapshots[q][i]
    OBVIOUS
  <2>1. snapshots[q] \in [1..Len(born) -> SUBSET DOMAIN file]
    BY <1>1 DEF StoreInv, StoreShape
  <2>2. snapshots[q] \in Seq(SUBSET DOMAIN file) /\ Len(snapshots[q]) = Len(born)
    <3>1. snapshots[q] \in Seq(SUBSET DOMAIN file)
      BY <1>1, <2>1, SeqDef
    <3>2. 1..Len(snapshots[q]) = 1..Len(born) /\ Len(snapshots[q]) \in Nat
      BY <2>1, <3>1, LenProperties
    <3> QED
      BY <1>1, <3>1, <3>2
  <2>3. snapshots'[q] = Append(snapshots[q], {})
    OBVIOUS
  <2>4. /\ snapshots'[q] \in Seq(SUBSET DOMAIN file)
        /\ Len(snapshots'[q]) = Len(born) + 1
        /\ \A i \in 1..Len(born) : snapshots'[q][i] = snapshots[q][i]
    BY <1>1, <2>2, <2>3
  <2>5. snapshots'[q] \in [1..Len(snapshots'[q]) -> SUBSET DOMAIN file]
    BY <2>4, ElementOfSeq, LenProperties
  <2> QED
    BY <1>1, <2>4, <2>5
<1>7. StoreShape'
  <2>1. snapshots' \in [Procs -> [Incidents' -> SUBSET DOMAIN file']]
    BY <1>6
  <2> QED
    BY <1>2, <2>1 DEF StoreInv, StoreShape
<1>8. \A q \in Procs : \A i \in Incidents : Shows(q, i)' <=> Shows(q, i)
  BY <1>6 DEF Shows, IsTerminal, Timeline, EventsOf, Reads
<1>9. Stored'
  BY <1>1, <1>2 DEF StoreInv, Stored, Reads
<1>10. Indexed'
  BY <1>2, <1>8 DEF StoreInv, Indexed
<1>11. /\ \A u \in Threads \ {t} : call'[u] = call[u]
       /\ call'[t] = [pc |-> "chain", sample |-> s, incident |-> Len(born) + 1]
       /\ ~Works(t)
  BY DEF HeldInv, Shape, Ready, Works
<1>12. /\ \A u \in Threads \ {t} : /\ Works(u)' <=> Works(u)
                                   /\ Finishing(u)' <=> Finishing(u)
       /\ ~Finishing(t)' /\ ~Finishing(t)
  BY <1>11 DEF Works, Finishing
<1>13. Complete'
  <2> SUFFICES ASSUME NEW i \in Incidents, Settled(i), i \notin unheard
               PROVE  \/ Home(i)' # None
                      \/ \E u \in Threads : Finishing(u)' /\ call'[u].incident = i
    BY <1>1, <1>3, <1>4 DEF Complete
  <2>1. Home(i) # None \/ \E u \in Threads : Finishing(u) /\ call[u].incident = i
    BY DEF StoreInv, Complete
  <2> QED
    BY <1>2, <1>11, <1>12, <2>1
<1>14. AtWork'
  <2> SUFFICES ASSUME NEW u \in Threads, Works(u)'
               PROVE  /\ born'[call'[u].incident] = [sample |-> call'[u].sample, process |-> ProcOf[u]]
                      /\ call'[u].pc # "leave" => index[ProcOf[u]][call'[u].sample] = None
                      /\ Finishing(u)' => Settled(call[u].incident)'
    BY DEF AtWork
  <2>1. CASE u = t
    BY <1>1, <1>5, <1>11, <1>12, <1>p, <2>1
  <2>2. CASE u # t
    <3>1. Works(u) /\ call'[u] = call[u] /\ call[u].incident \in Incidents
      BY <1>11, <1>12, <2>2 DEF HeldInv, OwnIncidents
    <3>2. Finishing(u) => Settled(call[u].incident)
      BY <3>1 DEF StoreInv, AtWork
    <3>3. Settled(call[u].incident) => Settled(call[u].incident)'
      <4>1. PICK i : i = call[u].incident
        OBVIOUS
      <4> QED
        BY <1>3, <3>1, <4>1
    <3> QED
      BY <1>1, <1>12, <2>2, <3>1, <3>2, <3>3 DEF StoreInv, AtWork
  <2> QED
    BY <2>1, <2>2
<1>15. Answers'
  <2> SUFFICES ASSUME NEW i \in answered
               PROVE  Settled(i)' /\ Home(i)' # None /\ Shows(born[i].process, i)'
    BY DEF Answers
  <2>1. i \in Incidents /\ Settled(i) /\ Home(i) # None /\ Shows(born[i].process, i)
    BY DEF StoreInv, StoreShape, Answers
  <2>2. PICK q \in Procs : q = born[i].process /\ q = born'[i].process
    BY <1>1, <1>2, <2>1
  <2> QED
    BY <1>2, <1>3, <1>8, <2>1, <2>2
<1>16. SettledOnce'
  BY <1>1, <1>3, <1>4 DEF StoreInv, SettledOnce
<1> QED
  BY <1>7, <1>9, <1>10, <1>13, <1>14, <1>15, <1>16 DEF StoreInv

LEMMA EnterKeepsStore ==
    ASSUME RollbackInv, StoreInv, HeldInv', NEW t \in Threads, NEW s \in Samples,
           Ready(t), Enter(t, s), UNCHANGED <<backend, index, answered>>
    PROVE  StoreInv'
<1>1. CASE Known(ProcOf[t], s) /\ Skip(t, s) /\ UNCHANGED <<inFlight, born>>
  BY <1>1, SkipKeepsStore
<1>2. CASE Returns(t, None) /\ UNCHANGED <<file, loaded, snapshots, born, unheard>>
  <2>1. /\ \A u \in Threads \ {t} : call'[u] = call[u]
        /\ ~Works(t)' /\ ~Finishing(t)
    BY <1>2 DEF Returns, Ready, Works, Finishing, RollbackInv, HeldInv, Shape
  <2> QED
    BY <1>2, <2>1, Quietly DEF RollbackInv
<1>3. CASE /\ ~Known(ProcOf[t], s)
           /\ born' = Append(born, [sample |-> s, process |-> ProcOf[t]])
           /\ snapshots' = [q \in Procs |-> Append(snapshots[q], {})]
           /\ call' = [call EXCEPT ![t] = [pc |-> "chain", sample |-> s,
                                           incident |-> Len(born) + 1]]
           /\ UNCHANGED <<file, loaded, unheard>>
  BY <1>3, NewKeepsStore
<1> QED
  BY <1>1, <1>2, <1>3 DEF Enter

(* The incident is answered: it has ended, and its process reads that. *)
LEMMA FinishKeepsStore ==
    ASSUME RollbackInv, StoreInv, HeldInv', NEW t \in Threads, Finish(t)
    PROVE  StoreInv'
<1> USE DEF RollbackInv
<1>1. /\ Finishing(t) /\ Works(t)
      /\ UNCHANGED <<backend, file, loaded, born, unheard>>
  BY DEF Finish, Finishing, Works, Idle
<1>i. PICK i \in Incidents : i = call[t].incident
  BY <1>1 DEF HeldInv, OwnIncidents
<1>p. PICK p \in Procs : p = ProcOf[t]
  BY ProcessAssumption
<1>s. PICK s \in Samples : s = call[t].sample
  BY <1>1, ProcessAssumption DEF HeldInv, Held, Shape
<1>2. /\ born[i] = [sample |-> s, process |-> p]
      /\ Settled(i)
      /\ index[p][s] = None
  BY <1>1, <1>i, <1>p, <1>s DEF StoreInv, AtWork, Finishing
<1>3. IsTerminal(Timeline(p, i))
  BY <1>2, SettledIsSeen DEF StoreInv, HeldInv
<1>4. snapshots' = [snapshots EXCEPT ![p][i] = Timeline(p, i)]
  BY <1>i, <1>p DEF Finish, Timeline
<1>5. \A q \in Procs : \A j \in Incidents :
         snapshots'[q][j] = IF q = p /\ j = i THEN Timeline(p, i) ELSE snapshots[q][j]
  BY <1>4 DEF StoreInv, StoreShape
<1>6. index' = [index EXCEPT ![p][s] = i]
  <2>1. IsTerminal(snapshots'[p][i])
    BY <1>3, <1>5
  <2>2. index' = IF IsTerminal(snapshots'[p][i]) THEN [index EXCEPT ![p][s] = i] ELSE index
    BY <1>i, <1>p, <1>s DEF Finish
  <2> QED
    BY Zenon, <2>1, <2>2
<1>7. \A q \in Procs : \A r \in Samples :
         index'[q][r] = IF q = p /\ r = s THEN i ELSE index[q][r]
  BY <1>6 DEF HeldInv, Shape
<1>8. answered' = answered \cup {i}
  BY <1>i DEF Finish
<1>9. /\ call'[t] = Ending(t)
      /\ \A u \in Threads \ {t} : call'[u] = call[u]
  BY DEF Finish, HeldInv, Shape
<1>10. Incidents' = Incidents
  BY <1>1 DEF Incidents
<1>11. StoreShape'
  <2>1. Timeline(p, i) \subseteq DOMAIN file
    BY ReadsOnlyEvents DEF StoreInv, Timeline, EventsOf
  <2>2. snapshots' \in [Procs -> [Incidents -> SUBSET DOMAIN file]]
    <3>1. snapshots' = [q \in Procs |-> snapshots'[q]]
      BY <1>4 DEF StoreInv, StoreShape
    <3>2. \A q \in Procs : snapshots'[q] = [j \in Incidents |-> snapshots'[q][j]]
      BY <1>4 DEF StoreInv, StoreShape
    <3>3. \A q \in Procs : \A j \in Incidents : snapshots'[q][j] \in SUBSET DOMAIN file
      BY <1>5, <2>1 DEF StoreInv, StoreShape
    <3> QED
      BY <3>1, <3>2, <3>3
  <2> QED
    BY <1>1, <1>8, <1>10, <2>2 DEF StoreInv, StoreShape
<1>12. \A S : IsTerminal(S)' <=> \E n \in S' : file[n].kind = "settled"
  BY <1>1 DEF IsTerminal
<1>13. \A q \in Procs : \A j \in Incidents :
          /\ Shows(q, j) => Shows(q, j)'
          /\ q = p /\ j = i => Shows(q, j)'
  <2> SUFFICES ASSUME NEW q \in Procs, NEW j \in Incidents, Shows(q, j) \/ (q = p /\ j = i)
               PROVE  Shows(q, j)'
    OBVIOUS
  <2>1. IsTerminal(Timeline(q, j))' <=> IsTerminal(Timeline(q, j))
    BY <1>1 DEF IsTerminal, Timeline, EventsOf, Reads
  <2>2. IsTerminal(Timeline(q, j))
    BY <1>3 DEF Shows
  <2>3. IsTerminal(snapshots[q][j])'
    BY <1>1, <1>3, <1>5 DEF Shows, IsTerminal
  <2> QED
    BY <2>1, <2>2, <2>3 DEF Shows
<1>14. \A j : Settled(j)' <=> Settled(j)
  BY <1>1, FileUnchanged
<1>15. \A j \in Incidents : /\ born[j].process \in Procs /\ born[j].sample \in Samples
                            /\ j \in Nat /\ j # None
  BY BornFacts DEF HeldInv
<1>16. \A j \in Incidents : Home(j) # None \/ j = i => Home(j)' # None
  BY <1>1, <1>2, <1>7, <1>15 DEF Home
<1>17. Stored'
  BY <1>1, <1>10 DEF StoreInv, Stored, Reads
<1>18. Indexed'
  <2> SUFFICES ASSUME NEW q \in Procs, NEW r \in Samples, index'[q][r] # None
               PROVE  index'[q][r] \in Incidents /\ Shows(q, index[q][r])'
    BY <1>10 DEF Indexed
  <2>1. PICK j : j = index'[q][r]
    OBVIOUS
  <2>2. j \in Incidents /\ Shows(q, j)'
    BY <1>7, <1>13, <2>1 DEF StoreInv, Indexed
  <2> QED
    BY <2>1, <2>2
<1>19. \A u \in Threads : Finishing(u)' => u # t /\ Finishing(u)
  BY <1>9 DEF Finishing, Works, Ending
<1>20. Complete'
  <2> SUFFICES ASSUME NEW j \in Incidents, Settled(j), j \notin unheard
               PROVE  \/ Home(j)' # None
                      \/ \E u \in Threads : Finishing(u)' /\ call'[u].incident = j
    BY <1>1, <1>10, <1>14 DEF Complete
  <2>1. CASE Home(j) # None
    BY <1>16, <2>1
  <2>2. CASE \E u \in Threads : Finishing(u) /\ call[u].incident = j
    <3>1. PICK u \in Threads : Finishing(u) /\ call[u].incident = j
      BY <2>2
    <3>2. CASE u = t
      BY <1>16, <1>i, <3>1, <3>2
    <3>3. CASE u # t
      BY <1>9, <3>1, <3>3 DEF Finishing, Works
    <3> QED
      BY <3>2, <3>3
  <2> QED
    BY <2>1, <2>2 DEF StoreInv, Complete
<1>21. AtWork'
  <2> SUFFICES ASSUME NEW u \in Threads, Works(u)'
               PROVE  /\ born[call'[u].incident] = [sample |-> call'[u].sample, process |-> ProcOf[u]]
                      /\ call'[u].pc # "leave" => index'[ProcOf[u]][call'[u].sample] = None
                      /\ Finishing(u)' => Settled(call[u].incident)'
    BY <1>1 DEF AtWork
  <2>1. CASE u = t
    BY <1>2, <1>9, <1>19, <1>i, <1>p, <1>s, <2>1 DEF Ending
  <2>2. CASE u # t
    <3>1. call'[u] = call[u] /\ Works(u)
      BY <1>9, <2>2 DEF Works
    <3>2. call[u].sample \in Samples /\ ProcOf[u] \in Procs
      BY <3>1, ProcessAssumption DEF HeldInv, Held, Shape
    <3>3. ~(ProcOf[u] = p /\ call[u].sample = s)
      BY <1>1, <1>p, <1>s, <2>2, <3>1 DEF HeldInv, Held, Holds
    <3>4. PICK j : j = call[u].incident /\ j = call'[u].incident
      BY <3>1
    <3>5. Finishing(u)' => Settled(j)'
      BY <1>14, <1>19, <3>1, <3>4 DEF StoreInv, AtWork
    <3> QED
      BY <1>7, <3>1, <3>2, <3>3, <3>4, <3>5 DEF StoreInv, AtWork
  <2> QED
    BY <2>1, <2>2
<1>22. Answers'
  <2> SUFFICES ASSUME NEW j \in answered'
               PROVE  Settled(j)' /\ Home(j)' # None /\ Shows(born[j].process, j)'
    BY DEF Answers
  <2>1. j \in Incidents /\ (j = i \/ (Settled(j) /\ Home(j) # None /\ Shows(born[j].process, j)))
    BY <1>8 DEF StoreInv, StoreShape, Answers
  <2>2. PICK q \in Procs : q = born[j].process /\ q = born'[j].process
    BY <1>1, <1>15, <2>1
  <2>3. Shows(q, j)'
    <3>1. CASE j = i
      <4>1. born[i].process = p
        BY <1>2
      <4>2. q = born[j].process
        BY <2>2
      <4>3. q = p
        BY <3>1, <4>1, <4>2
      <4> QED
        BY <1>13, <3>1, <4>3
    <3>2. CASE Shows(born[j].process, j)
      <4>1. Shows(q, j)
        BY <2>2, <3>2
      <4> QED
        BY <1>13, <2>1, <4>1
    <3> QED
      BY <2>1, <3>1, <3>2
  <2> QED
    BY <1>2, <1>14, <1>16, <2>1, <2>2, <2>3
<1>23. SettledOnce'
  BY <1>1, <1>10, <1>14 DEF StoreInv, SettledOnce
<1> QED
  BY <1>11, <1>17, <1>18, <1>20, <1>21, <1>22, <1>23 DEF StoreInv

(* A process dies; the next one has what the store says. *)
LEMMA RestartKeepsStore ==
    ASSUME RollbackInv, StoreInv, HeldInv', NEW p \in Procs, Restart(p)
    PROVE  StoreInv'
<1> USE DEF RollbackInv
<1>1. /\ UNCHANGED <<backend, file, born, unheard, answered>>
      /\ Incidents' = Incidents
  BY DEF Restart, history, Incidents
<1>2. /\ \A q \in Procs \ {p} : /\ loaded'[q] = loaded[q]
                                /\ snapshots'[q] = snapshots[q]
                                /\ index'[q] = index[q]
      /\ backend # "redis" => loaded'[p] = DOMAIN file
      /\ snapshots'[p] = [i \in Incidents |-> EventsOf(i, DOMAIN file)]
      /\ index'[p] = RebuiltIndex
  BY DEF Restart, StoreInv, StoreShape, HeldInv, Shape
<1>3. StoreShape'
  <2>1. \A i : EventsOf(i, DOMAIN file) \subseteq DOMAIN file
    BY DEF EventsOf
  <2>2. /\ loaded' \in [Procs -> SUBSET DOMAIN file]
        /\ snapshots' \in [Procs -> [Incidents -> SUBSET DOMAIN file]]
    BY <2>1 DEF Restart, StoreInv, StoreShape
  <2> QED
    BY <1>1, <2>2 DEF StoreInv, StoreShape
<1>4. /\ Reads(p)' = DOMAIN file
      /\ \A q \in Procs : Reads(q) \subseteq Reads(q)'
      /\ \A q \in Procs \ {p} : Reads(q)' = Reads(q)
  BY <1>1, <1>2, ReadsOnlyEvents DEF Reads, StoreInv
<1>5. \A i : Settled(i)' <=> Settled(i)
  BY <1>1, FileUnchanged
<1>6. \A i \in Incidents : Settled(i) => Shows(p, i)'
  BY <1>1, <1>2, <1>4 DEF Settled, Shows, IsTerminal, Timeline, EventsOf
<1>7. \A q \in Procs \ {p} : \A i \in Incidents : Shows(q, i) => Shows(q, i)'
  BY <1>1, <1>2, <1>4 DEF Shows, IsTerminal, Timeline, EventsOf
<1>8. \A i \in Incidents : /\ born[i].process \in Procs /\ born[i].sample \in Samples
                           /\ i \in Nat /\ i # None
  BY BornFacts DEF HeldInv
<1>9. \A i \in Incidents : Settled(i) /\ born[i].process = p => Home(i)' # None
  BY <1>1, <1>2, RebuiltIndexIsRight DEF Home, HeldInv
<1>10. \A i \in Incidents : born[i].process # p => Home(i)' = Home(i)
  BY <1>1, <1>2, <1>8 DEF Home
<1>11. \A t \in Threads : call'[t] = IF ProcOf[t] = p THEN Idle ELSE call[t]
  BY DEF Restart
<1>12. Stored'
  <2> SUFFICES ASSUME NEW n \in DOMAIN file
               PROVE  /\ file[n].incident \in Incidents
                      /\ file[n].kind = "settled" =>
                            n \in Reads(born[file[n].incident].process)'
    BY <1>1 DEF Stored
  <2>1. file[n].incident \in Incidents /\ born[file[n].incident].process \in Procs
    BY <1>8 DEF StoreInv, Stored
  <2> QED
    BY <1>1, <1>4, <2>1 DEF StoreInv, Stored
<1>13. Indexed'
  <2> SUFFICES ASSUME NEW q \in Procs, NEW s \in Samples, NEW i, i = index'[q][s], i # None
               PROVE  i \in Incidents /\ Shows(q, i)'
    BY <1>1 DEF Indexed
  <2>1. CASE q = p
    BY <1>2, <1>6, <2>1, RebuiltIndexIsRight DEF HeldInv
  <2>2. CASE q # p
    BY <1>2, <1>7, <2>2 DEF StoreInv, Indexed
  <2> QED
    BY <2>1, <2>2
<1>14. Complete'
  <2> SUFFICES ASSUME NEW i \in Incidents, Settled(i), i \notin unheard, born[i].process # p
               PROVE  \/ Home(i)' # None
                      \/ \E t \in Threads : Finishing(t)' /\ call'[t].incident = i
    BY <1>1, <1>5, <1>9 DEF Complete
  <2>1. CASE Home(i) # None
    BY <1>10, <2>1
  <2>2. CASE \E t \in Threads : Finishing(t) /\ call[t].incident = i
    <3>1. PICK t \in Threads : Finishing(t) /\ call[t].incident = i
      BY <2>2
    <3>2. ProcOf[t] # p
      <4>1. born[i] = [sample |-> call[t].sample, process |-> ProcOf[t]]
        BY <3>1 DEF StoreInv, AtWork, Finishing
      <4> QED
        BY <4>1
    <3>3. Finishing(t)' /\ call'[t].incident = i
      BY <1>11, <3>1, <3>2 DEF Finishing, Works
    <3> QED
      BY <3>3
  <2> QED
    BY <2>1, <2>2 DEF StoreInv, Complete
<1>15. AtWork'
  <2> SUFFICES ASSUME NEW t \in Threads, Works(t)'
               PROVE  /\ born[call'[t].incident] = [sample |-> call'[t].sample, process |-> ProcOf[t]]
                      /\ call'[t].pc # "leave" => index'[ProcOf[t]][call'[t].sample] = None
                      /\ Finishing(t)' => Settled(call[t].incident)'
    BY <1>1 DEF AtWork
  <2>1. ProcOf[t] \in Procs \ {p} /\ call'[t] = call[t] /\ Works(t)
    BY <1>11, ProcessAssumption DEF Works
  <2>2. PICK i : i = call[t].incident /\ i = call'[t].incident
    BY <2>1
  <2>3. Finishing(t)' => Settled(i)'
    BY <1>5, <2>1, <2>2 DEF StoreInv, AtWork, Finishing
  <2> QED
    BY <1>2, <2>1, <2>2, <2>3 DEF StoreInv, AtWork
<1>16. Answers'
  <2> SUFFICES ASSUME NEW i \in answered
               PROVE  Settled(i)' /\ Home(i)' # None /\ Shows(born[i].process, i)'
    BY <1>1 DEF Answers
  <2>1. i \in Incidents /\ Settled(i) /\ Home(i) # None /\ Shows(born[i].process, i)
    BY DEF StoreInv, StoreShape, Answers
  <2>2. PICK q \in Procs : q = born[i].process /\ q = born'[i].process
    BY <1>1, <1>8, <2>1
  <2>3. Shows(q, i)'
    BY <1>6, <1>7, <2>1, <2>2
  <2> QED
    BY <1>5, <1>9, <1>10, <2>1, <2>2, <2>3
<1>17. SettledOnce'
  BY <1>1, <1>5 DEF StoreInv, SettledOnce
<1> QED
  BY <1>3, <1>12, <1>13, <1>14, <1>15, <1>16, <1>17 DEF StoreInv

LEMMA StoreNext ==
    RollbackInv /\ PlanInv /\ StoreInv /\ [Next]_vars => StoreInv'
<1> SUFFICES ASSUME RollbackInv, PlanInv, StoreInv, [Next]_vars
             PROVE  StoreInv'
  OBVIOUS
<1>1. HeldInv'
  BY HeldNext
<1>2. HeldInv /\ call = [t \in Threads |-> call[t]]
  BY DEF RollbackInv, HeldInv, Shape
<1>3. \A t \in Threads : \A c : call' = [call EXCEPT ![t] = c] =>
         call'[t] = c /\ \A u \in Threads \ {t} : call'[u] = call[u]
  BY <1>2
<1>4. ASSUME NEW t \in Threads, Chain(t) \/ ChainRaises(t) \/ Defend(t)
      PROVE  StoreInv'
  <2>1. PICK c : /\ call' = [call EXCEPT ![t] = c]
                 /\ c.sample = call[t].sample /\ c.incident = call[t].incident
                 /\ c.pc # "emit"
    <3>1. CASE Chain(t)
      <4> DEFINE d == [pc |-> "defend", sample |-> call[t].sample,
                       incident |-> call[t].incident, before |-> rollbacks[ProcOf[t]]]
      <4>1. call' = [call EXCEPT ![t] = d]
        BY <3>1, Zenon DEF Chain
      <4>2. d.sample = call[t].sample /\ d.incident = call[t].incident /\ d.pc # "emit"
        OBVIOUS
      <4> HIDE DEF d
      <4> QED
        BY <4>1, <4>2
    <3>2. CASE ChainRaises(t)
      <4>1. call' = [call EXCEPT ![t] = Ending(t)]
        BY <3>2, Zenon DEF ChainRaises
      <4>2. /\ Ending(t).sample = call[t].sample /\ Ending(t).incident = call[t].incident
            /\ Ending(t).pc # "emit"
        BY DEF Ending
      <4> QED
        BY <4>1, <4>2
    <3>3. CASE Defend(t)
      <4>1. PICK b : call' = [call EXCEPT ![t] =
                        [pc |-> "measure", sample |-> call[t].sample,
                         incident |-> call[t].incident,
                         before |-> call[t].before, recovered |-> b]]
        BY <3>3, Zenon DEF Defend
      <4> DEFINE d == [pc |-> "measure", sample |-> call[t].sample,
                       incident |-> call[t].incident,
                       before |-> call[t].before, recovered |-> b]
      <4>2. d.sample = call[t].sample /\ d.incident = call[t].incident /\ d.pc # "emit"
        OBVIOUS
      <4>3. call' = [call EXCEPT ![t] = d]
        BY <4>1, Zenon
      <4> HIDE DEF d
      <4> QED
        BY <4>2, <4>3
    <3> QED
      BY <1>4, <3>1, <3>2, <3>3
  <2>2. /\ call[t].pc \in {"chain", "defend"}
        /\ UNCHANGED <<backend, file, manager, born, unheard, answered>>
    BY <1>4, Zenon DEF Chain, ChainRaises, Defend, history
  <2>3. /\ Works(t) /\ ~Finishing(t) /\ call[t].pc # "leave"
        /\ UNCHANGED <<backend, file, loaded, snapshots, index, born, unheard, answered>>
    BY <2>2 DEF manager, Works, Idle, Finishing
  <2>4. /\ call'[t] = c /\ \A u \in Threads \ {t} : call'[u] = call[u]
    BY <1>3, <2>1
  <2> QED
    BY <1>1, <1>2, <2>1, <2>3, <2>4, Quietly
<1>5. ASSUME NEW t \in Threads, Leave(t) PROVE StoreInv'
  <2>1. /\ call[t].pc = "leave" /\ call' = [call EXCEPT ![t] = Idle]
        /\ UNCHANGED <<backend, file, loaded, snapshots, index, born, unheard, answered>>
    BY <1>5 DEF Leave, Returns, history
  <2>2. ~Works(t)' /\ ~Finishing(t) /\ \A u \in Threads \ {t} : call'[u] = call[u]
    BY <1>3, <2>1 DEF Works, Finishing
  <2> QED
    BY <1>1, <1>2, <2>1, <2>2, Quietly
<1>6. ASSUME UNCHANGED <<backend, file, loaded, snapshots, index, born, unheard, answered, call>>
      PROVE  StoreInv'
  <2>1. StoreShape'
    BY <1>6 DEF StoreInv, StoreShape, Incidents
  <2>2. Stored' /\ Indexed' /\ Complete' /\ AtWork' /\ Answers' /\ SettledOnce'
    BY <1>6 DEF StoreInv, Stored, Indexed, Complete, AtWork, Answers, SettledOnce, Home, Shows,
       Settled, Finishing, Works, IsTerminal, Timeline, EventsOf, Reads, Incidents
  <2> QED
    BY <2>1, <2>2 DEF StoreInv
<1>7. ASSUME NEW t \in Threads, Start(t) PROVE StoreInv'
  BY <1>6, <1>7 DEF Start, manager, history
<1>8. ASSUME NEW t \in Threads, Session(t) PROVE StoreInv'
  <2>1. Head(experiment[t].plan) \in Samples
    BY <1>8 DEF Session, PlanInv, Experiment
  <2> QED
    BY <1>1, <1>8, <2>1, EnterKeepsStore DEF Session
<1>9. ASSUME NEW t \in Threads, NEW s \in Samples, Submit(t, s) PROVE StoreInv'
  BY <1>1, <1>9, EnterKeepsStore DEF Submit
<1>10. CASE UNCHANGED vars
  BY <1>6, <1>10 DEF vars, manager, history
<1> QED
  BY <1>1, <1>4, <1>5, <1>7, <1>8, <1>9, <1>10, EmitKeepsStore, FinishKeepsStore,
     RestartKeepsStore DEF Next, Step

LEMMA StoreInit == Init => StoreInv
<1> SUFFICES ASSUME Init PROVE StoreInv
  OBVIOUS
<1>1. Incidents = {} /\ DOMAIN file = {}
  BY DEF Init, Incidents
<1>2. StoreShape
  <2>1. << >> \in [Incidents -> SUBSET DOMAIN file]
    BY <1>1
  <2> QED
    BY <1>1, <2>1 DEF Init, StoreShape
<1>3. \A t \in Threads : ~Works(t)
  BY DEF Init, Works
<1> QED
  BY <1>1, <1>2, <1>3 DEF Init, StoreInv, Stored, Indexed, Complete, AtWork, Answers, SettledOnce

LEMMA AlwaysStore == Spec => [](RollbackInv /\ PlanInv /\ StoreInv)
<1>1. RollbackInv /\ PlanInv /\ StoreInv /\ [Next]_vars => StoreInv'
  BY StoreNext
<1> QED
  BY Always, StoreInit, <1>1, PTL DEF Spec

(* One process settles one sample once, however its threads race, its      *)
(* appends fail and it is restarted, unless it was not told of an event    *)
(* that Redis had stored.                                                  *)
THEOREM OneSettlement == Spec => []SettledOnce
<1>1. RollbackInv /\ PlanInv /\ StoreInv => SettledOnce
  BY DEF StoreInv
<1> QED
  BY AlwaysStore, <1>1, PTL

(* What a caller was given stays settled, indexed and listed in the        *)
(* process that gave it, through every later call, fault and restart.      *)
THEOREM AnswersAreKept == Spec => []AnswersSurvive
<1>1. RollbackInv /\ PlanInv /\ StoreInv => AnswersSurvive
  <2> SUFFICES ASSUME HeldInv, StoreInv, NEW i \in answered
               PROVE  /\ Settled(i)
                      /\ IsTerminal(snapshots[born[i].process][i])
                      /\ index[born[i].process][born[i].sample] # None
                      /\ i \in Listed(born[i].process)
                      /\ IsTerminal(Timeline(born[i].process, i))
    BY DEF RollbackInv, AnswersSurvive
  <2>1. i \in Incidents /\ Settled(i) /\ Home(i) # None /\ Shows(born[i].process, i)
    BY DEF StoreInv, StoreShape, Answers
  <2>2. i \in Listed(born[i].process)
    BY <2>1 DEF Listed, Shows, IsTerminal
  <2> QED
    BY <2>1, <2>2 DEF Home, Shows
<1> QED
  BY AlwaysStore, <1>1, PTL
-----------------------------------------------------------------------------
(* The records of the calls, and the counters. *)

CallsInv == /\ \A t \in Threads : call[t] \in Call \cup {Idle}
            /\ repeats \in 0..MaxRepeats
            /\ faults \in 0..MaxFaults

LEMMA CallsNext ==
    RollbackInv /\ PlanInv /\ CallsInv /\ [Next]_vars => CallsInv'
<1> SUFFICES ASSUME RollbackInv, PlanInv, CallsInv, [Next]_vars
             PROVE  CallsInv'
  OBVIOUS
<1> USE DEF RollbackInv
<1>1. call = [t \in Threads |-> call[t]]
  BY DEF HeldInv, Shape
<1>2. \A t \in Threads : Works(t) => call[t].sample \in Samples /\ call[t].incident \in Numbers
  BY ProcessAssumption, BornFacts DEF HeldInv, Held, OwnIncidents, Shape, Numbers, None
<1>3. ASSUME NEW t \in Threads, NEW c \in Call \cup {Idle}, call' = [call EXCEPT ![t] = c]
      PROVE  \A u \in Threads : call'[u] \in Call \cup {Idle}
  BY <1>1, <1>3 DEF CallsInv
<1>4. \A p, e : Appended(p, e) \/ AppendRaises(p, e) => faults' \in 0..MaxFaults
  BY ProcessAssumption DEF Appended, AppendRaises, CallsInv
<1>5. \A t \in Threads : Works(t) => Ending(t) \in Call
  BY <1>2 DEF Ending, Call
<1>6. ASSUME NEW t \in Threads, Chain(t) PROVE CallsInv'
  <2> DEFINE c == [pc |-> "defend", sample |-> call[t].sample,
                   incident |-> call[t].incident, before |-> rollbacks[ProcOf[t]]]
  <2>1. Works(t) /\ call' = [call EXCEPT ![t] = c] /\ UNCHANGED <<repeats, faults>>
    BY <1>6 DEF Chain, Works, Idle, bounds
  <2>2. rollbacks[ProcOf[t]] \in Nat
    BY ProcessAssumption DEF HeldInv, Shape
  <2>3. c \in Call
    BY <1>2, <2>1, <2>2 DEF Call
  <2> HIDE DEF c
  <2> QED
    BY <1>3, <2>1, <2>3 DEF CallsInv
<1>7. ASSUME NEW t \in Threads, ChainRaises(t) \/ Finish(t) PROVE CallsInv'
  <2>1. Works(t) /\ call' = [call EXCEPT ![t] = Ending(t)] /\ UNCHANGED <<repeats, faults>>
    BY <1>7 DEF ChainRaises, Finish, Works, Idle, bounds
  <2> QED
    BY <1>3, <1>5, <2>1 DEF CallsInv
<1>8. ASSUME NEW t \in Threads, Defend(t) PROVE CallsInv'
  <2>2. Works(t) /\ call[t].pc = "defend" /\ UNCHANGED <<repeats, faults>>
    <3>1. call[t].pc = "defend" /\ UNCHANGED bounds
      BY <1>8, Zenon DEF Defend
    <3> QED
      BY <3>1 DEF Works, Idle, bounds
  <2>1. PICK b \in BOOLEAN : call' = [call EXCEPT ![t] =
                     [pc |-> "measure", sample |-> call[t].sample, incident |-> call[t].incident,
                      before |-> call[t].before, recovered |-> b]]
    <3>1. PICK outcome \in {"verified", "recovered", "rolled back"} :
                 call' = [call EXCEPT ![t] =
                     [pc |-> "measure", sample |-> call[t].sample, incident |-> call[t].incident,
                      before |-> call[t].before, recovered |-> outcome # "verified"]]
      BY <1>8, Zenon DEF Defend
    <3>2. PICK b \in BOOLEAN : b = (outcome # "verified")
      OBVIOUS
    <3> QED
      BY <3>1, <3>2, Zenon
  <2> DEFINE c == [pc |-> "measure", sample |-> call[t].sample, incident |-> call[t].incident,
                   before |-> call[t].before, recovered |-> b]
  <2>3. call[t].before \in Nat
    BY <2>2 DEF InOrder
  <2>4. c \in Call
    BY <1>2, <2>2, <2>3 DEF Call
  <2>5. call' = [call EXCEPT ![t] = c]
    BY <2>1
  <2> HIDE DEF c
  <2> QED
    BY <1>3, <2>2, <2>4, <2>5 DEF CallsInv
<1>9. ASSUME NEW t \in Threads, Emit(t) PROVE CallsInv'
  <2>1. /\ Recording(t) /\ Works(t)
        /\ call' = [call EXCEPT ![t] = Remaining(t)] \/ call' = [call EXCEPT ![t] = Ending(t)]
        /\ UNCHANGED repeats
        /\ faults' \in 0..MaxFaults
    BY <1>4, <1>9 DEF Emit, Recording, Works, Idle
  <2>2. Tail(Pending(t)) \in Plans
    BY <2>1, HeadOfPending DEF InOrder
  <2>3. Plans \subseteq Seq(Kinds)
    BY DEF Plans, Kinds
  <2>4. Remaining(t) \in Call
    BY <1>2, <2>1, <2>2, <2>3 DEF Remaining, Call
  <2> QED
    BY <1>3, <1>5, <2>1, <2>4 DEF CallsInv
<1>10. ASSUME NEW t \in Threads, NEW i, Returns(t, i), UNCHANGED repeats,
              faults' \in 0..MaxFaults
       PROVE  CallsInv'
  BY <1>3, <1>10 DEF Returns, CallsInv
<1>11. ASSUME NEW t \in Threads, NEW s \in Samples, Enter(t, s), repeats' \in 0..MaxRepeats
       PROVE  CallsInv'
  <2>1. faults' \in 0..MaxFaults
    BY <1>4, <1>11 DEF Enter, Skip, CallsInv
  <2>2. CASE \E i : Returns(t, i)
    BY <1>3, <1>11, <2>1, <2>2 DEF Returns, CallsInv
  <2>3. CASE call' = [call EXCEPT ![t] = [pc |-> "chain", sample |-> s,
                                           incident |-> Len(born) + 1]]
    <3> DEFINE c == [pc |-> "chain", sample |-> s, incident |-> Len(born) + 1]
    <3>1. c \in Call
      BY BornFacts DEF Call, HeldInv, Numbers
    <3>2. call' = [call EXCEPT ![t] = c]
      BY <2>3
    <3> HIDE DEF c
    <3> QED
      BY <1>3, <1>11, <2>1, <3>1, <3>2 DEF CallsInv
  <2> QED
    BY <1>11, <2>2, <2>3 DEF Enter, Skip
<1>12. ASSUME NEW t \in Threads, Leave(t) PROVE CallsInv'
  BY <1>10, <1>12 DEF Leave, bounds, CallsInv
<1>13. ASSUME NEW t \in Threads, Session(t) PROVE CallsInv'
  <2>1. Head(experiment[t].plan) \in Samples
    BY <1>13 DEF Session, PlanInv, Experiment
  <2> QED
    BY <1>11, <1>13, <2>1 DEF Session, CallsInv
<1>14. ASSUME NEW t \in Threads, NEW s \in Samples, Submit(t, s) PROVE CallsInv'
  <2>1. repeats' \in 0..MaxRepeats
    BY <1>14, ProcessAssumption DEF Submit, CallsInv
  <2> QED
    BY <1>11, <1>14, <2>1 DEF Submit
<1>15. ASSUME NEW t \in Threads, Start(t) PROVE CallsInv'
  BY <1>15 DEF Start, CallsInv
<1>16. ASSUME NEW p \in Procs, Restart(p) PROVE CallsInv'
  <2>1. \A t \in Threads : call'[t] = IF ProcOf[t] = p THEN Idle ELSE call[t]
    BY <1>16 DEF Restart
  <2>2. faults' \in 0..MaxFaults /\ UNCHANGED repeats
    BY <1>16, ProcessAssumption DEF Restart, CallsInv
  <2> QED
    BY <2>1, <2>2 DEF CallsInv
<1>17. CASE UNCHANGED vars
  BY <1>17 DEF vars, bounds, CallsInv
<1> QED
  BY <1>6, <1>7, <1>8, <1>9, <1>12, <1>13, <1>14, <1>15, <1>16, <1>17 DEF Next, Step

LEMMA EventsOfIncidents ==
    ASSUME Shape, Stored
    PROVE  file \in Seq([incident : Incidents, kind : Kinds])
<1> DEFINE E == [incident : Incidents, kind : Kinds]
<1>1. /\ file \in [1..Len(file) -> [incident : Nat, kind : Kinds]]
      /\ Len(file) \in Nat
  BY LenProperties DEF Shape
<1>2. \A n \in 1..Len(file) : file[n] \in E
  BY <1>1 DEF Stored
<1>3. file \in [1..Len(file) -> E]
  BY <1>1, <1>2
<1> HIDE DEF E
<1>4. file \in Seq(E)
  BY <1>1, <1>3, SeqDef
<1> QED
  BY <1>4 DEF E

(* The state has the declared shape: every event is of an incident, what a *)
(* process knows are positions of the store, what an index, a call or an   *)
(* experiment names are samples and incidents there are.                   *)
THEOREM TypeCorrect == Spec => []TypeOK
<1>1. Init => CallsInv
  BY ProcessAssumption DEF Init, CallsInv
<1>2. RollbackInv /\ PlanInv /\ CallsInv /\ [Next]_vars => CallsInv'
  BY CallsNext
<1>3. RollbackInv /\ PlanInv /\ StoreInv /\ CallsInv => TypeOK
  <2> SUFFICES ASSUME RollbackInv, PlanInv, StoreInv, CallsInv PROVE TypeOK
    OBVIOUS
  <2>1. Shape /\ StoreShape /\ Stored /\ Indexed
    BY DEF RollbackInv, HeldInv, StoreInv
  <2>2. file \in Seq([incident : Incidents, kind : Kinds])
    BY <2>1, EventsOfIncidents
  <2>3. index \in [Procs -> [Samples -> {None} \cup Incidents]]
    BY <2>1 DEF Shape, Indexed
  <2>4. call \in [Threads -> Call \cup {Idle}]
    BY <2>1 DEF Shape, CallsInv
  <2> QED
    BY <2>1, <2>2, <2>3, <2>4 DEF TypeOK, Shape, StoreShape, PlanInv, CallsInv, RollbackInv
<1> QED
  BY AlwaysStore, <1>1, <1>2, <1>3, PTL DEF Spec
=============================================================================
