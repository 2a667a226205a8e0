------------------------ MODULE IncidentWorkerProofs ------------------------
(***************************************************************************)
(* Proofs about the incident worker, for every set of incidents, every     *)
(* evidence and every number of copies, crashes and failed appends.        *)
(***************************************************************************)
EXTENDS IncidentWorker, SequenceTheorems, FiniteSetTheorems, TLAPS

USE LifecycleAssumption, WorkerAssumption
-----------------------------------------------------------------------------
(* Replaying a store that has grown by one event *)

LEMMA StoreGrows ==
    ASSUME NEW s \in Seq(Event), NEW ev \in Event
    PROVE  /\ Append(s, ev) \in Seq(Event)
           /\ Len(s) \in Nat /\ Len(Append(s, ev)) = Len(s) + 1
           /\ DOMAIN s = 1..Len(s) /\ DOMAIN Append(s, ev) = 1..(Len(s) + 1)
           /\ \A n \in 1..Len(s) : Append(s, ev)[n] = s[n] /\ s[n] \in Event
           /\ Append(s, ev)[Len(s) + 1] = ev
  BY LenProperties, AppendProperties, ElementOfSeq

(* An event is in the history of its own incident only, and last there. *)
LEMMA HistoryGrows ==
    ASSUME NEW s \in Seq(Event), NEW ev \in Event, NEW i \in Incidents
    PROVE  HistoryOf(i, Append(s, ev)) =
              HistoryOf(i, s) \cup (IF ev.incident = i THEN {Len(s) + 1} ELSE {})
<1> DEFINE t == Append(s, ev)
<1>1. /\ Len(s) \in Nat
      /\ DOMAIN s = 1..Len(s) /\ DOMAIN t = 1..(Len(s) + 1)
      /\ \A n \in 1..Len(s) : t[n] = s[n]
      /\ t[Len(s) + 1] = ev
  BY StoreGrows
<1> HIDE DEF t
<1>2. ASSUME NEW n
      PROVE  n \in HistoryOf(i, t) <=>
               \/ n \in HistoryOf(i, s)
               \/ ev.incident = i /\ n = Len(s) + 1
  <2>1. n \in 1..(Len(s) + 1) <=> n \in 1..Len(s) \/ n = Len(s) + 1
    BY <1>1
  <2>2. Len(s) + 1 \notin 1..Len(s)
    BY <1>1
  <2>3. /\ n \in HistoryOf(i, s) <=> n \in 1..Len(s) /\ s[n].incident = i
        /\ n \in HistoryOf(i, t) <=> n \in 1..(Len(s) + 1) /\ t[n].incident = i
    BY <1>1 DEF HistoryOf
  <2>4. CASE n = Len(s) + 1
    BY <1>1, <2>1, <2>2, <2>3, <2>4
  <2>5. CASE n # Len(s) + 1
    BY <1>1, <2>1, <2>3, <2>5
  <2> QED
    BY <2>4, <2>5
<1>3. CASE ev.incident = i
  BY <1>2, <1>3 DEF t
<1>4. CASE ev.incident # i
  BY <1>2, <1>4 DEF t
<1> QED
  BY <1>3, <1>4

LEMMA HistoryIsFinite ==
    ASSUME NEW s \in Seq(Event), NEW i \in Incidents
    PROVE  /\ HistoryOf(i, s) \subseteq 1..Len(s) /\ Len(s) \in Nat
           /\ IsFiniteSet(HistoryOf(i, s))
           /\ Cardinality(HistoryOf(i, s)) \in Nat
<1>1. Len(s) \in Nat /\ HistoryOf(i, s) \subseteq 1..Len(s)
  BY LenProperties DEF HistoryOf
<1>2. IsFiniteSet(1..Len(s))
  BY <1>1, FS_Interval
<1> QED
  BY <1>1, <1>2, FS_Subset, FS_CardinalityType

(* A history that is not empty has a last event: the one whose distance    *)
(* from the end of the store is the least.                                 *)
LEMMA HistoryHasLast ==
    ASSUME NEW s \in Seq(Event), NEW i \in Incidents, HistoryOf(i, s) # {}
    PROVE  \E n \in HistoryOf(i, s) : \A m \in HistoryOf(i, s) : m <= n
<1> DEFINE H == HistoryOf(i, s)
           T == {d \in Nat : Len(s) - d \in H}
<1>1. H \subseteq 1..Len(s) /\ Len(s) \in Nat
  BY HistoryIsFinite
<1>2. PICK h \in H : TRUE
  OBVIOUS
<1> HIDE DEF H
<1>3. Len(s) - h \in T
  BY <1>1, <1>2
<1> HIDE DEF T
<1>4. T \subseteq Nat /\ T # {}
  BY <1>3 DEF T
<1>5. PICK d \in T : \A e \in T : ~(<<e, d>> \in OpToRel(<, Nat))
  BY Zenon, <1>4, WFMin, NatLessThanWellFounded
<1>6. \A e \in T : ~(e < d)
  BY <1>4, <1>5 DEF OpToRel
<1>7. \A m \in H : m \in Int /\ Len(s) - m \in T
  BY <1>1 DEF T
<1>8. Len(s) - d \in H /\ d \in Int
  BY <1>4 DEF T
<1>9. \A m \in H : m <= Len(s) - d
  BY <1>1, <1>4, <1>6, <1>7
<1> QED
  BY <1>8, <1>9 DEF H

(* What a snapshot says, without the CHOOSE. *)
LEMMA ReconstructIs ==
    ASSUME NEW s \in Seq(Event), NEW i \in Incidents
    PROVE  /\ HistoryOf(i, s) = {} => Reconstruct(i, s) = NoSnapshot
           /\ \A last \in HistoryOf(i, s) :
                (\A m \in HistoryOf(i, s) : m <= last) =>
                  Reconstruct(i, s) =
                    [state |-> s[last].to, events |-> Cardinality(HistoryOf(i, s)),
                     escalations |-> Cardinality({n \in HistoryOf(i, s) :
                                                    s[n].type = "INCIDENT_ESCALATED"})]
<1>2. ASSUME NEW last \in HistoryOf(i, s), \A m \in HistoryOf(i, s) : m <= last
      PROVE  (CHOOSE n \in HistoryOf(i, s) : \A m \in HistoryOf(i, s) : m <= n) = last
  <2> DEFINE H == HistoryOf(i, s)
  <2>1. H \subseteq Int
    BY HistoryIsFinite
  <2> HIDE DEF H
  <2>2. \A n \in H : (\A m \in H : m <= n) <=> n = last
    BY <1>2, <2>1 DEF H
  <2> QED
    BY <1>2, <2>2 DEF H
<1>3. ASSUME NEW last \in HistoryOf(i, s), \A m \in HistoryOf(i, s) : m <= last
      PROVE  Reconstruct(i, s) =
               [state |-> s[last].to, events |-> Cardinality(HistoryOf(i, s)),
                escalations |-> Cardinality({n \in HistoryOf(i, s) :
                                               s[n].type = "INCIDENT_ESCALATED"})]
  BY <1>2, <1>3, Zenon DEF Reconstruct
<1>4. HistoryOf(i, s) = {} => Reconstruct(i, s) = NoSnapshot
  BY Zenon DEF Reconstruct
<1> QED
  BY <1>3, <1>4, Zenon

LEMMA ReconstructTyped ==
    ASSUME NEW s \in Seq(Event), NEW i \in Incidents
    PROVE  /\ Reconstruct(i, s) \in Snapshot
           /\ Reconstruct(i, s) = NoSnapshot \/ Reconstruct(i, s).state \in States
           /\ Reconstruct(i, s) # NoSnapshot <=> HistoryOf(i, s) # {}
           /\ StateOf(i, s) # "NONE" <=> HistoryOf(i, s) # {}
<1>1. CASE HistoryOf(i, s) = {}
  <2>1. Reconstruct(i, s) = NoSnapshot
    BY <1>1, ReconstructIs
  <2> QED
    BY <1>1, <2>1 DEF NoSnapshot, Snapshot, StateOf
<1>2. CASE HistoryOf(i, s) # {}
  <2>1. PICK last \in HistoryOf(i, s) : \A m \in HistoryOf(i, s) : m <= last
    BY <1>2, HistoryHasLast
  <2> DEFINE E == {n \in HistoryOf(i, s) : s[n].type = "INCIDENT_ESCALATED"}
  <2>2. E \in SUBSET HistoryOf(i, s)
    OBVIOUS
  <2>3. Cardinality(E) \in Nat /\ Cardinality(HistoryOf(i, s)) \in Nat
    BY <2>2, HistoryIsFinite, FS_Subset, FS_CardinalityType
  <2>4. s[last] \in Event
    BY <2>1, HistoryIsFinite, ElementOfSeq
  <2>5. Reconstruct(i, s) = [state |-> s[last].to, events |-> Cardinality(HistoryOf(i, s)),
                             escalations |-> Cardinality(E)]
    BY <2>1, ReconstructIs
  <2> HIDE DEF E
  <2>6. s[last].to \in States /\ "NONE" \notin States
    BY <2>4 DEF Event, States
  <2>7. Reconstruct(i, s).state \in States /\ Reconstruct(i, s) \in Snapshot
    BY <2>3, <2>5, <2>6 DEF Snapshot
  <2> QED
    BY <1>2, <2>6, <2>7 DEF NoSnapshot, StateOf
<1> QED
  BY <1>1, <1>2

(* One more event of incident i: its state is the event's. *)
LEMMA ReconstructOwn ==
    ASSUME NEW s \in Seq(Event), NEW ev \in Event
    PROVE  StateOf(ev.incident, Append(s, ev)) = ev.to
<1> DEFINE i == ev.incident  t == Append(s, ev)
<1>1. i \in Incidents
  BY DEF Event
<1>2. HistoryOf(i, t) = HistoryOf(i, s) \cup {Len(s) + 1}
  BY <1>1, HistoryGrows
<1>3. HistoryOf(i, s) \subseteq 1..Len(s) /\ Len(s) \in Nat
  BY <1>1, HistoryIsFinite
<1>4. t \in Seq(Event) /\ t[Len(s) + 1] = ev
  BY StoreGrows
<1>5. Len(s) + 1 \in HistoryOf(i, t) /\ \A m \in HistoryOf(i, t) : m <= Len(s) + 1
  BY <1>2, <1>3
<1>6. Reconstruct(i, t) = [state |-> t[Len(s) + 1].to, events |-> Cardinality(HistoryOf(i, t)),
                           escalations |-> Cardinality({n \in HistoryOf(i, t) :
                                                          t[n].type = "INCIDENT_ESCALATED"})]
  BY <1>1, <1>4, <1>5, ReconstructIs, Zenon
<1> DEFINE A == Cardinality(HistoryOf(i, t))
           B == Cardinality({n \in HistoryOf(i, t) : t[n].type = "INCIDENT_ESCALATED"})
<1>7. Reconstruct(i, t) = [state |-> t[Len(s) + 1].to, events |-> A, escalations |-> B]
  BY <1>6
<1> HIDE DEF A, B
<1>8. Reconstruct(i, t).state = t[Len(s) + 1].to
  BY <1>7
<1> QED
  BY <1>4, <1>8 DEF StateOf

(* An event of another incident changes nothing. *)
LEMMA ReconstructOther ==
    ASSUME NEW s \in Seq(Event), NEW ev \in Event, NEW i \in Incidents, ev.incident # i
    PROVE  Reconstruct(i, Append(s, ev)) = Reconstruct(i, s)
<1>0. HistoryOf(i, Append(s, ev)) = HistoryOf(i, s) \cup {}
  BY HistoryGrows, Zenon
<1> DEFINE t == Append(s, ev)  H == HistoryOf(i, s)
           E == {n \in H : s[n].type = "INCIDENT_ESCALATED"}
           F == {n \in H : t[n].type = "INCIDENT_ESCALATED"}
<1>1. HistoryOf(i, t) = H
  BY <1>0
<1>2. H \subseteq 1..Len(s)
  BY HistoryIsFinite
<1>3. \A n \in 1..Len(s) : t[n] = s[n]
  BY StoreGrows
<1>4. t \in Seq(Event)
  BY StoreGrows
<1> HIDE DEF t
<1>5. E = F
  BY <1>2, <1>3
<1>6. CASE H = {}
  BY <1>1, <1>4, <1>6, ReconstructIs DEF t
<1>7. CASE H # {}
  <2>1. PICK last \in H : \A m \in H : m <= last
    BY <1>7, HistoryHasLast
  <2>2. Reconstruct(i, s) = [state |-> s[last].to, events |-> Cardinality(H),
                             escalations |-> Cardinality(E)]
    BY <2>1, ReconstructIs
  <2>3. Reconstruct(i, t) = [state |-> t[last].to, events |-> Cardinality(H),
                             escalations |-> Cardinality(F)]
    BY <1>1, <1>4, <2>1, ReconstructIs, Zenon
  <2>4. t[last].to = s[last].to
    BY <1>2, <1>3, <2>1
  <2> HIDE DEF H, E, F
  <2> QED
    BY <1>5, <2>2, <2>3, <2>4 DEF t
<1> QED
  BY <1>6, <1>7
-----------------------------------------------------------------------------
(* The lifecycle of an incident *)

Emission == [type : EventTypes, to : States]

(* A step the transition table permits, or none at all. *)
Allowed(from, to) == to # from => Permits(from, to)

(* What is emitted from a state on moves along the transition table. *)
Legal(todo, state) ==
    /\ Len(todo) > 0 => Allowed(state, todo[1].to)
    /\ \A n \in 1..Len(todo) : n > 1 => Allowed(todo[n - 1].to, todo[n].to)

(* A part of a lifecycle, before the incident ends. *)
Part(s, from, to) ==
    /\ s \in Seq(Emission)
    /\ Legal(s, from)
    /\ \A n \in 1..Len(s) : s[n].to \notin Terminal /\ s[n].type # "INCIDENT_RESOLVED"
    /\ Len(s) = 0 => to = from
    /\ Len(s) > 0 => to = s[Len(s)].to

LEMMA EmptyPart ==
    ASSUME NEW state
    PROVE  Part(<< >>, state, state)
  BY DEF Part, Legal

LEMMA SinglePart ==
    ASSUME NEW from, NEW type \in EventTypes \ {"INCIDENT_RESOLVED"},
           NEW to \in States \ Terminal, Allowed(from, to)
    PROVE  Part(<<To(type, to)>>, from, to)
<1> DEFINE e == To(type, to)  s == <<e>>
<1>1. e \in Emission /\ e.to = to /\ e.type = type
  BY DEF To, Emission
<1> HIDE DEF e
<1>2. s \in Seq(Emission) /\ Len(s) = 1 /\ s[1] = e
  BY <1>1
<1> HIDE DEF s
<1>3. Part(s, from, to)
  BY <1>1, <1>2 DEF Part, Legal
<1> QED
  BY <1>3 DEF s, e

(* Two parts, the second from where the first leads to. *)
LEMMA PartsJoin ==
    ASSUME NEW s, NEW t, NEW a, NEW b, NEW c, Part(s, a, b), Part(t, b, c)
    PROVE  Part(s \o t, a, c)
<1> DEFINE u == s \o t
<1>1. s \in Seq(Emission) /\ t \in Seq(Emission)
  BY DEF Part
<1>2. /\ u \in Seq(Emission) /\ Len(u) = Len(s) + Len(t)
      /\ Len(s) \in Nat /\ Len(t) \in Nat
      /\ \A n \in 1..Len(u) : u[n] = IF n <= Len(s) THEN s[n] ELSE t[n - Len(s)]
  BY <1>1, ConcatProperties, LenProperties
<1> HIDE DEF u
<1>3. \A n \in 1..Len(u) : /\ n <= Len(s) => n \in 1..Len(s) /\ u[n] = s[n]
                           /\ n > Len(s) => n - Len(s) \in 1..Len(t) /\ u[n] = t[n - Len(s)]
  BY <1>2
<1>0. /\ \A n \in 1..Len(s) : s[n].to \notin Terminal /\ s[n].type # "INCIDENT_RESOLVED"
      /\ \A n \in 1..Len(t) : t[n].to \notin Terminal /\ t[n].type # "INCIDENT_RESOLVED"
      /\ \A n \in 1..Len(s) : n > 1 => Allowed(s[n - 1].to, s[n].to)
      /\ \A n \in 1..Len(t) : n > 1 => Allowed(t[n - 1].to, t[n].to)
  BY DEF Part, Legal
<1>4. ASSUME NEW n \in 1..Len(u)
      PROVE  u[n].to \notin Terminal /\ u[n].type # "INCIDENT_RESOLVED"
  <2>1. CASE n <= Len(s)
    BY <1>0, <1>3, <2>1
  <2>2. CASE n > Len(s)
    BY <1>0, <1>3, <2>2
  <2> QED
    BY <1>2, <2>1, <2>2
<1>5. /\ Len(u) = 0 => c = a
      /\ Len(u) > 0 => c = u[Len(u)].to
  BY <1>2, <1>3 DEF Part
<1>6. Len(u) > 0 => Allowed(a, u[1].to)
  <2>1. CASE Len(s) = 0
    BY <1>2, <1>3, <2>1 DEF Part, Legal
  <2>2. CASE Len(s) > 0
    BY <1>2, <1>3, <2>2 DEF Part, Legal
  <2> QED
    BY <1>2, <2>1, <2>2
<1>7. ASSUME NEW n \in 1..Len(u), n > 1
      PROVE  Allowed(u[n - 1].to, u[n].to)
  <2>0. n - 1 \in 1..Len(u)
    BY <1>2, <1>7
  <2>1. CASE n <= Len(s)
    <3>1. u[n] = s[n] /\ u[n - 1] = s[n - 1] /\ n \in 1..Len(s)
      BY <1>2, <1>3, <2>0, <2>1
    <3> QED
      BY <1>0, <1>7, <3>1
  <2>2. CASE n = Len(s) + 1
    <3>1. u[n - 1].to = b /\ u[n] = t[1] /\ Len(t) > 0
      BY <1>2, <1>3, <1>7, <2>0, <2>2 DEF Part
    <3> QED
      BY <3>1 DEF Part, Legal
  <2>3. CASE n > Len(s) + 1
    <3>1. /\ u[n] = t[n - Len(s)] /\ u[n - 1] = t[(n - Len(s)) - 1]
          /\ n - Len(s) \in 1..Len(t) /\ n - Len(s) > 1
      BY <1>2, <1>3, <1>7, <2>0, <2>3
    <3> QED
      BY <1>0, <3>1
  <2> QED
    BY <1>2, <2>1, <2>2, <2>3
<1>8. Legal(u, a)
  BY <1>6, <1>7 DEF Legal
<1>9. Part(u, a, c)
  BY <1>2, <1>4, <1>5, <1>8 DEF Part
<1> QED
  BY <1>9 DEF u

LEMMA TriplePart ==
    ASSUME NEW from, NEW a \in Emission, NEW b \in Emission, NEW c \in Emission,
           \A e \in {a, b, c} : e.to \notin Terminal /\ e.type # "INCIDENT_RESOLVED",
           Allowed(from, a.to), Allowed(a.to, b.to), Allowed(b.to, c.to)
    PROVE  /\ Part(<<a, b>>, from, b.to)
           /\ Part(<<a, b, c>>, from, c.to)
<1> DEFINE s == <<a, b>>  t == <<a, b, c>>
<1>1. s \in Seq(Emission) /\ Len(s) = 2 /\ s[1] = a /\ s[2] = b
  OBVIOUS
<1>2. t \in Seq(Emission) /\ Len(t) = 3 /\ t[1] = a /\ t[2] = b /\ t[3] = c
  OBVIOUS
<1> HIDE DEF s, t
<1>3. \A n \in 1..Len(s) : n = 1 \/ n = 2
  BY <1>1
<1>4. \A n \in 1..Len(t) : n = 1 \/ n = 2 \/ n = 3
  BY <1>2
<1>5. Legal(s, from)
  BY <1>1, <1>3 DEF Legal
<1>6. Legal(t, from)
  BY <1>2, <1>4 DEF Legal
<1>7. Part(s, from, b.to)
  BY <1>1, <1>3, <1>5 DEF Part
<1>8. Part(t, from, c.to)
  BY <1>2, <1>4, <1>6 DEF Part
<1> QED
  BY <1>7, <1>8 DEF s, t

(* Events in one state. *)
LEMMA SteadyPart ==
    ASSUME NEW s \in Seq(Emission), NEW state \in States \ Terminal,
           \A n \in 1..Len(s) : s[n].to = state /\ s[n].type # "INCIDENT_RESOLVED"
    PROVE  Part(s, state, state)
<1>1. Len(s) \in Nat
  BY LenProperties
<1>2. \A n \in 1..Len(s) : n > 1 => n - 1 \in 1..Len(s)
  BY <1>1
<1>3. Legal(s, state)
  BY <1>1, <1>2 DEF Legal, Allowed
<1> QED
  BY <1>1, <1>3 DEF Part

(* The complete history: what it is made of, and what ends it. *)
Complete(todo, e, count) ==
    /\ todo \in Seq(Emission)
    /\ Len(todo) > 0
    /\ todo[1].to = "DETECTED"
    /\ Legal(todo, "DETECTED")
    /\ \A n \in 1..Len(todo) : /\ todo[n].to \in Terminal <=> n = Len(todo)
                               /\ todo[n].to = "ESCALATED" => todo[n].type = "INCIDENT_ESCALATED"
                               /\ todo[n].type = "INCIDENT_RESOLVED" => ~Escalates(e, count)

LEMMA AssessmentPart ==
    ASSUME NEW e \in Evidence
    PROVE  /\ Part(Assessment(e), "DETECTED", "MITIGATING")
           /\ Len(Assessment(e)) > 0 /\ Assessment(e)[1].to = "DETECTED"
<1> DEFINE a == To("DETECTION_CREATED", "DETECTED")
           b == To("QUANTUM_ROUTING_REQUESTED", "ASSESSING")
           c == To("QUANTUM_ROUTING_REQUESTED", "VERIFYING")
           d == To("QUANTUM_ROUTING_REQUESTED", "MITIGATING")
           o == IF e.quantum = "success" THEN "QUANTUM_VERIFICATION_COMPLETED"
                                         ELSE "QUANTUM_VERIFICATION_FAILED"
           v == To(o, "VERIFYING")
           m == To(o, "MITIGATING")
<1>1. {a, b, c, d, v, m} \subseteq Emission
  BY DEF To, Emission, EventTypes, States
<1>2. /\ a.to = "DETECTED" /\ b.to = "ASSESSING" /\ c.to = "VERIFYING" /\ d.to = "MITIGATING"
      /\ v.to = "VERIFYING" /\ m.to = "MITIGATING"
      /\ \A x \in {a, b, c, d, v, m} : x.to \notin Terminal /\ x.type # "INCIDENT_RESOLVED"
  BY DEF To, Terminal
<1>3. Assessment(e) = <<a, b>> \o (IF e.quantum = "not_required" THEN <<d>> ELSE <<c, v, m>>)
  BY DEF Assessment
<1> HIDE DEF a, b, c, d, v, m
<1>4. /\ Allowed("DETECTED", "DETECTED") /\ Allowed("DETECTED", "ASSESSING")
      /\ Allowed("ASSESSING", "MITIGATING") /\ Allowed("ASSESSING", "VERIFYING")
      /\ Allowed("VERIFYING", "VERIFYING") /\ Allowed("VERIFYING", "MITIGATING")
  BY DEF Allowed, Permits, ValidTransitions
<1>5. Part(<<a, b>>, "DETECTED", "ASSESSING")
  BY <1>1, <1>2, <1>4, TriplePart
<1>6. Part(<<c, v, m>>, "ASSESSING", "MITIGATING")
  BY <1>1, <1>2, <1>4, TriplePart
<1>7. Part(<<d>>, "ASSESSING", "MITIGATING")
  BY <1>1, <1>2, <1>4, SinglePart DEF d, EventTypes, States, Terminal
<1>8. Part(Assessment(e), "DETECTED", "MITIGATING")
  <2>1. CASE e.quantum = "not_required"
    BY <1>3, <1>5, <1>7, <2>1, PartsJoin
  <2>2. CASE e.quantum # "not_required"
    BY <1>3, <1>5, <1>6, <2>2, PartsJoin
  <2> QED
    BY <2>1, <2>2
<1> DEFINE s == <<a, b>>
           t == IF e.quantum = "not_required" THEN <<d>> ELSE <<c, v, m>>
<1>9. s \in Seq(Emission) /\ t \in Seq(Emission) /\ Len(s) = 2 /\ s[1] = a
  BY <1>1
<1> HIDE DEF s, t
<1>10. Len(s \o t) = 2 + Len(t) /\ Len(t) \in Nat /\ (s \o t)[1] = a
  BY <1>9, ConcatProperties, LenProperties
<1>11. Assessment(e) = s \o t
  BY <1>3 DEF s, t
<1> QED
  BY <1>2, <1>8, <1>10, <1>11

LEMMA MitigationPart == Part(Mitigation, "MITIGATING", "MITIGATING")
<1> DEFINE name == <<"HYBRID_DECISION_CREATED", "RISK_ASSESSED", "DEFENSE_ACTION_SELECTED",
                     "DEFENSE_ACTION_EXECUTED">>
<1>1. \A n \in 1..4 : name[n] \in EventTypes \ {"INCIDENT_RESOLVED"}
  <2>1. /\ name[1] = "HYBRID_DECISION_CREATED" /\ name[2] = "RISK_ASSESSED"
        /\ name[3] = "DEFENSE_ACTION_SELECTED" /\ name[4] = "DEFENSE_ACTION_EXECUTED"
    OBVIOUS
  <2> HIDE DEF name
  <2>2. \A n \in 1..4 : n = 1 \/ n = 2 \/ n = 3 \/ n = 4
    OBVIOUS
  <2> QED
    BY <2>1, <2>2 DEF EventTypes
<1>2. Mitigation = [n \in 1..4 |-> To(name[n], "MITIGATING")]
  BY DEF Mitigation
<1> HIDE DEF name
<1>3. "MITIGATING" \in States \ Terminal
  BY DEF States, Terminal
<1>4. \A n \in 1..4 : /\ To(name[n], "MITIGATING") \in Emission
                      /\ To(name[n], "MITIGATING").to = "MITIGATING"
                      /\ To(name[n], "MITIGATING").type # "INCIDENT_RESOLVED"
  BY <1>1, <1>3 DEF To, Emission
<1>5. /\ Mitigation \in Seq(Emission) /\ Len(Mitigation) = 4
      /\ \A n \in 1..4 : Mitigation[n] = To(name[n], "MITIGATING")
  <2> DEFINE f == [n \in 1..4 |-> To(name[n], "MITIGATING")]
  <2>1. f \in [1..4 -> Emission]
    BY <1>4
  <2>2. f \in Seq(Emission)
    BY <2>1, IsASeq
  <2>3. Len(f) = 4
    BY <2>1, <2>2, LenProperties
  <2> QED
    BY <1>2, <2>2, <2>3
<1> QED
  BY <1>3, <1>4, <1>5, SteadyPart

LEMMA RecoveryPart ==
    ASSUME NEW e \in Evidence
    PROVE  \E state \in {"MITIGATING", "RECOVERY"} : Part(Recovery(e), "MITIGATING", state)
<1> DEFINE a == To("DEFENSE_VERIFICATION_FAILED", "RECOVERY")
           b == To("RECOVERY_STARTED", "RECOVERY")
           c == To("ROLLBACK_EXECUTED", "RECOVERY")
           o == IF e.recovery = "SUCCESS" THEN "RECOVERY_SUCCEEDED" ELSE "RECOVERY_FAILED"
           d == To(o, "RECOVERY")
           middle == IF e.rollback THEN <<c>> ELSE << >>
<1>1. {a, b, c, d} \subseteq Emission
  BY DEF To, Emission, EventTypes, States
<1>2. \A x \in {a, b, c, d} : x.to = "RECOVERY" /\ x.type # "INCIDENT_RESOLVED"
  BY DEF To
<1>3. "RECOVERY" \in States \ Terminal
  BY DEF States, Terminal
<1>4. /\ e.recovery = "NOT_ATTEMPTED" => Recovery(e) = << >>
      /\ e.recovery # "NOT_ATTEMPTED" => Recovery(e) = (<<a, b>> \o middle) \o <<d>>
  BY DEF Recovery
<1> HIDE DEF a, b, c, d
<1>5. Allowed("MITIGATING", "RECOVERY") /\ Allowed("RECOVERY", "RECOVERY")
  BY DEF Allowed, Permits, ValidTransitions
<1>6. Part(<<a, b>>, "MITIGATING", "RECOVERY")
  BY <1>1, <1>2, <1>3, <1>5, TriplePart
<1>7. Part(middle, "RECOVERY", "RECOVERY")
  <2>1. Part(<<c>>, "RECOVERY", "RECOVERY")
    BY <1>3, <1>5, SinglePart DEF c, EventTypes
  <2> QED
    BY <2>1, EmptyPart
<1>8. Part(<<d>>, "RECOVERY", "RECOVERY")
  BY <1>3, <1>5, SinglePart DEF d, EventTypes
<1> HIDE DEF middle
<1>9. Part((<<a, b>> \o middle) \o <<d>>, "MITIGATING", "RECOVERY")
  BY <1>6, <1>7, <1>8, PartsJoin
<1>10. Part(<< >>, "MITIGATING", "MITIGATING")
  BY EmptyPart
<1>11. CASE e.recovery = "NOT_ATTEMPTED"
  BY <1>4, <1>10, <1>11
<1>12. CASE e.recovery # "NOT_ATTEMPTED"
  BY <1>4, <1>9, <1>12
<1> QED
  BY <1>11, <1>12

(* Whatever the evidence, an incident is detected first, moves along the   *)
(* transition table, and ends once, escalated for a reason or resolved     *)
(* without one.                                                            *)
LEMMA LifecycleIsComplete ==
    ASSUME NEW e \in Evidence, NEW count
    PROVE  Complete(Lifecycle(e, count), e, count)
<1> DEFINE last == IF Escalates(e, count) THEN To("INCIDENT_ESCALATED", "ESCALATED")
                                          ELSE To("INCIDENT_RESOLVED", "RESOLVED")
           body == (Assessment(e) \o Mitigation) \o Recovery(e)
           s == <<last>>
           u == body \o s
<1>1. PICK state \in {"MITIGATING", "RECOVERY"} : Part(Recovery(e), "MITIGATING", state)
  BY RecoveryPart
<1>2. Part(Assessment(e) \o Mitigation, "DETECTED", "MITIGATING")
  BY AssessmentPart, MitigationPart, PartsJoin
<1>3. Part(body, "DETECTED", state)
  BY <1>1, <1>2, PartsJoin
<1>4. Len(body) > 0 /\ body[1].to = "DETECTED"
  <2>1. /\ Assessment(e) \in Seq(Emission) /\ Mitigation \in Seq(Emission)
        /\ Recovery(e) \in Seq(Emission)
    BY <1>1, AssessmentPart, MitigationPart DEF Part
  <2>2. /\ Assessment(e) \o Mitigation \in Seq(Emission)
        /\ Len(Assessment(e) \o Mitigation) > 0
        /\ (Assessment(e) \o Mitigation)[1] = Assessment(e)[1]
    BY <2>1, AssessmentPart, ConcatProperties, LenProperties
  <2>3. Len(body) > 0 /\ body[1] = Assessment(e)[1]
    BY <2>1, <2>2, ConcatProperties, LenProperties
  <2> QED
    BY <2>3, AssessmentPart
<1>5. Lifecycle(e, count) = u
  BY Zenon DEF Lifecycle
<1>6. /\ last \in Emission
      /\ last.to \in Terminal
      /\ last.to = "ESCALATED" => last.type = "INCIDENT_ESCALATED"
      /\ last.type = "INCIDENT_RESOLVED" => ~Escalates(e, count)
  BY DEF To, Emission, EventTypes, States, Terminal
<1>7. Allowed(state, last.to)
  BY DEF Allowed, Permits, ValidTransitions, To
<1> HIDE DEF last, body
<1>8. s \in Seq(Emission) /\ Len(s) = 1 /\ s[1] = last
  BY <1>6
<1> HIDE DEF s
<1>9. body \in Seq(Emission)
  BY <1>3 DEF Part
<1>10. /\ u \in Seq(Emission) /\ Len(u) = Len(body) + 1 /\ Len(body) \in Nat
       /\ \A n \in 1..Len(body) : u[n] = body[n]
       /\ u[Len(body) + 1] = last
  BY <1>8, <1>9, ConcatProperties, LenProperties
<1> HIDE DEF u
<1>11. \A n \in 1..Len(u) : n \in 1..Len(body) \/ n = Len(u)
  BY <1>10
<1>12. \A n \in 1..Len(body) : /\ body[n].to \notin Terminal /\ body[n].type # "INCIDENT_RESOLVED"
                               /\ n # Len(u)
  BY <1>3, <1>10 DEF Part
<1>13. "ESCALATED" \in Terminal
  BY DEF Terminal
<1>14. \A n \in 1..Len(u) : /\ u[n].to \in Terminal <=> n = Len(u)
                            /\ u[n].to = "ESCALATED" => u[n].type = "INCIDENT_ESCALATED"
                            /\ u[n].type = "INCIDENT_RESOLVED" => ~Escalates(e, count)
  <2> TAKE n \in 1..Len(u)
  <2>1. CASE n \in 1..Len(body)
    BY <1>10, <1>12, <1>13, <2>1
  <2>2. CASE n = Len(u)
    BY <1>6, <1>10, <2>2
  <2> QED
    BY <1>11, <2>1, <2>2
<1>15. Legal(u, "DETECTED")
  <2>1. Allowed("DETECTED", u[1].to)
    BY <1>4, <1>10 DEF Allowed
  <2>2. ASSUME NEW n \in 1..Len(u), n > 1
        PROVE  Allowed(u[n - 1].to, u[n].to)
    <3>1. CASE n \in 1..Len(body)
      <4>1. u[n - 1] = body[n - 1] /\ u[n] = body[n]
        BY <1>10, <2>2, <3>1
      <4> QED
        BY <1>3, <2>2, <3>1, <4>1 DEF Part, Legal
    <3>2. CASE n = Len(u)
      <4>1. u[n - 1] = body[Len(body)] /\ u[n] = last
        BY <1>10, <2>2, <3>2, <1>4
      <4> QED
        BY <1>3, <1>4, <1>7, <4>1 DEF Part
    <3> QED
      BY <1>11, <3>1, <3>2
  <2> QED
    BY <2>1, <2>2 DEF Legal
<1> QED
  BY <1>4, <1>5, <1>10, <1>14, <1>15 DEF Complete
-----------------------------------------------------------------------------
(* What has been detected *)

LEMMA DetectedIs ==
    ASSUME NEW s \in Seq(Event), NEW i
    PROVE  i \in Detected(s) <=> \E n \in 1..Len(s) : /\ s[n].type = "DETECTION_CREATED"
                                                      /\ s[n].incident = i
<1>1. DOMAIN s = 1..Len(s)
  BY LenProperties
<1> QED
  BY <1>1 DEF Detected

LEMMA DetectedGrows ==
    ASSUME NEW s \in Seq(Event), NEW ev \in Event
    PROVE  \A i : i \in Detected(Append(s, ev)) <=>
                    \/ i \in Detected(s)
                    \/ ev.type = "DETECTION_CREATED" /\ ev.incident = i
<1> DEFINE t == Append(s, ev)
<1>1. /\ t \in Seq(Event) /\ Len(s) \in Nat /\ Len(t) = Len(s) + 1
      /\ \A n \in 1..Len(s) : t[n] = s[n]
      /\ t[Len(s) + 1] = ev
  BY StoreGrows
<1> HIDE DEF t
<1> SUFFICES ASSUME NEW i
             PROVE  i \in Detected(t) <=>
                      \/ i \in Detected(s)
                      \/ ev.type = "DETECTION_CREATED" /\ ev.incident = i
  BY DEF t
<1> DEFINE D(r, n) == r[n].type = "DETECTION_CREATED" /\ r[n].incident = i
<1>2. /\ i \in Detected(s) <=> \E n \in 1..Len(s) : D(s, n)
      /\ i \in Detected(t) <=> \E n \in 1..Len(t) : D(t, n)
  BY <1>1, DetectedIs
<1>3. \A n \in 1..Len(t) : n \in 1..Len(s) \/ n = Len(s) + 1
  BY <1>1
<1>4. 1..Len(s) \subseteq 1..Len(t) /\ Len(s) + 1 \in 1..Len(t)
  BY <1>1
<1>5. (\A n \in 1..Len(s) : D(t, n) <=> D(s, n)) /\ (D(t, Len(s) + 1) <=> D(<<ev>>, 1))
  BY <1>1
<1>6. D(<<ev>>, 1) <=> ev.type = "DETECTION_CREATED" /\ ev.incident = i
  OBVIOUS
<1> HIDE DEF D
<1> QED
  BY <1>2, <1>3, <1>4, <1>5, <1>6

(* What has been detected was in the store, so it has a history. *)
LEMMA DetectedHasHistory ==
    ASSUME NEW s \in Seq(Event), NEW i, i \in Detected(s)
    PROVE  i \in Incidents /\ HistoryOf(i, s) # {}
<1>1. PICK n \in 1..Len(s) : s[n].incident = i
  BY DetectedIs
<1>2. s[n] \in Event /\ DOMAIN s = 1..Len(s)
  BY ElementOfSeq, LenProperties
<1> QED
  BY <1>1, <1>2 DEF Event, HistoryOf

-----------------------------------------------------------------------------
(* The inductive invariant *)

KeyOf(i) == message[i].key
OfKey(k, S) == {i \in S : KeyOf(i) = k}
Now(i) == StateOf(i, store)
Ended == {i \in Incidents : Now(i) \in Terminal}
Current == {i \in Incidents : Recording /\ worker.incident = i}

(* The incidents somebody started to record and nobody records or ended. *)
Interrupted == {i \in Incidents : Now(i) # "NONE"} \ (Ended \cup Current)

(* What the worker still has to emit for evidence e, the count-th of its key. *)
Pending(todo, state, e, count) ==
    /\ todo \in Seq(Emission)
    /\ Legal(todo, state)
    /\ \A n \in 1..Len(todo) : /\ todo[n].to \in Terminal <=> n = Len(todo)
                               /\ todo[n].to = "ESCALATED" => todo[n].type = "INCIDENT_ESCALATED"
                               /\ todo[n].type = "INCIDENT_RESOLVED" => ~Escalates(e, count)

(* Only what has arrived is waiting or recorded. *)
Addressed == /\ \A i \in Incidents : inbox[i] > 0 => Arrived(i)
             /\ \A i \in Incidents : Now(i) # "NONE" => Arrived(i)

(* The worker records an incident that is waiting, that it does not know   *)
(* to have ended, and whose stored state is the one it goes on from, unless *)
(* it is about to detect it (again).                                       *)
AtWork ==
    Recording =>
        /\ inbox[worker.incident] > 0
        /\ snapshots[worker.incident].state \notin Terminal
        /\ Pending(worker.todo, worker.state, message[worker.incident],
                   tracker[KeyOf(worker.incident)])
        /\ worker.todo = << >> => /\ worker.state \in Terminal
                                  /\ Now(worker.incident) = worker.state
        /\ worker.todo # << >> =>
              /\ Now(worker.incident) \notin Terminal
              /\ \/ Now(worker.incident) = worker.state
                 \/ worker.todo[1].to = "DETECTED"

(* A running process knows what has ended, and all it knows of it. *)
Known ==
    worker # Down =>
        \A i \in Incidents :
            snapshots[i].state \in Terminal \/ (i \in Ended /\ i \notin Current)
                => snapshots[i] = Reconstruct(i, store)

(* What the dashboard was told of has ended. *)
Told == \A u \in updates : u.state \in Terminal /\ Now(u.incident) = u.state

(* The tracker has counted every detected incident, and the one in hand. *)
CountedAll ==
    worker # Down =>
        \A k \in Keys : Cardinality(OfKey(k, Detected(store) \cup Current)) <= tracker[k]

(* It counts an incident twice only after a fault: every interrupted       *)
(* incident has a fault of its own, and so has every count that is of no   *)
(* incident in hand or ended.                                              *)
Paid == /\ Cardinality(Interrupted) <= faults
        /\ \A k \in Keys : tracker[k] <= Cardinality(OfKey(k, Ended \cup Current)) + faults

WorkerInv == /\ TypeOK
             /\ Addressed
             /\ AtWork
             /\ Known
             /\ Told
             /\ CountedAll
             /\ Paid
             /\ RecurrenceEscalates

-----------------------------------------------------------------------------
(* Consequences of the definitions *)

LEMMA CompleteIsPending ==
    ASSUME NEW todo, NEW e, NEW count, Complete(todo, e, count)
    PROVE  /\ Pending(todo, "DETECTED", e, count)
           /\ todo # << >> /\ todo[1].to = "DETECTED"
  BY DEF Complete, Pending

(* One emission less. *)
LEMMA PendingTail ==
    ASSUME NEW todo, NEW state, NEW e, NEW count,
           Pending(todo, state, e, count), todo # << >>
    PROVE  /\ Head(todo) \in Emission /\ Head(todo) = todo[1]
           /\ Tail(todo) \in Seq(Emission)
           /\ Allowed(state, Head(todo).to)
           /\ Head(todo).to \in Terminal <=> Tail(todo) = << >>
           /\ Head(todo).type = "INCIDENT_RESOLVED" => ~Escalates(e, count)
           /\ Pending(Tail(todo), Head(todo).to, e, count)
<1> DEFINE t == Tail(todo)
<1>1. /\ todo \in Seq(Emission) /\ Head(todo) \in Emission
      /\ t \in Seq(Emission) /\ Head(todo) = todo[1]
      /\ Len(todo) \in Nat /\ Len(todo) > 0 /\ Len(t) = Len(todo) - 1
      /\ \A n \in 1..Len(t) : t[n] = todo[n + 1]
  BY HeadTailProperties, LenProperties, EmptySeq DEF Pending
<1> HIDE DEF t
<1>2. t = << >> <=> Len(t) = 0
  BY <1>1, EmptySeq
<1>3. \A n \in 1..Len(t) : /\ n + 1 \in 1..Len(todo) /\ n + 1 > 1
                           /\ n = Len(t) <=> n + 1 = Len(todo)
                           /\ n > 1 => n - 1 \in 1..Len(t) /\ (n - 1) + 1 = (n + 1) - 1
  BY <1>1
<1>4. 1 \in 1..Len(todo) /\ (1 = Len(todo) <=> t = << >>)
  BY <1>1, <1>2
<1>5. Allowed(state, todo[1].to)
  BY <1>1 DEF Pending, Legal
<1>6. Legal(t, todo[1].to)
  <2>1. Len(t) > 0 => Allowed(todo[1].to, t[1].to)
    <3>1. Len(t) > 0 => 2 \in 1..Len(todo) /\ t[1] = todo[2]
      BY <1>1
    <3>2. 2 \in 1..Len(todo) => Allowed(todo[1].to, todo[2].to)
      BY DEF Pending, Legal
    <3> QED
      BY <3>1, <3>2
  <2>2. ASSUME NEW n \in 1..Len(t), n > 1
        PROVE  Allowed(t[n - 1].to, t[n].to)
    <3>1. t[n] = todo[n + 1] /\ t[n - 1] = todo[(n + 1) - 1]
      BY <1>1, <1>3, <2>2
    <3> QED
      BY <1>3, <3>1 DEF Pending, Legal
  <2> QED
    BY <2>1, <2>2 DEF Legal
<1>7. \A n \in 1..Len(t) : /\ t[n].to \in Terminal <=> n = Len(t)
                           /\ t[n].to = "ESCALATED" => t[n].type = "INCIDENT_ESCALATED"
                           /\ t[n].type = "INCIDENT_RESOLVED" => ~Escalates(e, count)
  <2> TAKE n \in 1..Len(t)
  <2>1. t[n] = todo[n + 1] /\ n + 1 \in 1..Len(todo) /\ (n = Len(t) <=> n + 1 = Len(todo))
    BY <1>1, <1>3
  <2> QED
    BY <2>1 DEF Pending
<1>8. Pending(t, todo[1].to, e, count)
  BY <1>1, <1>6, <1>7 DEF Pending
<1>9. /\ todo[1].to \in Terminal <=> t = << >>
      /\ todo[1].type = "INCIDENT_RESOLVED" => ~Escalates(e, count)
  BY <1>4 DEF Pending
<1> QED
  BY <1>1, <1>5, <1>8, <1>9 DEF t

LEMMA ArrivedEvidence ==
    ASSUME NEW e \in Evidence
    PROVE  e # NotArrived
  BY DEF Evidence, NotArrived

(* The process that records. *)
LEMMA WorkerShape ==
    ASSUME TypeOK
    PROVE  /\ Recording => /\ worker.incident \in Incidents /\ worker.state \in States
                           /\ worker.todo \in Seq(Emission)
                           /\ worker # Idle /\ worker # Down
                           /\ Current = {worker.incident}
           /\ ~Recording => /\ worker \in {Idle, Down}
                            /\ Current = {}
<1>1. \/ worker \in {Idle, Down}
      \/ worker \in [at : {"recording"}, incident : Incidents, state : States,
                     todo : Seq(Emission)]
  BY DEF TypeOK, Emission
<1>2. Idle.at = "idle" /\ Down.at = "down"
  BY DEF Idle, Down
<1>3. CASE Recording
  <2>1. /\ worker.incident \in Incidents /\ worker.state \in States
        /\ worker.todo \in Seq(Emission) /\ worker # Idle /\ worker # Down
    BY <1>1, <1>2, <1>3 DEF Recording
  <2> QED
    BY <1>3, <2>1 DEF Current
<1>4. CASE ~Recording
  BY <1>1, <1>4 DEF Recording, Current
<1> QED
  BY <1>3, <1>4

(* Sets of incidents are finite, and counting them is monotone. *)
LEMMA Counting ==
    ASSUME NEW S, S \subseteq Incidents, NEW T, T \subseteq S
    PROVE  /\ IsFiniteSet(S) /\ IsFiniteSet(T)
           /\ Cardinality(S) \in Nat /\ Cardinality(T) \in Nat
           /\ Cardinality(T) <= Cardinality(S)
           /\ Cardinality(S) <= Cardinality(Incidents) /\ Cardinality(Incidents) \in Nat
<1>0. S \in SUBSET Incidents /\ T \in SUBSET S
  OBVIOUS
<1>1. IsFiniteSet(S) /\ Cardinality(S) <= Cardinality(Incidents)
  BY <1>0, FS_Subset
<1>2. IsFiniteSet(T) /\ Cardinality(T) <= Cardinality(S)
  BY <1>0, <1>1, FS_Subset
<1> QED
  BY <1>1, <1>2, FS_CardinalityType

LEMMA CountingOne ==
    ASSUME NEW S, S \subseteq Incidents, NEW x
    PROVE  /\ Cardinality(S) \in Nat /\ Cardinality(S \cup {x}) \in Nat
           /\ Cardinality(S \cup {x}) = IF x \in S THEN Cardinality(S) ELSE Cardinality(S) + 1
<1>1. IsFiniteSet(S) /\ Cardinality(S) \in Nat
  BY Counting
<1> QED
  BY <1>1, FS_AddElement

LEMMA PrefixDetected ==
    ASSUME NEW s \in Seq(Event), NEW n \in 1..Len(s)
    PROVE  /\ Detected(SubSeq(s, 1, n)) \subseteq Detected(s)
           /\ Detected(s) \subseteq Incidents
<1> DEFINE t == SubSeq(s, 1, n)
<1>1. /\ t \in Seq(Event) /\ Len(t) = n /\ Len(s) \in Nat
      /\ \A m \in 1..n : t[m] = s[m] /\ m \in 1..Len(s)
  BY LenProperties, SubSeqProperties
<1> HIDE DEF t
<1>2. ASSUME NEW i \in Detected(t)
      PROVE  i \in Detected(s)
  <2>1. PICK m \in 1..n : t[m].type = "DETECTION_CREATED" /\ t[m].incident = i
    BY <1>1, DetectedIs
  <2>2. m \in 1..Len(s) /\ s[m].type = "DETECTION_CREATED" /\ s[m].incident = i
    BY <1>1, <2>1
  <2> QED
    BY <2>2, DetectedIs
<1>3. Detected(s) \subseteq Incidents
  BY DetectedHasHistory
<1> QED
  BY <1>2, <1>3 DEF t

(* The parts of the invariant that only read the store. *)
LEMMA StoredIsArrived ==
    ASSUME TypeOK, Addressed, AtWork
    PROVE  /\ \A i \in Detected(store) \cup Ended \cup Current : i \in Incidents /\ Arrived(i)
           /\ Detected(store) \subseteq {i \in Incidents : Now(i) # "NONE"}
           /\ \A n \in 1..Len(store) : /\ store[n] \in Event
                                       /\ Arrived(store[n].incident)
<1>1. store \in Seq(Event)
  BY DEF TypeOK
<1>2. \A i \in Detected(store) : i \in Incidents /\ Now(i) # "NONE"
  BY <1>1, DetectedHasHistory, ReconstructTyped DEF Now
<1>3. \A i \in Ended : i \in Incidents /\ Now(i) # "NONE"
  BY DEF Ended, Terminal
<1>4. \A i \in Current : i \in Incidents /\ inbox[i] > 0
  BY DEF Current, AtWork
<1>5. ASSUME NEW n \in 1..Len(store)
      PROVE  store[n] \in Event /\ Arrived(store[n].incident)
  <2>1. store[n] \in Event /\ DOMAIN store = 1..Len(store)
    BY <1>1, ElementOfSeq, LenProperties
  <2>2. store[n].incident \in Incidents
    BY <2>1 DEF Event
  <2>3. HistoryOf(store[n].incident, store) # {}
    BY <2>1 DEF HistoryOf
  <2>4. Now(store[n].incident) # "NONE"
    BY <1>1, <2>2, <2>3, ReconstructTyped DEF Now
  <2> QED
    BY <2>1, <2>2, <2>4 DEF Addressed
<1> QED
  BY <1>2, <1>3, <1>4, <1>5 DEF Addressed

-----------------------------------------------------------------------------
(* The invariant, step by step *)

LEMMA InitInv == Init => WorkerInv
<1> SUFFICES ASSUME Init PROVE WorkerInv
  OBVIOUS
<1> USE DEF Init
<1>1. store \in Seq(Event) /\ Len(store) = 0
  OBVIOUS
<1>2. TypeOK
  <2>1. /\ message \in [Incidents -> Messages \cup {NotArrived}]
        /\ sent \in [Incidents -> 0..MaxCopies]
        /\ inbox \in [Incidents -> 0..MaxCopies]
        /\ \A i \in Incidents : inbox[i] <= sent[i]
    OBVIOUS
  <2>7. torn \in BOOLEAN /\ worker \in {Idle, Down} /\ faults = 0
    BY Zenon
  <2>5. torn \in BOOLEAN /\ worker \in {Idle, Down} /\ faults \in 0..MaxFaults
    BY <2>7
  <2>6. updates \subseteq Update
    OBVIOUS
  <2>2. snapshots \in [Incidents -> Snapshot]
    BY DEF NoSnapshot, Snapshot
  <2>3. CountBound \in Nat
    BY FS_CardinalityType DEF CountBound
  <2>4. tracker \in [Keys -> 0..CountBound]
    BY <2>3
  <2> QED
    BY <1>1, <2>1, <2>2, <2>4, <2>5, <2>6 DEF TypeOK
<1>3. \A i \in Incidents : HistoryOf(i, store) = {} /\ Now(i) = "NONE"
                           /\ Reconstruct(i, store) = NoSnapshot
  <2> TAKE i \in Incidents
  <2>1. HistoryOf(i, store) = {}
    BY DEF HistoryOf
  <2>2. Reconstruct(i, store) = NoSnapshot
    BY <1>1, <2>1, ReconstructIs
  <2> QED
    BY <2>1, <2>2 DEF Now, StateOf, NoSnapshot
<1>4. "NONE" \notin Terminal
  BY DEF Terminal
<1>5. ~Recording /\ worker # Down
  BY DEF Recording, Idle, Down
<1>6. Ended = {} /\ Current = {} /\ Detected(store) = {} /\ Interrupted = {}
  <2>0. 1..Len(store) = {}
    BY <1>1
  <2>1. Detected(store) = {}
    BY <1>1, <2>0, DetectedIs
  <2> QED
    BY <1>3, <1>4, <1>5, <2>1 DEF Ended, Current, Interrupted
<1>7. Addressed
  BY <1>3 DEF Addressed
<1>8. AtWork
  BY <1>5 DEF AtWork
<1>9. Known
  BY <1>3 DEF Known, Ended
<1>10. Told
  BY DEF Told
<1>11. \A k \in Keys : /\ OfKey(k, Detected(store) \cup Current) = {}
                       /\ OfKey(k, Ended \cup Current) = {}
                       /\ tracker[k] = 0
  BY <1>6 DEF OfKey
<1>12. Cardinality({}) = 0
  BY FS_EmptySet
<1>16. \A k \in Keys : /\ Cardinality(OfKey(k, Detected(store) \cup Current)) <= tracker[k]
                       /\ tracker[k] <= Cardinality(OfKey(k, Ended \cup Current)) + faults
  <2> TAKE k \in Keys
  <2>1. faults = 0 /\ tracker[k] = 0
    BY <1>11
  <2>2. /\ Cardinality(OfKey(k, Detected(store) \cup Current)) = 0
        /\ Cardinality(OfKey(k, Ended \cup Current)) = 0
    BY <1>11, <1>12, Zenon
  <2> QED
    BY <2>1, <2>2
<1>13. CountedAll
  BY <1>16, Zenon DEF CountedAll
<1>14. Paid
  <2>1. Cardinality(Interrupted) = 0
    BY <1>6, <1>12, Zenon
  <2>2. Cardinality(Interrupted) <= faults
    BY <2>1
  <2> QED
    BY <1>16, <2>2, Zenon DEF Paid
<1>15. RecurrenceEscalates
  BY DEF RecurrenceEscalates
<1> QED
  BY <1>2, <1>7, <1>8, <1>9, <1>10, <1>13, <1>14, <1>15 DEF WorkerInv

(* A delivery leaves everything but the stream alone. *)
LEMMA DeliveryFrame ==
    ASSUME WorkerInv, TypeOK',
           \A i \in Incidents : Arrived(i) => message'[i] = message[i],
           \A i \in Incidents : inbox[i] > 0 => inbox'[i] > 0,
           \A i \in Incidents : inbox'[i] > 0 => message'[i] # NotArrived,
           UNCHANGED <<store, manager, worker, updates, faults>>
    PROVE  WorkerInv'
<1> USE DEF manager
<1>1. \A i : Now(i)' = Now(i)
  BY DEF Now
<1>2. Ended' = Ended /\ Current' = Current
  BY <1>1 DEF Ended, Current, Recording
<1>3. Interrupted' = Interrupted
  BY <1>1, <1>2 DEF Interrupted
<1>4. /\ \A i \in Detected(store) \cup Ended \cup Current : i \in Incidents /\ Arrived(i)
      /\ \A n \in 1..Len(store) : store[n] \in Event /\ Arrived(store[n].incident)
  BY StoredIsArrived DEF WorkerInv
<1>5. \A i \in Detected(store) \cup Ended \cup Current :
         i \in Incidents /\ Arrived(i) /\ KeyOf(i)' = KeyOf(i)
  BY <1>4 DEF KeyOf
<1>6. ASSUME NEW k
      PROVE  /\ OfKey(k, Detected(store) \cup Current)' = OfKey(k, Detected(store) \cup Current)
             /\ OfKey(k, Ended \cup Current)' = OfKey(k, Ended \cup Current)
  BY <1>2, <1>5 DEF OfKey
<1>7. Addressed'
  <2>1. ASSUME NEW i \in Incidents, Now(i)' # "NONE"
        PROVE  Arrived(i)'
    <3>1. Arrived(i)
      BY <1>1, <2>1 DEF WorkerInv, Addressed
    <3> QED
      BY <3>1 DEF Arrived
  <2> QED
    BY <2>1 DEF Addressed, Arrived
<1>8. AtWork'
  <2> SUFFICES ASSUME Recording' PROVE AtWork'
    BY DEF AtWork
  <2>1. Recording
    BY DEF Recording
  <2> DEFINE i == worker.incident
  <2>2. i \in Incidents /\ Current = {i}
    BY <2>1, WorkerShape DEF WorkerInv
  <2>3. KeyOf(i)' = KeyOf(i) /\ message'[i] = message[i]
    BY <1>4, <1>5, <2>2
  <2>4. inbox'[i] > 0
    BY <2>1, <2>2 DEF WorkerInv, AtWork
  <2> QED
    BY <1>1, <2>1, <2>3, <2>4 DEF WorkerInv, AtWork
<1>9. Known'
  BY <1>1, <1>2 DEF WorkerInv, Known
<1>10. Told'
  BY <1>1 DEF WorkerInv, Told
<1>11. CountedAll'
  BY <1>6 DEF WorkerInv, CountedAll
<1>12. Paid'
  BY <1>3, <1>6 DEF WorkerInv, Paid
<1>13. RecurrenceEscalates'
  <2>0. store \in Seq(Event) /\ DOMAIN store = 1..Len(store)
    BY LenProperties DEF WorkerInv, TypeOK
  <2> SUFFICES ASSUME NEW n \in 1..Len(store), store[n].type = "INCIDENT_RESOLVED"
               PROVE  Cardinality({i \in Detected(SubSeq(store, 1, n)) :
                          message'[i].key = message'[store[n].incident].key}) < Threshold
    BY <2>0 DEF RecurrenceEscalates
  <2>1. message'[store[n].incident] = message[store[n].incident]
    BY <1>4 DEF Event
  <2>2. \A i \in Detected(SubSeq(store, 1, n)) : message'[i] = message[i]
    BY <1>4, <2>0, PrefixDetected
  <2>3. {i \in Detected(SubSeq(store, 1, n)) : message'[i].key = message'[store[n].incident].key}
           = {i \in Detected(SubSeq(store, 1, n)) : message[i].key = message[store[n].incident].key}
    BY <2>1, <2>2
  <2> QED
    BY <2>0, <2>3 DEF WorkerInv, RecurrenceEscalates
<1> QED
  BY <1>7, <1>8, <1>9, <1>10, <1>11, <1>12, <1>13 DEF WorkerInv

LEMMA ArriveInv ==
    ASSUME WorkerInv, NEW i \in Incidents, Arrive(i)
    PROVE  WorkerInv'
<1>1. PICK e \in Messages : message' = [message EXCEPT ![i] = e]
  BY DEF Arrive
<1>2. message \in [Incidents -> Messages \cup {NotArrived}] /\ message[i] = NotArrived
  BY DEF WorkerInv, TypeOK, Arrive, Arrived
<1>3. e \in Evidence /\ e # NotArrived
  BY ArrivedEvidence
<1>4. /\ sent \in [Incidents -> 0..MaxCopies] /\ inbox \in [Incidents -> 0..MaxCopies]
      /\ \A j \in Incidents : inbox[j] <= sent[j]
      /\ MaxCopies \in Nat \ {0}
  BY DEF WorkerInv, TypeOK
<1>5. /\ sent' \in [Incidents -> 0..MaxCopies]
      /\ message' \in [Incidents -> Messages \cup {NotArrived}]
  BY <1>1, <1>2, <1>4 DEF Arrive
<1>6. inbox' \in [Incidents -> 0..MaxCopies] /\ \A j \in Incidents : inbox'[j] <= sent'[j]
  BY <1>4 DEF Arrive
<1>7. \A j \in Incidents : /\ Arrived(j) => message'[j] = message[j]
                           /\ inbox[j] > 0 => inbox'[j] > 0
                           /\ inbox'[j] > 0 => message'[j] # NotArrived
  BY <1>1, <1>2, <1>3, <1>4 DEF Arrive, Arrived, WorkerInv, Addressed
<1>8. TypeOK'
  BY <1>5, <1>6 DEF WorkerInv, TypeOK, Arrive, manager
<1> QED
  BY <1>7, <1>8, DeliveryFrame DEF Arrive

LEMMA RedeliverInv ==
    ASSUME WorkerInv, NEW i \in Incidents, Redeliver(i)
    PROVE  WorkerInv'
<1>1. /\ sent \in [Incidents -> 0..MaxCopies] /\ inbox \in [Incidents -> 0..MaxCopies]
      /\ \A j \in Incidents : inbox[j] <= sent[j]
      /\ MaxCopies \in Nat
  BY DEF WorkerInv, TypeOK
<1>2. sent' \in [Incidents -> 0..MaxCopies]
  BY <1>1 DEF Redeliver
<1>3. inbox' \in [Incidents -> 0..MaxCopies] /\ \A j \in Incidents : inbox'[j] <= sent'[j]
  BY <1>1 DEF Redeliver
<1>4. \A j \in Incidents : /\ Arrived(j) => message'[j] = message[j]
                           /\ inbox[j] > 0 => inbox'[j] > 0
                           /\ inbox'[j] > 0 => message'[j] # NotArrived
  BY <1>1 DEF Redeliver, Arrived, WorkerInv, Addressed
<1>5. TypeOK'
  BY <1>2, <1>3 DEF WorkerInv, TypeOK, Redeliver, manager
<1> QED
  BY <1>4, <1>5, DeliveryFrame DEF Redeliver

(* No key is counted past the bound. *)
LEMMA WithinBound ==
    ASSUME NEW S, S \subseteq Incidents, NEW k, NEW n \in Nat, NEW f \in 0..MaxFaults,
           n <= Cardinality(OfKey(k, S)) + f
    PROVE  n \in 0..CountBound
<1>1. OfKey(k, S) \in SUBSET Incidents
  BY DEF OfKey
<1>2. /\ Cardinality(OfKey(k, S)) <= Cardinality(Incidents)
      /\ Cardinality(OfKey(k, S)) \in Nat /\ Cardinality(Incidents) \in Nat
  BY <1>1, Counting
<1> QED
  BY <1>2 DEF CountBound

LEMMA BeginInv ==
    ASSUME WorkerInv, NEW i \in Incidents, Begin(i)
    PROVE  WorkerInv'
<1> DEFINE key == message[i].key
           todo == Lifecycle(message[i], tracker'[key])
<1>0. TypeOK /\ Addressed /\ AtWork /\ Known /\ CountedAll /\ Paid
  BY DEF WorkerInv
<1>1. /\ UNCHANGED <<message, sent, inbox, store, snapshots, updates, faults, torn>>
      /\ inbox[i] > 0 /\ worker = Idle
      /\ snapshots[i].state \notin Terminal
      /\ tracker' = [tracker EXCEPT ![key] = @ + 1]
      /\ worker' = [at |-> "recording", incident |-> i, state |-> "DETECTED", todo |-> todo]
  BY DEF Begin, Skips, Existing, Counted
<1>2. ~Recording /\ worker # Down /\ Current = {}
  BY <1>0, <1>1, WorkerShape DEF Recording, Idle, Down
<1>3. message[i] \in Evidence /\ key \in Keys
  <2>1. message[i] # NotArrived
    BY <1>0, <1>1 DEF Addressed, Arrived
  <2>2. message[i] \in Evidence
    BY <1>0, <2>1 DEF TypeOK
  <2> QED
    BY <2>2 DEF Evidence
<1>4. Complete(todo, message[i], tracker'[key])
  BY <1>3, LifecycleIsComplete
<1> HIDE DEF todo
<1>5. /\ worker'.at = "recording" /\ worker'.incident = i /\ worker'.state = "DETECTED"
      /\ worker'.todo = todo /\ worker' # Down
  BY <1>1 DEF Down
<1>6. Recording' /\ Current' = {i}
  BY <1>5 DEF Recording, Current
<1>7. \A j : Now(j)' = Now(j)
  BY <1>1 DEF Now
<1>8. Ended' = Ended
  BY <1>7 DEF Ended
<1>9. i \notin Ended
  <2>1. i \in Ended => snapshots[i] = Reconstruct(i, store)
    BY <1>0, <1>2 DEF Known
  <2> QED
    BY <1>1, <2>1 DEF Ended, Now, StateOf
<1>10. /\ tracker \in [Keys -> 0..CountBound] /\ faults \in 0..MaxFaults /\ CountBound \in Nat
       /\ tracker'[key] = tracker[key] + 1
       /\ tracker' \in [Keys -> Nat]
       /\ \A k \in Keys : k # key => tracker'[k] = tracker[k]
  <2>1. CountBound \in Nat
    BY FS_CardinalityType DEF CountBound
  <2>2. tracker \in [Keys -> 0..CountBound] /\ faults \in 0..MaxFaults
    BY <1>0 DEF TypeOK
  <2> QED
    BY <1>1, <1>3, <2>1, <2>2
<1>11. \A k : /\ OfKey(k, Ended \cup Current)' = OfKey(k, Ended) \cup (IF k = key THEN {i} ELSE {})
              /\ OfKey(k, Detected(store) \cup Current)' =
                    OfKey(k, Detected(store)) \cup (IF k = key THEN {i} ELSE {})
              /\ OfKey(k, Ended \cup Current) = OfKey(k, Ended)
              /\ OfKey(k, Detected(store) \cup Current) = OfKey(k, Detected(store))
  BY <1>1, <1>2, <1>6, <1>8 DEF OfKey, KeyOf
<1>12. /\ Ended \subseteq Incidents /\ Detected(store) \subseteq Incidents
       /\ i \notin OfKey(key, Ended)
  BY <1>0, <1>9, StoredIsArrived DEF Ended, OfKey
<1>13. ASSUME NEW k \in Keys
       PROVE  /\ Cardinality(OfKey(k, Detected(store) \cup Current)') <= tracker'[k]
              /\ tracker'[k] <= Cardinality(OfKey(k, Ended \cup Current)') + faults
  <2> DEFINE E == OfKey(k, Ended)  D == OfKey(k, Detected(store))
  <2>1. E \subseteq Incidents /\ D \subseteq Incidents
    BY <1>12 DEF OfKey
  <2>2. Cardinality(D) <= tracker[k] /\ tracker[k] <= Cardinality(E) + faults
    BY <1>0, <1>2, <1>11 DEF CountedAll, Paid
  <2>5. /\ OfKey(k, Ended \cup Current)' = E \cup (IF k = key THEN {i} ELSE {})
        /\ OfKey(k, Detected(store) \cup Current)' = D \cup (IF k = key THEN {i} ELSE {})
        /\ k = key => i \notin E
    BY <1>11, <1>12, Zenon
  <2> HIDE DEF E, D
  <2>6. /\ Cardinality(E) \in Nat /\ Cardinality(D) \in Nat
        /\ Cardinality(E \cup {i}) = IF i \in E THEN Cardinality(E) ELSE Cardinality(E) + 1
        /\ Cardinality(D \cup {i}) = IF i \in D THEN Cardinality(D) ELSE Cardinality(D) + 1
    BY <2>1, CountingOne
  <2>3. CASE k # key
    <3>1. OfKey(k, Ended \cup Current)' = E /\ OfKey(k, Detected(store) \cup Current)' = D
      BY <2>3, <2>5
    <3> QED
      BY <1>10, <2>2, <2>3, <3>1
  <2>4. CASE k = key
    <3>1. /\ OfKey(k, Ended \cup Current)' = E \cup {i}
          /\ OfKey(k, Detected(store) \cup Current)' = D \cup {i}
          /\ i \notin E /\ tracker'[k] = tracker[k] + 1
      BY <1>10, <2>4, <2>5
    <3>2. tracker[k] \in Nat /\ faults \in Nat
      BY <1>10
    <3>3. /\ Cardinality(D \cup {i}) <= tracker[k] + 1
          /\ tracker[k] + 1 <= Cardinality(E \cup {i}) + faults
      BY <2>2, <2>6, <3>1, <3>2
    <3> QED
      BY <3>1, <3>3, Zenon
  <2> QED
    BY <2>3, <2>4
<1>14. CountedAll'
  BY <1>13 DEF CountedAll
<1>15. Paid'
  <2>1. Interrupted \in SUBSET Incidents /\ Interrupted' \in SUBSET Interrupted
    BY <1>2, <1>6, <1>7, <1>8 DEF Interrupted
  <2>2. Cardinality(Interrupted') <= Cardinality(Interrupted)
        /\ Cardinality(Interrupted') \in Nat /\ Cardinality(Interrupted) \in Nat
    BY <2>1, Counting
  <2>3. Cardinality(Interrupted) <= faults /\ faults \in Nat
    BY <1>0, <1>10 DEF Paid
  <2>4. Cardinality(Interrupted') <= faults'
    BY <1>1, <2>2, <2>3
  <2> QED
    BY <1>1, <1>13, <2>4 DEF Paid
<1>16. TypeOK'
  <2>1. \A k \in Keys : tracker'[k] \in 0..CountBound
    <3> TAKE k \in Keys
    <3>1. OfKey(k, Ended \cup Current)' = OfKey(k, Ended \cup {i})
      BY <1>1, <1>6, <1>8 DEF OfKey, KeyOf
    <3>2. tracker'[k] <= Cardinality(OfKey(k, Ended \cup {i})) + faults
      BY <1>13, <3>1
    <3> QED
      BY <1>10, <1>12, <3>2, WithinBound
  <2>2. tracker' \in [Keys -> 0..CountBound]
    BY <1>10, <2>1
  <2>3. worker' \in [at : {"recording"}, incident : Incidents, state : States,
                     todo : Seq([type : EventTypes, to : States])]
    BY <1>1, <1>4 DEF Complete, Emission, States
  <2> QED
    BY <1>0, <1>1, <2>2, <2>3 DEF TypeOK
<1>17. Addressed'
  BY <1>0, <1>1, <1>7 DEF Addressed, Arrived
<1>18. AtWork'
  <2>1. /\ Pending(todo, "DETECTED", message[i], tracker'[key])
        /\ todo # << >> /\ todo[1].to = "DETECTED"
    BY <1>4, CompleteIsPending
  <2>2. Now(i) \notin Terminal
    BY <1>9 DEF Ended
  <2> QED
    BY <1>1, <1>5, <1>7, <2>1, <2>2 DEF AtWork, KeyOf
<1>19. Known'
  BY <1>0, <1>1, <1>2, <1>7, <1>8 DEF Known
<1>20. Told'
  BY <1>1, <1>7 DEF WorkerInv, Told
<1>21. RecurrenceEscalates'
  BY <1>1 DEF WorkerInv, RecurrenceEscalates
<1> QED
  BY <1>14, <1>15, <1>16, <1>17, <1>18, <1>19, <1>20, <1>21 DEF WorkerInv

(* What one more event changes. *)
LEMMA Appending ==
    ASSUME TypeOK, NEW ev \in Event, store' = Append(store, ev)
    PROVE  /\ store' \in Seq(Event)
           /\ \A j \in Incidents : j # ev.incident =>
                 /\ Now(j)' = Now(j)
                 /\ Reconstruct(j, store)' = Reconstruct(j, store)
           /\ Now(ev.incident)' = ev.to
           /\ ev.incident \in Incidents
           /\ \A j : j \in Detected(store)' <=>
                        \/ j \in Detected(store)
                        \/ ev.type = "DETECTION_CREATED" /\ ev.incident = j
<1>1. store \in Seq(Event)
  BY DEF TypeOK
<1>2. ev.incident \in Incidents
  BY DEF Event
<1>3. store' \in Seq(Event)
  BY <1>1, StoreGrows
<1>4. \A j \in Incidents : j # ev.incident => Reconstruct(j, store') = Reconstruct(j, store)
  BY <1>1, ReconstructOther
<1>5. StateOf(ev.incident, store') = ev.to
  BY <1>1, ReconstructOwn
<1>6. \A j : j \in Detected(store') <=>
                \/ j \in Detected(store)
                \/ ev.type = "DETECTION_CREATED" /\ ev.incident = j
  BY <1>1, DetectedGrows
<1>7. \A j \in Incidents : j # ev.incident => StateOf(j, store') = StateOf(j, store)
  BY <1>4 DEF StateOf
<1> QED
  BY <1>2, <1>3, <1>4, <1>5, <1>6, <1>7 DEF Now

LEMMA AppendingRecurrence ==
    ASSUME TypeOK, RecurrenceEscalates, UNCHANGED message,
           NEW ev \in Event, store' = Append(store, ev),
           ev.type = "INCIDENT_RESOLVED" =>
              Cardinality(OfKey(KeyOf(ev.incident), Detected(store'))) < Threshold
    PROVE  RecurrenceEscalates'
<1>1. store \in Seq(Event)
  BY DEF TypeOK
<1>2. /\ Len(store) \in Nat /\ DOMAIN store = 1..Len(store)
      /\ DOMAIN store' = 1..(Len(store) + 1) /\ Len(store') = Len(store) + 1
      /\ \A n \in 1..Len(store) : store'[n] = store[n]
      /\ store'[Len(store) + 1] = ev /\ store' \in Seq(Event)
  BY <1>1, StoreGrows
<1> DEFINE Few(m, s, n) == Cardinality({i \in Detected(SubSeq(s, 1, n)) :
                                           m[i].key = m[s[n].incident].key}) < Threshold
<1>6. \A n \in DOMAIN store : store[n].type = "INCIDENT_RESOLVED" => Few(message, store, n)
  BY Zenon DEF RecurrenceEscalates
<1>7. (\A n \in DOMAIN store' : store'[n].type = "INCIDENT_RESOLVED" => Few(message', store', n))
         => RecurrenceEscalates'
  BY Zenon DEF RecurrenceEscalates
<1> HIDE DEF Few
<1> SUFFICES ASSUME NEW n \in 1..(Len(store) + 1), store'[n].type = "INCIDENT_RESOLVED"
             PROVE  Few(message, store', n)
  <2>1. message' = message
    OBVIOUS
  <2> QED
    BY <1>2, <1>7, <2>1, Zenon
<1>3. CASE n \in 1..Len(store)
  <2>1. SubSeq(store', 1, n) = SubSeq(store, 1, n)
    <3>1. \A m \in 1..n : m \in 1..Len(store)
      BY <1>2, <1>3
    <3> DEFINE s == SubSeq(store, 1, n)  t == SubSeq(store', 1, n)
    <3>2. /\ s \in Seq(Event) /\ Len(s) = n /\ \A m \in 1..n : s[m] = store[m]
          /\ t \in Seq(Event) /\ Len(t) = n /\ \A m \in 1..n : t[m] = store'[m]
      BY <1>1, <1>2, <1>3, SubSeqProperties
    <3> HIDE DEF s, t
    <3>3. \A m \in 1..n : s[m] = t[m]
      BY <1>2, <3>1, <3>2
    <3>4. s = t
      BY <3>2, <3>3, SeqEqual
    <3> QED
      BY <3>4 DEF s, t
  <2>2. store'[n] = store[n]
    BY <1>2, <1>3
  <2>3. Few(message, store, n)
    BY <1>2, <1>3, <1>6, <2>2
  <2> QED
    BY <2>1, <2>2, <2>3, Zenon DEF Few
<1>4. CASE n = Len(store) + 1
  <2>1. SubSeq(store', 1, n) = store'
    BY <1>2, <1>4, SubSeqFull
  <2>2. store'[n] = ev
    BY <1>2, <1>4
  <2>3. {i \in Detected(SubSeq(store', 1, n)) :
            message[i].key = message[store'[n].incident].key}
           = OfKey(KeyOf(ev.incident), Detected(store'))
    BY <2>1, <2>2, Zenon DEF OfKey, KeyOf
  <2> QED
    BY <2>2, <2>3, Zenon DEF Few
<1>5. n \in 1..Len(store) \/ n = Len(store) + 1
  BY <1>2
<1> QED
  BY <1>3, <1>4, <1>5, Zenon

(* What an emission does: the state of its incident moves as permitted. *)
LEMMA EmitEffect ==
    ASSUME WorkerInv, Emit
    PROVE  \E ev \in Event :
              /\ store' = Append(store, ev)
              /\ ev.incident = worker.incident /\ Recording
              /\ ev.to = worker.todo[1].to /\ ev.type = worker.todo[1].type
              /\ worker.todo # << >>
              /\ Now(worker.incident) \notin Terminal
              /\ \/ Now(worker.incident) = worker.state
                 \/ ev.to = "DETECTED"
              /\ Allowed(worker.state, ev.to)
              /\ ev.type = "INCIDENT_RESOLVED" =>
                    tracker[KeyOf(worker.incident)] < Threshold
              /\ worker'.at = "recording" /\ worker'.incident = worker.incident
              /\ worker'.state = ev.to /\ worker'.todo = Tail(worker.todo)
              /\ worker' \in [at : {"recording"}, incident : Incidents, state : States,
                              todo : Seq(Emission)]
              /\ ev.to \in Terminal <=> Tail(worker.todo) = << >>
              /\ Pending(Tail(worker.todo), ev.to, message[worker.incident],
                         tracker[KeyOf(worker.incident)])
<1> DEFINE i == worker.incident
           next == Head(worker.todo)
           ev == Recorded(i, next.type, next.to)
<1>1. /\ Recording /\ worker.todo # << >>
      /\ store' = Append(store, ev)
      /\ worker' = [worker EXCEPT !.state = next.to, !.todo = Tail(@)]
  BY DEF Emit
<1>2. /\ Pending(worker.todo, worker.state, message[i], tracker[KeyOf(i)])
      /\ Now(i) \notin Terminal
      /\ Now(i) = worker.state \/ worker.todo[1].to = "DETECTED"
  BY <1>1 DEF WorkerInv, AtWork
<1>3. /\ next \in Emission /\ next = worker.todo[1]
      /\ Tail(worker.todo) \in Seq(Emission)
      /\ Allowed(worker.state, next.to)
      /\ next.to \in Terminal <=> Tail(worker.todo) = << >>
      /\ next.type = "INCIDENT_RESOLVED" => ~Escalates(message[i], tracker[KeyOf(i)])
      /\ Pending(Tail(worker.todo), next.to, message[i], tracker[KeyOf(i)])
  BY <1>1, <1>2, PendingTail
<1>4. /\ worker \in [at : {"recording"}, incident : Incidents, state : States,
                     todo : Seq(Emission)]
      /\ i \in Incidents
  <2>1. worker # Idle /\ worker # Down /\ i \in Incidents
    BY <1>1, WorkerShape DEF WorkerInv
  <2> QED
    BY <2>1 DEF WorkerInv, TypeOK, Emission
<1>5. next.to \in States /\ next.type \in EventTypes
  BY <1>3 DEF Emission
<1>6. ev \in Event /\ ev.incident = i /\ ev.to = next.to /\ ev.type = next.type
  BY <1>4, <1>5 DEF Recorded, Event
<1>7. /\ worker'.at = "recording" /\ worker'.incident = i
      /\ worker'.state = next.to /\ worker'.todo = Tail(worker.todo)
      /\ worker' \in [at : {"recording"}, incident : Incidents, state : States,
                      todo : Seq(Emission)]
  BY <1>1, <1>3, <1>4, <1>5
<1>8. next.type = "INCIDENT_RESOLVED" => tracker[KeyOf(i)] < Threshold
  <2>1. i \in Incidents /\ message[i] \in Evidence
    <3>1. Arrived(i)
      BY <1>1, <1>4 DEF WorkerInv, AtWork, Addressed
    <3> QED
      BY <1>4, <3>1 DEF WorkerInv, TypeOK, Arrived
  <2>2. tracker[KeyOf(i)] \in Int
    <3>1. KeyOf(i) \in Keys /\ CountBound \in Nat
      BY <2>1, FS_CardinalityType DEF KeyOf, Evidence, CountBound
    <3> QED
      BY <3>1 DEF WorkerInv, TypeOK
  <2> QED
    BY <1>3, <2>2 DEF Escalates
<1> HIDE DEF ev
<1>9. ev.to = worker.todo[1].to /\ ev.type = worker.todo[1].type
  BY <1>3, <1>6
<1> QED
  BY <1>1, <1>2, <1>3, <1>6, <1>7, <1>8, <1>9

LEMMA EmitInv ==
    ASSUME WorkerInv, Emit
    PROVE  WorkerInv'
<1>i. PICK i \in Incidents : i = worker.incident
  BY WorkerShape DEF WorkerInv, Emit
<1>0. TypeOK /\ Addressed /\ AtWork /\ Known /\ CountedAll /\ Paid /\ RecurrenceEscalates
  BY DEF WorkerInv
<1>1. /\ UNCHANGED <<message, sent, inbox, snapshots, tracker, updates, faults, torn>>
      /\ Recording
  BY DEF Emit, manager
<1>2. PICK ev \in Event :
        /\ store' = Append(store, ev)
        /\ ev.incident = i /\ worker.todo # << >>
        /\ Now(i) \notin Terminal
        /\ ev.type = "INCIDENT_RESOLVED" => tracker[KeyOf(i)] < Threshold
        /\ worker'.at = "recording" /\ worker'.incident = i
        /\ worker'.state = ev.to /\ worker'.todo = Tail(worker.todo)
        /\ worker' \in [at : {"recording"}, incident : Incidents, state : States,
                        todo : Seq(Emission)]
        /\ ev.to \in Terminal <=> Tail(worker.todo) = << >>
        /\ Pending(Tail(worker.todo), ev.to, message[i], tracker[KeyOf(i)])
  BY <1>i, EmitEffect
<1>3. /\ store' \in Seq(Event)
      /\ \A j \in Incidents : j # i => /\ Now(j)' = Now(j)
                                       /\ Reconstruct(j, store)' = Reconstruct(j, store)
      /\ Now(i)' = ev.to
      /\ i \in Incidents
      /\ \A j : j \in Detected(store)' <=>
                   \/ j \in Detected(store)
                   \/ ev.type = "DETECTION_CREATED" /\ i = j
  BY <1>0, <1>2, Appending
<1>4. Recording' /\ Current = {i} /\ Current' = {i} /\ worker # Down
  <2>1. Recording' /\ Current = {i} /\ worker # Down
    BY <1>i, <1>0, <1>1, <1>2, WorkerShape DEF Recording
  <2> QED
    BY <1>2, <1>3, <2>1 DEF Current
<1>5. ev.to \in States /\ "NONE" \notin States
  BY DEF Event, States
<1>6. i \notin Ended /\ Ended' \cup {i} = Ended \cup {i}
  BY <1>2, <1>3 DEF Ended
<1>7. Interrupted' = Interrupted
  <2>1. \A j \in Incidents : j # i => (j \in Ended' <=> j \in Ended)
    BY <1>6
  <2> QED
    BY <1>3, <1>4, <2>1 DEF Interrupted
<1>8. \A k : OfKey(k, Ended \cup Current)' = OfKey(k, Ended \cup Current)
  BY <1>1, <1>4, <1>6 DEF OfKey, KeyOf
<1>9. Detected(store)' \cup {i} = Detected(store) \cup {i}
  BY <1>3
<1>10. \A k : OfKey(k, Detected(store) \cup Current)' = OfKey(k, Detected(store) \cup Current)
  BY <1>1, <1>4, <1>9 DEF OfKey, KeyOf
<1>11. TypeOK'
  BY <1>0, <1>1, <1>2, <1>3 DEF TypeOK, Emission
<1>12. Arrived(i)
  BY <1>i, <1>0, <1>1, <1>3 DEF Addressed, AtWork
<1>13. Addressed'
  BY <1>0, <1>1, <1>3, <1>12 DEF Addressed, Arrived
<1>14. AtWork'
  <2>1. inbox[i] > 0 /\ snapshots[i].state \notin Terminal
    BY <1>i, <1>0, <1>1 DEF AtWork
  <2>2. KeyOf(i)' = KeyOf(i)
    BY <1>1 DEF KeyOf
  <2> DEFINE w == worker'
  <2>3. /\ inbox'[i] > 0 /\ snapshots'[i].state \notin Terminal
        /\ Pending(w.todo, w.state, message'[i], tracker'[KeyOf(i)'])
        /\ w.todo = << >> => w.state \in Terminal /\ Now(i)' = w.state
        /\ w.todo # << >> => Now(i)' \notin Terminal /\ Now(i)' = w.state
    BY <1>1, <1>2, <1>3, <2>1, <2>2
  <2>4. w.incident = i
    BY <1>2
  <2> QED
    BY <2>3, <2>4, Zenon DEF AtWork, Now, KeyOf
<1>15. Known'
  <2>1. ASSUME NEW j \in Incidents, j # i,
               snapshots'[j].state \in Terminal \/ (j \in Ended' /\ j \notin Current')
        PROVE  snapshots'[j] = Reconstruct(j, store)'
    <3>1. snapshots[j].state \in Terminal \/ (j \in Ended /\ j \notin Current)
      BY <1>1, <1>4, <1>6, <2>1
    <3> QED
      BY <1>0, <1>1, <1>3, <1>4, <2>1, <3>1 DEF Known
  <2>2. snapshots'[i].state \notin Terminal /\ i \in Current'
    BY <1>i, <1>0, <1>1, <1>4 DEF AtWork
  <2> QED
    BY <2>1, <2>2 DEF Known
<1>16. Told'
  <2>1. \A u \in updates : u.incident # i /\ u.incident \in Incidents
    BY <1>0, <1>2 DEF WorkerInv, Told, TypeOK, Update
  <2> QED
    BY <1>1, <1>3, <2>1 DEF WorkerInv, Told
<1>17. CountedAll'
  BY <1>0, <1>1, <1>4, <1>10 DEF CountedAll
<1>18. Paid'
  BY <1>0, <1>1, <1>7, <1>8 DEF Paid
<1>19. RecurrenceEscalates'
  <2>1. ASSUME ev.type = "INCIDENT_RESOLVED"
        PROVE  Cardinality(OfKey(KeyOf(i), Detected(store'))) < Threshold
    <3> DEFINE k == KeyOf(i)  S == OfKey(k, Detected(store'))
               D == OfKey(k, Detected(store) \cup Current)
    <3>1. Detected(store) \subseteq Incidents /\ Current \subseteq Incidents
      BY <1>0, StoredIsArrived DEF Current
    <3>2. S \subseteq D /\ D \subseteq Incidents
      BY <1>4, <1>9, <3>1 DEF OfKey
    <3>3. k \in Keys
      <4>1. message[i] \in Evidence
        BY <1>0, <1>3, <1>12 DEF TypeOK, Arrived
      <4> QED
        BY <4>1 DEF KeyOf, Evidence
    <3>4. Cardinality(D) <= tracker[k] /\ tracker[k] < Threshold /\ tracker[k] \in Int
      <4>1. CountBound \in Nat
        BY FS_CardinalityType DEF CountBound
      <4>2. tracker[k] \in Int
        BY <1>0, <3>3, <4>1 DEF TypeOK
      <4>3. Cardinality(D) <= tracker[k]
        BY <1>0, <1>4, <3>3, Zenon DEF CountedAll
      <4> QED
        BY <1>2, <2>1, <4>2, <4>3
    <3> HIDE DEF S, D, k
    <3>5. Cardinality(S) <= Cardinality(D) /\ Cardinality(S) \in Nat /\ Cardinality(D) \in Nat
      BY <3>2, Counting
    <3>6. Cardinality(S) < Threshold
      BY <3>4, <3>5
    <3> QED
      BY <3>6 DEF S, k
  <2> QED
    BY <1>0, <1>1, <1>2, <2>1, AppendingRecurrence
<1> QED
  BY <1>11, <1>13, <1>14, <1>15, <1>16, <1>17, <1>18, <1>19 DEF WorkerInv

LEMMA FinishInv ==
    ASSUME WorkerInv, Finish
    PROVE  WorkerInv'
<1>i. PICK i \in Incidents : i = worker.incident
  BY WorkerShape DEF WorkerInv, Finish
<1> DEFINE snapshot == Reconstruct(i, store)
           update == [incident |-> i, state |-> snapshot.state, skipped |-> FALSE]
<1>0. TypeOK /\ Addressed /\ AtWork /\ Known /\ Told /\ CountedAll /\ Paid /\ RecurrenceEscalates
  BY DEF WorkerInv
<1>1. /\ UNCHANGED <<message, sent, store, tracker, faults, torn>>
      /\ Recording /\ worker.todo = << >>
      /\ snapshots' = [snapshots EXCEPT ![i] = snapshot]
      /\ updates' = updates \cup {update}
      /\ inbox' = [inbox EXCEPT ![i] = @ - 1]
      /\ worker' = Idle
      /\ snapshot.state \in States
  BY <1>i DEF Finish, SnapshotAdmits
<1>2. i \in Incidents /\ Current = {i} /\ worker # Down
  BY <1>i, <1>0, <1>1, WorkerShape
<1>3. ~Recording' /\ Current' = {} /\ worker' # Down
  BY <1>1 DEF Recording, Current, Idle, Down
<1>4. /\ inbox[i] > 0 /\ Now(i) = snapshot.state /\ Now(i) \in Terminal
      /\ \A j : Now(j)' = Now(j)
  BY <1>i, <1>0, <1>1 DEF AtWork, Now, StateOf
<1>5. Ended' = Ended /\ i \in Ended
  BY <1>2, <1>4 DEF Ended
<1>6. Interrupted' = Interrupted
  BY <1>2, <1>3, <1>4, <1>5 DEF Interrupted
<1>7. \A k : /\ OfKey(k, Ended \cup Current)' = OfKey(k, Ended \cup Current)
             /\ OfKey(k, Detected(store) \cup Current)' \subseteq
                   OfKey(k, Detected(store) \cup Current)
  <2>1. Ended' \cup Current' = Ended \cup Current
    BY <1>2, <1>3, <1>5
  <2>2. Detected(store)' \cup Current' \subseteq Detected(store) \cup Current
    BY <1>1, <1>3
  <2> QED
    BY <1>1, <2>1, <2>2 DEF OfKey, KeyOf
<1>8. snapshot \in Snapshot
  BY <1>0, <1>2, ReconstructTyped DEF TypeOK
<1>9. TypeOK'
  <2>1. update \in Update
    BY <1>1, <1>2 DEF Update
  <2>2. snapshots' \in [Incidents -> Snapshot]
    BY <1>0, <1>1, <1>8 DEF TypeOK
  <2>3. inbox' \in [Incidents -> 0..MaxCopies] /\ \A j \in Incidents : inbox'[j] <= sent[j]
    BY <1>0, <1>1, <1>2, <1>4 DEF TypeOK
  <2> HIDE DEF update
  <2>4. updates' \subseteq Update
    BY <1>0, <1>1, <2>1 DEF TypeOK
  <2> QED
    BY <1>0, <1>1, <2>2, <2>3, <2>4 DEF TypeOK
<1>10. Addressed'
  <2>1. \A j \in Incidents : inbox'[j] > 0 => inbox[j] > 0
    BY <1>0, <1>1, <1>2 DEF TypeOK
  <2> QED
    BY <1>0, <1>1, <1>4, <2>1 DEF Addressed, Arrived
<1>11. AtWork'
  BY <1>3 DEF AtWork
<1>12. Known'
  <2>1. ASSUME NEW j \in Incidents, j # i,
               snapshots'[j].state \in Terminal \/ (j \in Ended' /\ j \notin Current')
        PROVE  snapshots'[j] = Reconstruct(j, store)'
    <3>1. snapshots'[j] = snapshots[j] /\ j \notin Current
      BY <1>0, <1>1, <1>2, <2>1 DEF TypeOK
    <3> QED
      BY <1>0, <1>1, <1>2, <1>5, <2>1, <3>1 DEF Known
  <2>2. snapshots'[i] = Reconstruct(i, store)'
    BY <1>0, <1>1, <1>2 DEF TypeOK
  <2> QED
    BY <2>1, <2>2 DEF Known
<1>13. Told'
  <2>1. update.state \in Terminal /\ Now(update.incident) = update.state
    BY <1>4
  <2> HIDE DEF update
  <2> QED
    BY <1>0, <1>1, <1>4, <2>1 DEF Told
<1>14. CountedAll'
  <2>1. ASSUME NEW k \in Keys
        PROVE  Cardinality(OfKey(k, Detected(store) \cup Current)') <= tracker[k]
    <3> DEFINE D == OfKey(k, Detected(store) \cup Current)
               E == OfKey(k, Detected(store) \cup Current)'
    <3>1. Detected(store) \subseteq Incidents /\ Current \subseteq Incidents
      BY <1>0, StoredIsArrived DEF Current
    <3>2. E \subseteq D /\ D \subseteq Incidents
      BY <1>7, <3>1 DEF OfKey
    <3>3. Cardinality(D) <= tracker[k] /\ tracker[k] \in Int
      <4>1. CountBound \in Nat
        BY FS_CardinalityType DEF CountBound
      <4>2. tracker[k] \in Int
        BY <1>0, <4>1 DEF TypeOK
      <4>3. Cardinality(D) <= tracker[k]
        BY <1>0, <1>2, Zenon DEF CountedAll
      <4> QED
        BY <4>2, <4>3
    <3> HIDE DEF D, E
    <3>4. Cardinality(E) <= tracker[k]
      BY <3>2, <3>3, Counting
    <3> QED
      BY <3>4 DEF E
  <2> QED
    BY <1>1, <2>1 DEF CountedAll
<1>15. Paid'
  BY <1>0, <1>1, <1>6, <1>7 DEF Paid
<1>16. RecurrenceEscalates'
  BY <1>0, <1>1 DEF RecurrenceEscalates
<1> QED
  BY <1>9, <1>10, <1>11, <1>12, <1>13, <1>14, <1>15, <1>16 DEF WorkerInv

(* What a skipped copy does: the state its incident ended in is repeated. *)
LEMMA SkipEffect ==
    ASSUME WorkerInv, NEW i \in Incidents, Skip(i)
    PROVE  /\ worker = Idle /\ inbox[i] > 0 /\ Now(i) \in Terminal
           /\ snapshots[i].state = Now(i)
           /\ \E ev \in Event :
                 /\ store' = Append(store, ev)
                 /\ ev.incident = i /\ ev.to = Now(i) /\ ev.type = "IDEMPOTENT_SKIP"
           /\ snapshots' = [snapshots EXCEPT ![i] = Reconstruct(i, store')]
           /\ updates' = updates \cup
                 {[incident |-> i, state |-> Now(i), skipped |-> TRUE]}
           /\ inbox' = [inbox EXCEPT ![i] = @ - 1]
           /\ UNCHANGED <<message, sent, tracker, worker, faults, torn>>
<1>1. /\ worker = Idle /\ inbox[i] > 0 /\ snapshots[i].state \in Terminal
      /\ store' = Append(store, Recorded(i, "IDEMPOTENT_SKIP", snapshots[i].state))
      /\ snapshots' = [snapshots EXCEPT ![i] = Reconstruct(i, store')]
      /\ updates' = updates \cup
            {[incident |-> i, state |-> snapshots[i].state, skipped |-> TRUE]}
      /\ inbox' = [inbox EXCEPT ![i] = @ - 1]
      /\ UNCHANGED <<message, sent, tracker, worker, faults, torn>>
  BY DEF Skip, Skips, Existing
<1>2. worker # Down
  BY <1>1 DEF Idle, Down
<1>3. snapshots[i] = Reconstruct(i, store)
  BY <1>1, <1>2 DEF WorkerInv, Known
<1>4. Now(i) = snapshots[i].state
  BY <1>3 DEF Now, StateOf
<1> DEFINE ev == Recorded(i, "IDEMPOTENT_SKIP", Now(i))
<1>5. ev \in Event /\ ev.incident = i /\ ev.to = Now(i) /\ ev.type = "IDEMPOTENT_SKIP"
  BY <1>1, <1>4 DEF Recorded, Event, EventTypes, States, Terminal
<1>6. store' = Append(store, ev)
  BY <1>1, <1>4
<1> HIDE DEF ev
<1> QED
  BY <1>1, <1>4, <1>5, <1>6

LEMMA SkipInv ==
    ASSUME WorkerInv, NEW i \in Incidents, Skip(i)
    PROVE  WorkerInv'
<1> DEFINE state == Now(i)
           update == [incident |-> i, state |-> state, skipped |-> TRUE]
<1>0. TypeOK /\ Addressed /\ AtWork /\ Known /\ Told /\ CountedAll /\ Paid /\ RecurrenceEscalates
  BY DEF WorkerInv
<1>1. /\ UNCHANGED <<message, sent, tracker, worker, faults, torn>>
      /\ worker = Idle /\ inbox[i] > 0 /\ Now(i) \in Terminal
      /\ snapshots' = [snapshots EXCEPT ![i] = Reconstruct(i, store')]
      /\ updates' = updates \cup {update}
      /\ inbox' = [inbox EXCEPT ![i] = @ - 1]
  BY SkipEffect
<1>2. PICK ev \in Event : /\ store' = Append(store, ev)
                          /\ ev.incident = i /\ ev.to = Now(i) /\ ev.type = "IDEMPOTENT_SKIP"
  BY SkipEffect
<1>3. /\ store' \in Seq(Event)
      /\ \A j \in Incidents : j # i => /\ Now(j)' = Now(j)
                                       /\ Reconstruct(j, store)' = Reconstruct(j, store)
      /\ Now(i)' = Now(i)
      /\ \A j : j \in Detected(store)' <=>
                   \/ j \in Detected(store)
                   \/ ev.type = "DETECTION_CREATED" /\ i = j
  BY <1>0, <1>2, Appending
<1>4. /\ ~Recording /\ ~Recording' /\ Current = {} /\ Current' = {}
      /\ worker # Down /\ worker' # Down
  BY <1>1 DEF Recording, Current, Idle, Down
<1>5. \A j \in Incidents : Now(j)' = Now(j)
  BY <1>3
<1>6. Ended' = Ended /\ i \in Ended /\ Detected(store)' = Detected(store)
  <2>1. ev.type # "DETECTION_CREATED"
    BY <1>2
  <2> QED
    BY <1>1, <1>3, <1>5, <2>1 DEF Ended
<1>7. Interrupted' = Interrupted
  BY <1>4, <1>5, <1>6 DEF Interrupted
<1>8. \A k : /\ OfKey(k, Ended \cup Current)' = OfKey(k, Ended \cup Current)
             /\ OfKey(k, Detected(store) \cup Current)' = OfKey(k, Detected(store) \cup Current)
  BY <1>1, <1>4, <1>6 DEF OfKey, KeyOf
<1>9. TypeOK'
  <2>1. update \in Update
    BY <1>1 DEF Update, States, Terminal
  <2>2. snapshots' \in [Incidents -> Snapshot]
    <3>1. Reconstruct(i, store') \in Snapshot
      BY <1>3, ReconstructTyped
    <3> QED
      BY <1>0, <1>1, <3>1 DEF TypeOK
  <2>3. inbox' \in [Incidents -> 0..MaxCopies] /\ \A j \in Incidents : inbox'[j] <= sent[j]
    BY <1>0, <1>1 DEF TypeOK
  <2> HIDE DEF update
  <2>4. updates' \subseteq Update
    BY <1>0, <1>1, <2>1 DEF TypeOK
  <2> QED
    BY <1>0, <1>1, <1>3, <2>2, <2>3, <2>4 DEF TypeOK
<1>10. Addressed'
  <2>1. \A j \in Incidents : inbox'[j] > 0 => inbox[j] > 0
    BY <1>0, <1>1 DEF TypeOK
  <2> QED
    BY <1>0, <1>1, <1>5, <2>1 DEF Addressed, Arrived
<1>11. AtWork'
  BY <1>4 DEF AtWork
<1>12. Known'
  <2>1. ASSUME NEW j \in Incidents, j # i,
               snapshots'[j].state \in Terminal \/ (j \in Ended' /\ j \notin Current')
        PROVE  snapshots'[j] = Reconstruct(j, store)'
    <3>1. snapshots'[j] = snapshots[j] /\ j \notin Current
      BY <1>0, <1>1, <1>4, <2>1 DEF TypeOK
    <3> QED
      BY <1>0, <1>3, <1>4, <1>6, <2>1, <3>1 DEF Known
  <2>2. snapshots'[i] = Reconstruct(i, store)'
    BY <1>0, <1>1 DEF TypeOK
  <2> QED
    BY <2>1, <2>2 DEF Known
<1>13. Told'
  <2>1. \A u \in updates : u.incident \in Incidents
    BY <1>0 DEF TypeOK, Update
  <2>2. update.state \in Terminal /\ update.incident = i /\ update.state = Now(i)
    BY <1>1
  <2> HIDE DEF update
  <2> QED
    BY <1>0, <1>1, <1>5, <2>1, <2>2 DEF Told
<1>14. CountedAll'
  BY <1>0, <1>1, <1>8 DEF CountedAll
<1>15. Paid'
  BY <1>0, <1>1, <1>7, <1>8 DEF Paid
<1>16. RecurrenceEscalates'
  BY <1>0, <1>1, <1>2, AppendingRecurrence
<1> QED
  BY <1>9, <1>10, <1>11, <1>12, <1>13, <1>14, <1>15, <1>16 DEF WorkerInv

(* A fault leaves at most the incident in hand interrupted, and what was   *)
(* counted for it has no other incident to its name.                       *)
LEMMA Interrupting ==
    ASSUME WorkerInv, UNCHANGED <<message, store>>, Current' = {}
    PROVE  /\ \A j : Now(j)' = Now(j)
           /\ Ended' = Ended
           /\ Cardinality(Interrupted') <= Cardinality(Interrupted) + 1
           /\ Cardinality(Interrupted') \in Nat /\ Cardinality(Interrupted) \in Nat
           /\ \A k : /\ Cardinality(OfKey(k, Ended \cup Current)) <=
                           Cardinality(OfKey(k, Ended \cup Current)') + 1
                     /\ Cardinality(OfKey(k, Ended \cup Current)) \in Nat
                     /\ Cardinality(OfKey(k, Ended \cup Current)') \in Nat
<1>1. \A j : Now(j)' = Now(j)
  BY DEF Now
<1>2. Ended' = Ended
  BY <1>1 DEF Ended
<1>3. \E x : Current \subseteq {x}
  BY WorkerShape DEF WorkerInv
<1>4. PICK x : Current \subseteq {x}
  BY <1>3
<1>5. Interrupted' \subseteq Interrupted \cup {x} /\ Interrupted \subseteq Incidents
      /\ Interrupted' \subseteq Incidents
  BY <1>1, <1>2, <1>4 DEF Interrupted
<1>6. \A k : /\ OfKey(k, Ended \cup Current)' = OfKey(k, Ended)
             /\ OfKey(k, Ended \cup Current) \subseteq OfKey(k, Ended) \cup {x}
             /\ OfKey(k, Ended) \subseteq Incidents
             /\ OfKey(k, Ended \cup Current) \subseteq Incidents
  BY <1>2, <1>4 DEF OfKey, KeyOf, Ended, Current
<1>7. ASSUME NEW S, S \subseteq Incidents, NEW T, T \subseteq Incidents, T \subseteq S \cup {x}
      PROVE  /\ Cardinality(T) <= Cardinality(S) + 1
             /\ Cardinality(T) \in Nat /\ Cardinality(S) \in Nat
  <2>1. IsFiniteSet(S) /\ Cardinality(S) \in Nat /\ Cardinality(T) \in Nat
    BY <1>7, Counting
  <2>2. IsFiniteSet(S \cup {x}) /\ Cardinality(S \cup {x}) <= Cardinality(S) + 1
        /\ Cardinality(S \cup {x}) \in Nat
    <3>1. /\ Cardinality(S \cup {x}) = IF x \in S THEN Cardinality(S) ELSE Cardinality(S) + 1
          /\ IsFiniteSet(S \cup {x})
      BY <2>1, FS_AddElement
    <3> QED
      BY <2>1, <3>1
  <2>3. T \in SUBSET (S \cup {x})
    BY <1>7
  <2>4. Cardinality(T) <= Cardinality(S \cup {x})
    BY <2>2, <2>3, FS_Subset
  <2> QED
    BY <2>1, <2>2, <2>4
<1>8. /\ Cardinality(Interrupted') <= Cardinality(Interrupted) + 1
      /\ Cardinality(Interrupted') \in Nat /\ Cardinality(Interrupted) \in Nat
  BY <1>5, <1>7
<1>9. ASSUME NEW k
      PROVE  /\ Cardinality(OfKey(k, Ended \cup Current)) <= Cardinality(OfKey(k, Ended)) + 1
             /\ Cardinality(OfKey(k, Ended \cup Current)) \in Nat
             /\ Cardinality(OfKey(k, Ended)) \in Nat
  BY <1>6, <1>7
<1> QED
  BY <1>1, <1>2, <1>6, <1>8, <1>9

LEMMA FailInv ==
    ASSUME WorkerInv, Fail
    PROVE  WorkerInv'
<1>0. TypeOK /\ Addressed /\ AtWork /\ Known /\ Told /\ CountedAll /\ Paid /\ RecurrenceEscalates
  BY DEF WorkerInv
<1>1. /\ UNCHANGED <<message, sent, inbox, store, snapshots, tracker, updates>>
      /\ faults < MaxFaults /\ faults' = faults + 1
      /\ worker' = Idle /\ torn' \in {torn, TRUE}
      /\ worker = Idle \/ (Recording /\ worker.todo # << >>)
  BY DEF Fail, MayTear, manager
<1>2. ~Recording' /\ Current' = {} /\ worker' # Down /\ worker # Down
  BY <1>1 DEF Recording, Current, Idle, Down
<1>3. /\ \A j : Now(j)' = Now(j)
      /\ Ended' = Ended
      /\ Cardinality(Interrupted') <= Cardinality(Interrupted) + 1
      /\ Cardinality(Interrupted') \in Nat /\ Cardinality(Interrupted) \in Nat
      /\ \A k : /\ Cardinality(OfKey(k, Ended \cup Current)) <=
                      Cardinality(OfKey(k, Ended \cup Current)') + 1
                /\ Cardinality(OfKey(k, Ended \cup Current)) \in Nat
                /\ Cardinality(OfKey(k, Ended \cup Current)') \in Nat
  BY <1>1, <1>2, Interrupting
<1>4. Current \cap Ended = {}
  BY <1>0, <1>1 DEF Current, Ended, AtWork, Recording, Idle
<1>5. /\ tracker \in [Keys -> 0..CountBound] /\ CountBound \in Nat
      /\ faults \in 0..MaxFaults /\ faults' \in 0..MaxFaults
  <2>1. CountBound \in Nat
    BY FS_CardinalityType DEF CountBound
  <2> QED
    BY <1>0, <1>1, <2>1 DEF TypeOK
<1>6. TypeOK'
  BY <1>0, <1>1, <1>5 DEF TypeOK
<1>7. Addressed'
  BY <1>0, <1>1, <1>3 DEF Addressed, Arrived
<1>8. AtWork'
  BY <1>2 DEF AtWork
<1>9. Known'
  BY <1>0, <1>1, <1>2, <1>3, <1>4 DEF Known
<1>10. Told'
  BY <1>0, <1>1, <1>3 DEF Told
<1>11. CountedAll'
  <2>1. ASSUME NEW k \in Keys
        PROVE  Cardinality(OfKey(k, Detected(store) \cup Current)') <= tracker[k]
    <3> DEFINE D == OfKey(k, Detected(store) \cup Current)
               E == OfKey(k, Detected(store) \cup Current)'
    <3>1. Detected(store) \subseteq Incidents /\ Current \subseteq Incidents
      BY <1>0, StoredIsArrived DEF Current
    <3>2. E \subseteq D /\ D \subseteq Incidents
      BY <1>1, <1>2, <3>1 DEF OfKey, KeyOf
    <3>3. Cardinality(D) <= tracker[k]
      BY <1>0, <1>2, Zenon DEF CountedAll
    <3>4. tracker[k] \in Int
      BY <1>5
    <3> HIDE DEF D, E
    <3>5. Cardinality(E) <= tracker[k]
      BY <3>2, <3>3, <3>4, Counting
    <3> QED
      BY <3>5 DEF E
  <2> QED
    BY <1>1, <2>1 DEF CountedAll
<1>12. Paid'
  <2>1. Cardinality(Interrupted) <= faults
    BY <1>0 DEF Paid
  <2>2. Cardinality(Interrupted') <= faults'
    BY <1>1, <1>3, <1>5, <2>1
  <2>3. ASSUME NEW k \in Keys
        PROVE  tracker'[k] <= Cardinality(OfKey(k, Ended \cup Current)') + faults'
    <3> DEFINE a == Cardinality(OfKey(k, Ended \cup Current))
               b == Cardinality(OfKey(k, Ended \cup Current)')
    <3>1. tracker[k] <= a + faults
      BY <1>0 DEF Paid
    <3>2. a <= b + 1 /\ a \in Nat /\ b \in Nat
      BY <1>3
    <3>3. tracker'[k] = tracker[k] /\ tracker[k] \in Nat
      BY <1>1, <1>5
    <3> HIDE DEF a, b
    <3>4. tracker'[k] <= b + faults'
      BY <1>1, <1>5, <3>1, <3>2, <3>3
    <3> QED
      BY <3>4 DEF b
  <2> QED
    BY <2>2, <2>3 DEF Paid
<1>13. RecurrenceEscalates'
  BY <1>0, <1>1 DEF RecurrenceEscalates
<1> QED
  BY <1>6, <1>7, <1>8, <1>9, <1>10, <1>11, <1>12, <1>13 DEF WorkerInv

LEMMA CrashInv ==
    ASSUME WorkerInv, Crash
    PROVE  WorkerInv'
<1>0. TypeOK /\ Addressed /\ Told /\ Paid /\ RecurrenceEscalates
  BY DEF WorkerInv
<1>1. /\ UNCHANGED <<message, sent, inbox, store, updates>>
      /\ faults < MaxFaults /\ faults' = faults + 1
      /\ worker' = Down /\ torn' \in {torn, TRUE}
      /\ snapshots' = [i \in Incidents |-> NoSnapshot]
      /\ tracker' = [k \in Keys |-> 0]
  BY DEF Crash, MayTear
<1>2. ~Recording' /\ Current' = {}
  BY <1>1 DEF Recording, Current, Down
<1>3. /\ \A j : Now(j)' = Now(j)
      /\ Cardinality(Interrupted') <= Cardinality(Interrupted) + 1
      /\ Cardinality(Interrupted') \in Nat /\ Cardinality(Interrupted) \in Nat
      /\ \A k : Cardinality(OfKey(k, Ended \cup Current)') \in Nat
  BY <1>1, <1>2, Interrupting
<1>4. CountBound \in Nat /\ faults \in 0..MaxFaults /\ faults' \in 0..MaxFaults
  <2>1. CountBound \in Nat
    BY FS_CardinalityType DEF CountBound
  <2> QED
    BY <1>0, <1>1, <2>1 DEF TypeOK
<1>5. TypeOK'
  <2>1. snapshots' \in [Incidents -> Snapshot]
    BY <1>1 DEF NoSnapshot, Snapshot
  <2>2. tracker' \in [Keys -> 0..CountBound]
    BY <1>1, <1>4
  <2> QED
    BY <1>0, <1>1, <1>4, <2>1, <2>2 DEF TypeOK
<1>6. Addressed'
  BY <1>0, <1>1, <1>3 DEF Addressed, Arrived
<1>7. AtWork'
  BY <1>2 DEF AtWork
<1>8. Known' /\ CountedAll'
  BY <1>1 DEF Known, CountedAll
<1>9. Told'
  BY <1>0, <1>1, <1>3 DEF Told
<1>10. Paid'
  <2>1. Cardinality(Interrupted) <= faults
    BY <1>0 DEF Paid
  <2>2. Cardinality(Interrupted') <= faults'
    BY <1>1, <1>3, <1>4, <2>1
  <2>3. ASSUME NEW k \in Keys
        PROVE  tracker'[k] <= Cardinality(OfKey(k, Ended \cup Current)') + faults'
    <3> DEFINE b == Cardinality(OfKey(k, Ended \cup Current)')
    <3>1. b \in Nat /\ tracker'[k] = 0
      BY <1>1, <1>3
    <3> HIDE DEF b
    <3>2. faults' \in Nat
      BY <1>4
    <3>3. tracker'[k] <= b + faults'
      BY <1>1, <1>4, <3>1, <3>2
    <3> QED
      BY <3>3 DEF b
  <2> QED
    BY <2>2, <2>3 DEF Paid
<1>11. RecurrenceEscalates'
  BY <1>0, <1>1 DEF RecurrenceEscalates
<1> QED
  BY <1>5, <1>6, <1>7, <1>8, <1>9, <1>10, <1>11 DEF WorkerInv

LEMMA RestartInv ==
    ASSUME WorkerInv, Restart
    PROVE  WorkerInv'
<1>0. TypeOK /\ Addressed /\ AtWork /\ Told /\ Paid /\ RecurrenceEscalates
  BY DEF WorkerInv
<1>1. /\ UNCHANGED <<message, sent, inbox, store, updates, faults, torn>>
      /\ worker = Down /\ worker' = Idle
      /\ snapshots' = [i \in Incidents |-> Reconstruct(i, store)]
      /\ tracker' = [k \in Keys |-> CountDetected(k)]
  BY DEF Restart
<1>2. ~Recording /\ Current = {} /\ ~Recording' /\ Current' = {}
  BY <1>1 DEF Recording, Current, Idle, Down
<1>3. /\ \A j : Now(j)' = Now(j)
      /\ Ended' = Ended
  BY <1>1 DEF Now, Ended
<1>4. Interrupted' = Interrupted
  BY <1>2, <1>3 DEF Interrupted
<1>5. \A k \in Keys : /\ tracker'[k] = Cardinality(OfKey(k, Detected(store)))
                      /\ OfKey(k, Detected(store) \cup Current)' = OfKey(k, Detected(store))
                      /\ OfKey(k, Ended \cup Current)' = OfKey(k, Ended)
  BY <1>1, <1>2, <1>3 DEF CountDetected, OfKey, KeyOf
<1>6. /\ Detected(store) \subseteq Ended \cup Interrupted
      /\ Ended \subseteq Incidents /\ Interrupted \subseteq Incidents
      /\ Detected(store) \subseteq Incidents
  BY <1>0, <1>2, StoredIsArrived DEF Ended, Interrupted
<1>7. Cardinality(Interrupted) <= faults /\ faults \in 0..MaxFaults
  BY <1>0 DEF Paid, TypeOK
<1>8. ASSUME NEW k \in Keys
      PROVE  /\ tracker'[k] \in Nat
             /\ tracker'[k] <= Cardinality(OfKey(k, Ended)) + faults
  <2> DEFINE D == OfKey(k, Detected(store))  E == OfKey(k, Ended)  I == Interrupted
  <2>1. /\ D \subseteq E \cup I
        /\ D \subseteq Incidents /\ E \subseteq Incidents /\ I \subseteq Incidents
    BY <1>6 DEF OfKey
  <2>2. tracker'[k] = Cardinality(D)
    BY <1>5
  <2>3. Cardinality(I) <= faults
    BY <1>7
  <2> HIDE DEF D, E, I
  <2>4. /\ IsFiniteSet(E) /\ IsFiniteSet(I)
        /\ Cardinality(D) \in Nat /\ Cardinality(E) \in Nat /\ Cardinality(I) \in Nat
    BY <2>1, Counting
  <2>5. IsFiniteSet(E \cap I) /\ Cardinality(E \cap I) \in Nat
    <3>1. E \cap I \in SUBSET E
      OBVIOUS
    <3> QED
      BY <2>4, <3>1, FS_Subset, FS_CardinalityType
  <2>6. /\ IsFiniteSet(E \cup I)
        /\ Cardinality(E \cup I) = Cardinality(E) + Cardinality(I) - Cardinality(E \cap I)
    BY <2>4, FS_Union
  <2>7. Cardinality(D) <= Cardinality(E \cup I)
    <3>1. D \in SUBSET (E \cup I)
      BY <2>1
    <3> QED
      BY <2>6, <3>1, FS_Subset
  <2>8. Cardinality(D) <= Cardinality(E) + faults
    BY <1>7, <2>3, <2>4, <2>5, <2>6, <2>7
  <2> QED
    BY <2>2, <2>4, <2>8 DEF E
<1>9. TypeOK'
  <2>1. snapshots' \in [Incidents -> Snapshot]
    <3>1. \A i \in Incidents : Reconstruct(i, store) \in Snapshot
      BY <1>0, ReconstructTyped DEF TypeOK
    <3> QED
      BY <1>1, <3>1
  <2>2. \A k \in Keys : tracker'[k] \in 0..CountBound
    BY <1>6, <1>7, <1>8, WithinBound
  <2>3. tracker' \in [Keys -> 0..CountBound]
    BY <1>1, <2>2
  <2> QED
    BY <1>0, <1>1, <2>1, <2>3 DEF TypeOK
<1>10. Addressed'
  BY <1>0, <1>1, <1>3 DEF Addressed, Arrived
<1>11. AtWork'
  BY <1>2 DEF AtWork
<1>12. Known'
  BY <1>1 DEF Known
<1>13. Told'
  BY <1>0, <1>1, <1>3 DEF Told
<1>14. CountedAll'
  <2>1. ASSUME NEW k \in Keys
        PROVE  Cardinality(OfKey(k, Detected(store) \cup Current)') <= tracker'[k]
    <3> DEFINE D == OfKey(k, Detected(store))
    <3>1. tracker'[k] = Cardinality(D) /\ OfKey(k, Detected(store) \cup Current)' = D
      BY <1>5
    <3>2. tracker'[k] \in Nat
      BY <1>8
    <3> HIDE DEF D
    <3> QED
      BY <3>1, <3>2
  <2> QED
    BY <2>1 DEF CountedAll
<1>15. Paid'
  BY <1>0, <1>1, <1>4, <1>5, <1>8 DEF Paid
<1>16. RecurrenceEscalates'
  BY <1>0, <1>1 DEF RecurrenceEscalates
<1> QED
  BY <1>9, <1>10, <1>11, <1>12, <1>13, <1>14, <1>15, <1>16 DEF WorkerInv

LEMMA StutterInv ==
    ASSUME WorkerInv, UNCHANGED vars
    PROVE  WorkerInv'
  BY DEF vars, manager, WorkerInv, TypeOK, Addressed, Arrived, AtWork, Known, Told, CountedAll,
         Paid, RecurrenceEscalates, Now, Ended, Current, Interrupted, OfKey, KeyOf, Recording

LEMMA NextInv ==
    ASSUME WorkerInv, [Next]_vars
    PROVE  WorkerInv'
<1>1. CASE Emit
  BY <1>1, EmitInv
<1>2. CASE Finish
  BY <1>2, FinishInv
<1>3. CASE Restart
  BY <1>3, RestartInv
<1>4. ASSUME NEW i \in Incidents, Begin(i) \/ Skip(i)
      PROVE  WorkerInv'
  BY <1>4, BeginInv, SkipInv
<1>5. ASSUME NEW i \in Incidents, Arrive(i) \/ Redeliver(i)
      PROVE  WorkerInv'
  BY <1>5, ArriveInv, RedeliverInv
<1>6. CASE Fail
  BY <1>6, FailInv
<1>7. CASE Crash
  BY <1>7, CrashInv
<1>8. CASE UNCHANGED vars
  BY <1>8, StutterInv
<1> QED
  BY <1>1, <1>2, <1>3, <1>4, <1>5, <1>6, <1>7, <1>8 DEF Next, Step

-----------------------------------------------------------------------------
(* What holds of every behaviour *)

LEMMA Invariance == Spec => []WorkerInv
<1>1. Init => WorkerInv
  BY InitInv
<1>2. WorkerInv /\ [Next]_vars => WorkerInv'
  BY NextInv
<1> QED
  BY <1>1, <1>2, PTL DEF Spec, Safety

(* The worker's state is of its type; in particular no correlation key is  *)
(* counted more often than once per incident and once per fault.           *)
THEOREM TypeCorrect == Spec => []TypeOK
<1>1. WorkerInv => TypeOK
  BY DEF WorkerInv
<1> QED
  BY <1>1, Invariance, PTL

(* What the running process holds of a finished incident is what a         *)
(* restarted one would rebuild from the file.                              *)
THEOREM MemoryIsReplay == Spec => []SnapshotsMatchStore
<1>1. WorkerInv => SnapshotsMatchStore
  BY DEF WorkerInv, Known, SnapshotsMatchStore
<1> QED
  BY <1>1, Invariance, PTL

(* Every update, the ones for skipped duplicates included, tells the state *)
(* its incident ended in.                                                  *)
THEOREM UpdatesAreFinal == Spec => []UpdatesTellTheOutcome
<1>1. WorkerInv => UpdatesTellTheOutcome
  BY DEF WorkerInv, Told, UpdatesTellTheOutcome, Now
<1> QED
  BY <1>1, Invariance, PTL

(* No crash makes the worker forget that a key has come back too often.    *)
THEOREM RecurrenceIsRemembered == Spec => []RecurrenceEscalates
<1>1. WorkerInv => RecurrenceEscalates
  BY DEF WorkerInv
<1> QED
  BY <1>1, Invariance, PTL

(* One step moves the state an incident's history replays to as the        *)
(* transition table permits, or starts an unfinished incident over.        *)
LEMMA StepMovesLegally ==
    ASSUME WorkerInv, [Next]_vars, NEW i \in Incidents, Now(i)' # Now(i)
    PROVE  \/ Now(i) = "NONE" /\ Now(i)' = "DETECTED"
           \/ Now(i) \notin Terminal /\ Now(i)' = "DETECTED"
           \/ Now(i) \in States /\ Now(i)' \in ValidTransitions[Now(i)]
<1>1. CASE Emit
  <2>1. PICK ev \in Event :
          /\ store' = Append(store, ev)
          /\ ev.incident = worker.incident
          /\ Now(worker.incident) \notin Terminal
          /\ \/ Now(worker.incident) = worker.state
             \/ ev.to = "DETECTED"
          /\ Allowed(worker.state, ev.to)
          /\ Recording
    BY <1>1, EmitEffect
  <2>2. /\ \A j \in Incidents : j # ev.incident => Now(j)' = Now(j)
        /\ Now(ev.incident)' = ev.to
    BY <2>1, Appending DEF WorkerInv
  <2>3. ev.incident = i
    BY <2>2
  <2>4. Now(i)' = ev.to /\ Now(i) \notin Terminal
    BY <2>1, <2>2, <2>3
  <2>5. worker.state \in States
    BY <2>1, WorkerShape DEF WorkerInv
  <2>6. CASE ev.to = "DETECTED"
    BY <2>4, <2>6
  <2>7. CASE Now(i) = worker.state
    BY <2>1, <2>4, <2>5, <2>7 DEF Allowed, Permits
  <2> QED
    BY <2>1, <2>3, <2>6, <2>7
<1>2. ASSUME NEW k \in Incidents, Skip(k)
      PROVE  FALSE
  <2>1. PICK ev \in Event : /\ store' = Append(store, ev)
                            /\ ev.incident = k /\ ev.to = Now(k)
    BY <1>2, SkipEffect
  <2>2. /\ \A j \in Incidents : j # ev.incident => Now(j)' = Now(j)
        /\ Now(ev.incident)' = ev.to
    BY <2>1, Appending DEF WorkerInv
  <2>3. Now(k)' = Now(k)
    BY <2>1, <2>2
  <2>4. CASE i = k
    BY <2>3, <2>4
  <2>5. CASE i # k
    BY <2>1, <2>2, <2>5
  <2> QED
    BY <2>4, <2>5
<1>3. ASSUME UNCHANGED store
      PROVE  FALSE
  BY <1>3 DEF Now
<1>4. Emit \/ (\E k \in Incidents : Skip(k)) \/ UNCHANGED store
  BY DEF Next, Step, Begin, Finish, Restart, Arrive, Redeliver, Fail, Crash, vars
<1> QED
  BY <1>1, <1>2, <1>3, <1>4

(* Whatever crashes, failed appends and redeliveries do, the state the     *)
(* file replays to moves along the transition table, and a terminal state  *)
(* is never left.                                                          *)
THEOREM HistoryMovesLegally == Spec => ReplayedStateMovesLegally
<1> DEFINE Moves(i) == LET was == StateOf(i, store)  is == StateOf(i, store)'
                       IN  was # is => \/ was = "NONE" /\ is = "DETECTED"
                                       \/ was \notin Terminal /\ is = "DETECTED"
                                       \/ was \in States /\ is \in ValidTransitions[was]
<1>1. WorkerInv /\ [Next]_vars => [\A i \in Incidents : Moves(i)]_vars
  <2> SUFFICES ASSUME WorkerInv, [Next]_vars, NEW i \in Incidents
               PROVE  Moves(i)
    BY Zenon
  <2>1. /\ Now(i) = StateOf(i, store)
        /\ Now(i)' = StateOf(i, store)'
    BY DEF Now
  <2> QED
    BY <2>1, StepMovesLegally, Zenon
<1> QED
  BY <1>1, Invariance, PTL DEF Spec, Safety, ReplayedStateMovesLegally

-----------------------------------------------------------------------------
(* Nothing the worker emits is refused *)

(* The guards of Emit and Finish: validate_transition, and the validation  *)
(* of the snapshot.                                                        *)
Refused ==
    /\ Recording
    /\ \/ /\ worker.todo # << >>
          /\ Head(worker.todo).to # worker.state
          /\ ~Permits(worker.state, Head(worker.todo).to)
       \/ /\ worker.todo = << >>
          /\ ~SnapshotAdmits(Reconstruct(worker.incident, store))

(* An escalated incident has the event that explains it. *)
Explained ==
    \A i \in Incidents : Now(i) = "ESCALATED" =>
        \E n \in HistoryOf(i, store) : store[n].type = "INCIDENT_ESCALATED"

LEMMA AppendExplained ==
    ASSUME TypeOK, Explained, NEW ev \in Event, store' = Append(store, ev),
           ev.to = "ESCALATED" =>
              ev.type = "INCIDENT_ESCALATED" \/ Now(ev.incident) = "ESCALATED"
    PROVE  Explained'
<1>1. /\ \A j \in Incidents : j # ev.incident => Now(j)' = Now(j)
      /\ Now(ev.incident)' = ev.to
  BY Appending
<1>2. store \in Seq(Event)
  BY DEF TypeOK
<1>3. /\ \A n \in 1..Len(store) : store'[n] = store[n]
      /\ store'[Len(store) + 1] = ev
  BY <1>2, StoreGrows
<1> SUFFICES ASSUME NEW i \in Incidents, Now(i)' = "ESCALATED"
             PROVE  \E n \in HistoryOf(i, store') : store'[n].type = "INCIDENT_ESCALATED"
  BY DEF Explained
<1>4. HistoryOf(i, store') =
         HistoryOf(i, store) \cup (IF ev.incident = i THEN {Len(store) + 1} ELSE {})
  BY <1>2, HistoryGrows
<1>5. HistoryOf(i, store) \subseteq 1..Len(store)
  BY <1>2, HistoryIsFinite
<1>6. CASE ev.incident = i /\ ev.type = "INCIDENT_ESCALATED"
  BY <1>3, <1>4, <1>6
<1>7. CASE Now(i) = "ESCALATED"
  <2>1. PICK n \in HistoryOf(i, store) : store[n].type = "INCIDENT_ESCALATED"
    BY <1>7 DEF Explained
  <2>2. n \in HistoryOf(i, store') /\ store'[n] = store[n]
    BY <1>3, <1>4, <1>5
  <2> QED
    BY <2>1, <2>2
<1> QED
  BY <1>1, <1>6, <1>7

LEMMA ExplainedNext ==
    ASSUME WorkerInv, Explained, [Next]_vars
    PROVE  Explained'
<1>1. CASE Emit
  <2>1. PICK ev \in Event :
          /\ store' = Append(store, ev)
          /\ ev.to = worker.todo[1].to /\ ev.type = worker.todo[1].type
          /\ worker.todo # << >> /\ Recording
    BY <1>1, EmitEffect
  <2>2. Pending(worker.todo, worker.state, message[worker.incident],
                tracker[KeyOf(worker.incident)])
    BY <2>1 DEF WorkerInv, AtWork
  <2>3. 1 \in 1..Len(worker.todo)
    BY <2>1, <2>2, EmptySeq, LenProperties DEF Pending
  <2>4. ev.to = "ESCALATED" => ev.type = "INCIDENT_ESCALATED"
    BY <2>1, <2>2, <2>3 DEF Pending
  <2> QED
    BY <2>1, <2>4, AppendExplained DEF WorkerInv
<1>2. ASSUME NEW k \in Incidents, Skip(k)
      PROVE  Explained'
  <2>1. PICK ev \in Event : /\ store' = Append(store, ev)
                            /\ ev.incident = k /\ ev.to = Now(k)
    BY <1>2, SkipEffect
  <2> QED
    BY <2>1, AppendExplained DEF WorkerInv
<1>3. CASE UNCHANGED store
  BY <1>3 DEF Explained, Now
<1>4. Emit \/ (\E k \in Incidents : Skip(k)) \/ UNCHANGED store
  BY DEF Next, Step, Begin, Finish, Restart, Arrive, Redeliver, Fail, Crash, vars
<1> QED
  BY <1>1, <1>2, <1>3, <1>4

LEMMA NotRefused ==
    ASSUME WorkerInv, Explained
    PROVE  ~Refused
<1> SUFFICES ASSUME Recording
             PROVE  /\ worker.todo # << >> =>
                          Allowed(worker.state, Head(worker.todo).to)
                    /\ worker.todo = << >> =>
                          SnapshotAdmits(Reconstruct(worker.incident, store))
  BY DEF Refused, Allowed
<1>i. PICK i \in Incidents : i = worker.incident
  BY WorkerShape DEF WorkerInv
<1>1. ASSUME worker.todo # << >>
      PROVE  Allowed(worker.state, Head(worker.todo).to)
  BY <1>1, PendingTail DEF WorkerInv, AtWork
<1>2. ASSUME worker.todo = << >>
      PROVE  SnapshotAdmits(Reconstruct(i, store))
  <2> DEFINE H == HistoryOf(i, store)
             E == {n \in H : store[n].type = "INCIDENT_ESCALATED"}
  <2>1. Now(i) \in Terminal
    BY <1>i, <1>2 DEF WorkerInv, AtWork
  <2>2. store \in Seq(Event)
    BY DEF WorkerInv, TypeOK
  <2>3. H # {}
    BY <2>1, <2>2, ReconstructTyped DEF Now, Terminal
  <2>4. PICK last \in H : \A m \in H : m <= last
    BY <2>2, <2>3, HistoryHasLast
  <2>5. Reconstruct(i, store) = [state |-> store[last].to, events |-> Cardinality(H),
                                 escalations |-> Cardinality(E)]
    BY <2>2, <2>4, ReconstructIs
  <2>6. Now(i) = "ESCALATED" => E # {}
    BY DEF Explained
  <2>7. IsFiniteSet(E)
    <3>1. IsFiniteSet(H) /\ E \in SUBSET H
      BY <2>2, HistoryIsFinite
    <3> QED
      BY <3>1, FS_Subset
  <2> HIDE DEF H, E
  <2>8. Now(i) = "ESCALATED" => Cardinality(E) > 0
    <3>1. Cardinality(E) \in Nat /\ (Cardinality(E) = 0 <=> E = {})
      BY <2>7, FS_CardinalityType, FS_EmptySet
    <3> QED
      BY <2>6, <3>1
  <2>9. /\ Reconstruct(i, store).state = Now(i)
        /\ Reconstruct(i, store).escalations = Cardinality(E)
    BY <2>5 DEF Now, StateOf
  <2> QED
    BY <2>1, <2>8, <2>9 DEF SnapshotAdmits, States, Terminal
<1> QED
  BY <1>i, <1>1, <1>2

(* For any evidence, any count and any partial history before it, what     *)
(* record_full_lifecycle emits passes validate_transition, and the         *)
(* snapshot rebuilt from it passes its validation: neither ever raises.    *)
THEOREM NothingIsRefused == Spec => []~Refused
<1>1. Init => Explained
  <2> SUFFICES ASSUME Init, NEW i \in Incidents
               PROVE  Now(i) # "ESCALATED"
    BY DEF Explained
  <2>1. store \in Seq(Event) /\ HistoryOf(i, store) = {}
    BY DEF Init, HistoryOf
  <2>2. Now(i) = "NONE"
    BY <2>1, ReconstructTyped DEF Now
  <2> QED
    BY <2>2
<1>2. WorkerInv /\ Explained /\ [Next]_vars => Explained'
  BY ExplainedNext
<1>3. WorkerInv /\ Explained => ~Refused
  BY NotRefused
<1> QED
  BY <1>1, <1>2, <1>3, Invariance, PTL DEF Spec, Safety
=============================================================================
