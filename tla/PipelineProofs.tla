--------------------------- MODULE PipelineProofs ---------------------------
(***************************************************************************)
(* Proofs about the pipeline for every number of stages, sessions, turns   *)
(* and faults: what the feedback listener returns is true, the pipeline as *)
(* a whole keeps what AtLeastOnce promises, and its variables keep their   *)
(* types.                                                                  *)
(***************************************************************************)
EXTENDS Pipeline, FiniteSetTheorems, TLAPS

(* The part of TypeOK the arguments need; the counters' bounds are not     *)
(* among it.                                                               *)
Shape == /\ run \in [Sessions -> 0..Turns]
         /\ accepted = [s \in Stages |-> accepted[s]]
         /\ produced = [s \in Stages |-> produced[s]]
         /\ completed = [s \in Stages |-> completed[s]]
         /\ givenUp = [s \in Stages |-> givenUp[s]]
         /\ terminal \in [Incidents -> States]
         /\ updates \in Seq(Update)

(* Every message on any stream belongs to an incident the gateway accepted. *)
Traced == \A s \in Stages : \A m \in accepted[s] :
             m.incident \in Incidents /\ m.incident \in With(1, accepted)

Announced == {updates[n].incident : n \in DOMAIN updates}

(* A result that the incident stage published is on the updates stream, and *)
(* what the stage completed it had published before.                       *)
Accounted == /\ \A m \in produced[Last] : m.incident \in Announced
             /\ \A s \in Stages : /\ givenUp[s] \subseteq accepted[s]
                                  /\ completed[s] \subseteq produced[s]
                                  /\ produced[s] \subseteq accepted[s]

(* Each update says how its incident ended. *)
TrueUpdate(u, ends) == /\ u.state = ends[u.incident]
                       /\ u.escalated = "yes" => ends[u.incident] = "ESCALATED"
                       /\ u.escalated = "no" => ends[u.incident] = "RESOLVED"
UpdatesAreTrue == \A n \in DOMAIN updates : TrueUpdate(updates[n], terminal)

(* An escalation was told of, unless it was interrupted before. *)
Told(i) == \E n \in DOMAIN updates : updates[n].incident = i /\ updates[n].escalated = "yes"
EscalationsAreTold ==
    \A i \in Incidents : terminal[i] = "ESCALATED" => i \in interrupted \/ Told(i)

(* What has ended has done so with a message the defense stage published,  *)
(* in the state this message called for.                                   *)
Endings == /\ settled \subseteq accepted[Last]
           /\ \A i \in Incidents : terminal[i] # "NONE" => \E m \in settled : m.incident = i
           /\ \A m \in settled : m.severe => terminal[m.incident] = "ESCALATED"

ListenerInv == Shape /\ Traced /\ UpdatesAreTrue /\ EscalationsAreTold /\ Endings

LEMMA StageNumbers == /\ Last \in Nat /\ 1 \in Stages /\ Last \in Stages /\ Last # 1
                      /\ \A s \in Stages : s # Last => s + 1 \in Stages /\ s + 1 # 1
BY PipelineAssumption DEF Stages

LEMMA ListenerInit == Init => ListenerInv
<1> SUFFICES ASSUME Init PROVE ListenerInv
  OBVIOUS
<1>1. Shape
  BY PipelineAssumption DEF Init, Shape, States
<1>2. Traced
  BY DEF Init, Traced
<1>3. updates = << >> /\ \A i \in Incidents : terminal[i] = "NONE"
  BY DEF Init
<1> QED
  BY <1>1, <1>2, <1>3 DEF ListenerInv, UpdatesAreTrue, EscalationsAreTold, Endings, Init

(* The accepted messages after one has been added to a stream. *)
LEMMA StreamGrows ==
    ASSUME NEW s \in Stages, NEW m, Traced, Shape,
           m.incident \in Incidents,
           s = 1 \/ m.incident \in With(1, accepted),
           accepted' = [accepted EXCEPT ![s] = @ \cup {m}]
    PROVE  /\ Traced'
           /\ accepted' = [t \in Stages |-> accepted'[t]]
           /\ \A t \in Stages : accepted[t] \subseteq accepted'[t]
           /\ s = 1 => With(1, accepted)' = With(1, accepted) \cup {m.incident}
           /\ s # 1 => With(1, accepted)' = With(1, accepted)
<1>1. /\ accepted'[s] = accepted[s] \cup {m}
      /\ \A t \in Stages : t # s => accepted'[t] = accepted[t]
      /\ accepted' = [t \in Stages |-> accepted'[t]]
  BY DEF Shape
<1>2. /\ s = 1 => With(1, accepted)' = With(1, accepted) \cup {m.incident}
      /\ s # 1 => With(1, accepted)' = With(1, accepted)
  BY <1>1, StageNumbers DEF With
<1>3. ASSUME NEW t \in Stages, NEW n \in accepted'[t]
      PROVE  n.incident \in Incidents /\ n.incident \in With(1, accepted)'
  <2>1. CASE n \in accepted[t]
    BY <1>2, <2>1 DEF Traced
  <2>2. CASE n \notin accepted[t]
    BY <1>1, <1>2, <1>3, <2>2
  <2> QED
    BY <2>1, <2>2
<1> QED
  BY <1>1, <1>2, <1>3 DEF Traced

LEMMA TurnGrows ==
    ASSUME NEW k \in Sessions, Shape, More(k)
    PROVE  /\ <<k, run[k] + 1>> \in Incidents
           /\ Fresh(1, <<k, run[k] + 1>>, FALSE).incident = <<k, run[k] + 1>>
<1>1. run[k] + 1 \in 1..Turns
  BY PipelineAssumption DEF Shape, More
<1> QED
  BY <1>1 DEF Incidents, Fresh

(* An incident's history ends in one of two states. *)
LEMMA OutcomeIsFinal ==
    ASSUME NEW m, NEW count
    PROVE  Outcome(m, count) \in {"ESCALATED", "RESOLVED"}
BY DEF Outcome

(* Publishing an update for an incident that has ended as it says. *)
LEMMA UpdatesGrow ==
    ASSUME NEW u \in Update, Shape, UpdatesAreTrue, Published(u),
           terminal' \in [Incidents -> States],
           TrueUpdate(u, terminal'),
           \A i \in Incidents : terminal[i] # "NONE" => terminal'[i] = terminal[i]
    PROVE  /\ updates' \in Seq(Update)
           /\ UpdatesAreTrue'
           /\ Announced' = Announced \cup {u.incident}
           /\ \A i \in Incidents : Told(i) => Told(i)'
           /\ u.escalated = "yes" => Told(u.incident)'
<1>1. /\ updates' = Append(updates, u)
      /\ updates' \in Seq(Update)
      /\ DOMAIN updates = 1..Len(updates) /\ Len(updates) \in Nat
      /\ DOMAIN updates' = 1..(Len(updates) + 1)
      /\ updates'[Len(updates) + 1] = u
      /\ \A n \in DOMAIN updates : n \in DOMAIN updates' /\ updates'[n] = updates[n]
      /\ \A n \in DOMAIN updates : updates[n] \in Update
  BY DEF Shape, Published
<1>2. ASSUME NEW n \in DOMAIN updates' PROVE TrueUpdate(updates'[n], terminal')
  <2>1. CASE n = Len(updates) + 1
    BY <1>1, <2>1 DEF TrueUpdate
  <2>2. CASE n # Len(updates) + 1
    <3>1. n \in DOMAIN updates
      BY <1>1, <2>2
    <3>2. TrueUpdate(updates[n], terminal) /\ updates[n] \in Update /\ updates'[n] = updates[n]
      BY <1>1, <3>1 DEF UpdatesAreTrue
    <3>3. terminal'[updates[n].incident] = terminal[updates[n].incident]
      BY <3>2 DEF TrueUpdate, Update
    <3> QED
      BY <3>2, <3>3 DEF TrueUpdate
  <2> QED
    BY <2>1, <2>2
<1>3. Announced' = Announced \cup {u.incident}
  BY <1>1 DEF Announced
<1> QED
  BY <1>1, <1>2, <1>3 DEF UpdatesAreTrue, Told

(* The three things the incident worker does. *)
LEMMA SettleKeeps ==
    ASSUME NEW m, m.incident \in Incidents, ListenerInv, Settle(m), UNCHANGED interrupted
    PROVE  /\ terminal' \in [Incidents -> States]
           /\ updates' \in Seq(Update)
           /\ UpdatesAreTrue' /\ EscalationsAreTold'
           /\ Announced' = Announced \cup {m.incident}
<1> DEFINE i == m.incident
<1>0. PICK u : u = [incident |-> i, state |-> terminal'[i],
                    escalated |-> IF terminal'[i] = "ESCALATED" THEN "yes" ELSE "no"]
  OBVIOUS
<1>1. /\ Shape /\ UpdatesAreTrue /\ EscalationsAreTold
      /\ terminal \in [Incidents -> States]
      /\ terminal[i] = "NONE"
      /\ terminal' = [terminal EXCEPT ![i] = Outcome(m, Counted(i))]
      /\ Published(u)
  BY <1>0 DEF ListenerInv, Shape, Settle, Record, Ended
<1>2. /\ terminal'[i] \in {"ESCALATED", "RESOLVED"}
      /\ terminal' \in [Incidents -> States]
      /\ \A j \in Incidents : j # i => terminal'[j] = terminal[j]
  BY <1>1, OutcomeIsFinal DEF States
<1>3. u \in Update /\ u.incident = i /\ TrueUpdate(u, terminal')
  BY <1>0, <1>2 DEF Update, States, Flags, TrueUpdate
<1>4. /\ updates' \in Seq(Update) /\ UpdatesAreTrue'
      /\ Announced' = Announced \cup {i}
      /\ \A j \in Incidents : Told(j) => Told(j)'
      /\ u.escalated = "yes" => Told(i)'
  BY <1>1, <1>2, <1>3, UpdatesGrow
<1>5. ASSUME NEW j \in Incidents, terminal'[j] = "ESCALATED"
      PROVE  j \in interrupted \/ Told(j)'
  <2>1. CASE j = i
    BY <1>0, <1>4, <1>5, <2>1
  <2>2. CASE j # i
    BY <1>1, <1>2, <1>4, <1>5, <2>2 DEF EscalationsAreTold
  <2> QED
    BY <2>1, <2>2
<1> QED
  BY <1>2, <1>4, <1>5 DEF EscalationsAreTold

LEMMA SkipKeeps ==
    ASSUME NEW m, m.incident \in Incidents, ListenerInv, SkipEnded(m), UNCHANGED interrupted
    PROVE  /\ terminal' \in [Incidents -> States]
           /\ updates' \in Seq(Update)
           /\ UpdatesAreTrue' /\ EscalationsAreTold'
           /\ Announced' = Announced \cup {m.incident}
<1> DEFINE i == m.incident
<1>0. PICK u : u = [incident |-> i, state |-> terminal[i], escalated |-> "none"]
  OBVIOUS
<1>1. /\ Shape /\ UpdatesAreTrue /\ EscalationsAreTold
      /\ terminal \in [Incidents -> States] /\ terminal[i] # "NONE"
      /\ terminal' = terminal
      /\ Published(u)
  BY <1>0 DEF ListenerInv, Shape, SkipEnded, Ended, manager
<1>2. u \in Update /\ u.incident = i /\ TrueUpdate(u, terminal')
  BY <1>0, <1>1 DEF Update, States, Flags, TrueUpdate
<1>3. /\ updates' \in Seq(Update) /\ UpdatesAreTrue'
      /\ Announced' = Announced \cup {i}
      /\ \A j \in Incidents : Told(j) => Told(j)'
  BY <1>1, <1>2, UpdatesGrow
<1> QED
  BY <1>1, <1>3 DEF EscalationsAreTold

(* An incident ends with message m. *)
LEMMA EndingIsKept ==
    ASSUME ListenerInv, NEW m \in accepted[Last], UNCHANGED accepted,
           terminal[m.incident] = "NONE",
           terminal' = [terminal EXCEPT ![m.incident] = Outcome(m, Counted(m.incident))],
           settled' = settled \cup {m}
    PROVE  Endings'
<1> DEFINE i == m.incident
<1>1. /\ Endings /\ terminal \in [Incidents -> States]
      /\ i \in Incidents
      /\ \A n \in accepted[Last] : n.incident \in Incidents
  BY StageNumbers DEF ListenerInv, Shape, Traced
<1>2. /\ terminal'[i] = Outcome(m, Counted(i))
      /\ \A j \in Incidents : j # i => terminal'[j] = terminal[j]
  BY <1>1
<1>3. settled' \subseteq accepted'[Last]
  BY <1>1 DEF Endings
<1>4. ASSUME NEW j \in Incidents, terminal'[j] # "NONE"
      PROVE  \E n \in settled' : n.incident = j
  BY <1>1, <1>2, <1>4 DEF Endings
<1>5. ASSUME NEW n \in settled', n.severe
      PROVE  terminal'[n.incident] = "ESCALATED"
  <2>1. CASE n = m
    BY <1>2, <1>5, <2>1 DEF Outcome
  <2>2. CASE n \in settled
    BY <1>1, <1>2, <1>5, <2>2 DEF Endings
  <2> QED
    BY <1>5, <2>1, <2>2
<1> QED
  BY <1>3, <1>4, <1>5 DEF Endings

LEMMA EndingsStay ==
    ASSUME Endings, UNCHANGED <<terminal, settled>>, accepted[Last] \subseteq accepted'[Last]
    PROVE  Endings'
BY DEF Endings

LEMMA InterruptKeeps ==
    ASSUME ListenerInv, NEW m \in accepted[Last], Interrupt(m)
    PROVE  /\ terminal' \in [Incidents -> States]
           /\ UpdatesAreTrue' /\ EscalationsAreTold' /\ Endings'
<1> DEFINE i == m.incident
<1>1. /\ Shape /\ UpdatesAreTrue /\ EscalationsAreTold
      /\ terminal \in [Incidents -> States] /\ terminal[i] = "NONE"
      /\ UNCHANGED updates
      /\ updates \in Seq(Update)
      /\ i \in Incidents
  BY StageNumbers DEF ListenerInv, Shape, Traced, Interrupt, Ended
<1>2. \/ /\ terminal' = [terminal EXCEPT ![i] = Outcome(m, Counted(i))]
         /\ settled' = settled \cup {m}
         /\ interrupted' = interrupted \cup {i}
      \/ UNCHANGED <<terminal, settled, interrupted>>
  BY DEF Interrupt
<1>3. terminal' \in [Incidents -> States]
      /\ \A j \in Incidents : j # i => terminal'[j] = terminal[j]
  BY <1>1, <1>2, OutcomeIsFinal DEF States
<1>4. ASSUME NEW n \in DOMAIN updates PROVE TrueUpdate(updates'[n], terminal')
  <2>1. updates[n] \in Update /\ TrueUpdate(updates[n], terminal)
    BY <1>1 DEF UpdatesAreTrue
  <2>2. updates[n].incident # i
    BY <1>1, <2>1 DEF TrueUpdate, Update
  <2>3. terminal'[updates[n].incident] = terminal[updates[n].incident]
    BY <1>3, <2>1, <2>2 DEF Update
  <2> QED
    BY <1>1, <2>1, <2>3 DEF TrueUpdate
<1>5. ASSUME NEW j \in Incidents, terminal'[j] = "ESCALATED"
      PROVE  j \in interrupted' \/ Told(j)'
  <2>1. Told(j) => Told(j)'
    BY <1>1 DEF Told
  <2>2. CASE terminal' = terminal /\ interrupted' = interrupted
    BY <1>1, <1>5, <2>1, <2>2 DEF EscalationsAreTold
  <2>3. CASE interrupted' = interrupted \cup {i}
    BY <1>1, <1>3, <1>5, <2>1, <2>3 DEF EscalationsAreTold
  <2> QED
    BY <1>2, <2>2, <2>3
<1>6. Endings'
  <2>1. UNCHANGED accepted
    BY DEF Interrupt, ledger
  <2>2. CASE UNCHANGED <<terminal, settled>>
    BY <2>1, <2>2, EndingsStay DEF ListenerInv
  <2>3. CASE ~UNCHANGED <<terminal, settled>>
    BY <1>1, <1>2, <2>1, <2>3, EndingIsKept
  <2> QED
    BY <2>2, <2>3
<1> QED
  BY <1>1, <1>3, <1>4, <1>5, <1>6 DEF UpdatesAreTrue, EscalationsAreTold

(* What a step leaves alone. *)
LEMMA StreamsUnchanged ==
    ASSUME Traced, UNCHANGED accepted
    PROVE  Traced'
BY DEF Traced, With

LEMMA ListenerUnchanged ==
    ASSUME UpdatesAreTrue, EscalationsAreTold, UNCHANGED <<terminal, updates, interrupted>>
    PROVE  UpdatesAreTrue' /\ EscalationsAreTold'
BY DEF UpdatesAreTrue, EscalationsAreTold, TrueUpdate, Told

LEMMA ListenerNext == ListenerInv /\ [Next]_vars => ListenerInv'
<1> SUFFICES ASSUME ListenerInv, [Next]_vars
             PROVE  ListenerInv'
  OBVIOUS
<1>1. Shape /\ Traced /\ UpdatesAreTrue /\ EscalationsAreTold /\ Endings
  BY DEF ListenerInv
<1>2. ASSUME UNCHANGED <<terminal, settled, updates, interrupted>>,
             \A t \in Stages : accepted[t] \subseteq accepted'[t]
      PROVE  UpdatesAreTrue' /\ EscalationsAreTold' /\ Endings'
  BY <1>1, <1>2, ListenerUnchanged, EndingsStay, StageNumbers
<1>3. ASSUME NEW k \in Sessions, Turn(k) PROVE ListenerInv'
  <2>1. /\ Traced' /\ accepted' = [t \in Stages |-> accepted'[t]]
        /\ \A t \in Stages : accepted[t] \subseteq accepted'[t]
    BY <1>1, <1>3, StreamGrows, TurnGrows, StageNumbers DEF Turn
  <2>2. run' \in [Sessions -> 0..Turns]
    BY <1>1, <1>3, PipelineAssumption DEF Turn, More, Shape
  <2>3. UpdatesAreTrue' /\ EscalationsAreTold' /\ Endings'
    BY <1>2, <1>3, <2>1 DEF Turn, manager
  <2>4. Shape'
    BY <1>1, <1>3, <2>1, <2>2 DEF Turn, Shape, manager
  <2> QED
    BY <2>1, <2>3, <2>4 DEF ListenerInv
<1>4. ASSUME NEW k \in Sessions, Abort(k) PROVE ListenerInv'
  <2>1. /\ Traced' /\ accepted' = [t \in Stages |-> accepted'[t]]
        /\ \A t \in Stages : accepted[t] \subseteq accepted'[t]
    <3>1. CASE UNCHANGED accepted
      BY <1>1, <3>1, StreamsUnchanged DEF Shape
    <3>2. CASE ~UNCHANGED accepted
      <4> DEFINE m == Fresh(1, <<k, run[k] + 1>>, FALSE)
      <4>1. m.incident \in Incidents /\ 1 \in Stages
        BY <1>1, <1>4, TurnGrows, StageNumbers DEF Abort
      <4>2. accepted' = [accepted EXCEPT ![1] = @ \cup {m}]
        BY <1>4, <3>2 DEF Abort
      <4> HIDE DEF m
      <4> QED
        BY <1>1, <4>1, <4>2, StreamGrows
    <3> QED
      BY <3>1, <3>2
  <2>2. UpdatesAreTrue' /\ EscalationsAreTold' /\ Endings'
    BY <1>2, <1>4, <2>1 DEF Abort, manager
  <2>3. Shape'
    BY <1>1, <1>4, <2>1 DEF Abort, Shape, manager
  <2> QED
    BY <2>1, <2>2, <2>3 DEF ListenerInv
<1>5. ASSUME NEW s \in Stages, NEW m \in accepted[s], Produce(s, m) PROVE ListenerInv'
  <2>1. PICK severe \in Results(s, m) :
           accepted' = [accepted EXCEPT ![s + 1] = @ \cup {Fresh(s + 1, m.incident, severe)}]
    BY <1>5 DEF Produce
  <2>2. /\ s + 1 \in Stages /\ m.incident \in Incidents /\ m.incident \in With(1, accepted)
        /\ Fresh(s + 1, m.incident, severe).incident = m.incident
    BY <1>1, <1>5, StageNumbers DEF Produce, Traced, Fresh
  <2>3. /\ Traced' /\ accepted' = [t \in Stages |-> accepted'[t]]
        /\ \A t \in Stages : accepted[t] \subseteq accepted'[t]
    BY <1>1, <2>1, <2>2, StreamGrows
  <2>4. UpdatesAreTrue' /\ EscalationsAreTold' /\ Endings'
    BY <1>2, <1>5, <2>3 DEF Produce, manager
  <2>5. Shape'
    BY <1>1, <1>5, <2>3 DEF Produce, Shape, manager, engine
  <2> QED
    BY <2>3, <2>4, <2>5 DEF ListenerInv
<1>6. ASSUME \/ \E s \in Stages : \E m \in accepted[s] : Complete(s, m) \/ GiveUp(s, m)
             \/ Restart
      PROVE  ListenerInv'
  <2>1. UNCHANGED <<run, accepted, terminal, settled, updates, interrupted>>
    BY <1>6 DEF Complete, GiveUp, Restart, ledger, manager, engine
  <2>2. Traced' /\ UpdatesAreTrue' /\ EscalationsAreTold' /\ Endings'
    BY <1>1, <1>2, <2>1, StreamsUnchanged
  <2>3. Shape'
    BY <1>1, <1>6, <2>1 DEF Complete, GiveUp, Restart, Shape, ledger
  <2> QED
    BY <2>2, <2>3 DEF ListenerInv
<1>7. ASSUME NEW m \in accepted[Last], HandleIncident(m) PROVE ListenerInv'
  <2>1. m.incident \in Incidents /\ UNCHANGED accepted
    BY <1>1, <1>7, StageNumbers DEF Traced, HandleIncident
  <2>2. /\ terminal' \in [Incidents -> States] /\ updates' \in Seq(Update)
        /\ UpdatesAreTrue' /\ EscalationsAreTold'
    BY <1>7, <2>1, SettleKeeps, SkipKeeps DEF HandleIncident
  <2>3. Traced'
    BY <1>1, <2>1, StreamsUnchanged
  <2>4. Endings'
    <3>1. CASE Settle(m)
      BY <2>1, <3>1, EndingIsKept, StageNumbers DEF Settle, Record, Ended
    <3>2. CASE SkipEnded(m)
      BY <1>1, <2>1, <3>2, EndingsStay DEF SkipEnded, manager
    <3> QED
      BY <1>7, <3>1, <3>2 DEF HandleIncident
  <2>5. Shape'
    BY <1>1, <1>7, <2>2 DEF HandleIncident, Shape, engine
  <2> QED
    BY <2>2, <2>3, <2>4, <2>5 DEF ListenerInv
<1>8. ASSUME NEW m \in accepted[Last], Interrupt(m) PROVE ListenerInv'
  <2>1. /\ terminal' \in [Incidents -> States]
        /\ UpdatesAreTrue' /\ EscalationsAreTold' /\ Endings'
    BY <1>8, InterruptKeeps
  <2>2. Traced'
    BY <1>1, <1>8, StreamsUnchanged DEF Interrupt, ledger
  <2>3. Shape'
    BY <1>1, <1>8, <2>1 DEF Interrupt, Shape, engine, ledger
  <2> QED
    BY <2>1, <2>2, <2>3 DEF ListenerInv
<1>9. CASE UNCHANGED vars
  <2>1. Traced' /\ UpdatesAreTrue' /\ EscalationsAreTold' /\ Endings'
    BY <1>1, <1>2, <1>9, StreamsUnchanged DEF vars, ledger, manager
  <2>2. Shape'
    BY <1>1, <1>9 DEF vars, Shape, engine, ledger, manager
  <2> QED
    BY <2>1, <2>2 DEF ListenerInv
<1> QED
  BY <1>3, <1>4, <1>5, <1>6, <1>7, <1>8, <1>9 DEF Next, Work

LEMMA ListenerInvIsEnough == ListenerInv => ListenerTellsTheTruth
<1> SUFFICES ASSUME ListenerInv PROVE ListenerTellsTheTruth
  OBVIOUS
<1>1. ASSUME NEW i \in Incidents, NEW u \in UpdatesOf(i)
      PROVE  /\ u.state = terminal[i]
             /\ u.escalated = "yes" => terminal[i] = "ESCALATED"
             /\ u.escalated = "no" => terminal[i] = "RESOLVED"
  <2>1. PICK n \in DOMAIN updates : u = updates[n] /\ updates[n].incident = i
    BY DEF UpdatesOf
  <2> QED
    BY <2>1 DEF ListenerInv, UpdatesAreTrue, TrueUpdate
<1>2. ASSUME NEW i \in Incidents, terminal[i] # "NONE"
      PROVE  \E m \in settled : m \in Copies(Last, i)
  BY <1>2 DEF ListenerInv, Endings, Copies
<1>3. ASSUME NEW i \in Incidents, NEW o \in Outcomes(i), o.update.state # "NONE"
      PROVE  /\ o.update \in UpdatesOf(i)
             /\ o.result \in Copies(Last, i)
             /\ Copies(Last, i) = {o.result} => o.result \in settled
             /\ o.result \in settled /\ o.result.severe => terminal[i] = "ESCALATED"
  <2>1. PICK C : C = IF Copies(Last, i) = {} THEN {NoResult(i)} ELSE Copies(Last, i)
    OBVIOUS
  <2>2. o \in [update : UpdatesOf(i) \cup {NoUpdate(i)}, result : C]
    BY <2>1 DEF Outcomes
  <2>3. o.update \in UpdatesOf(i) \cup {NoUpdate(i)} /\ o.result \in C
    BY <2>2
  <2>4. o.update \in UpdatesOf(i)
    BY <1>3, <2>3 DEF NoUpdate
  <2>5. PICK m \in settled : m \in Copies(Last, i)
    BY <1>1, <1>2, <1>3, <2>4
  <2>6. o.result \in Copies(Last, i) /\ o.result.incident = i
    BY <2>1, <2>3, <2>5 DEF Copies
  <2> QED
    BY <2>4, <2>5, <2>6 DEF ListenerInv, Endings
<1>4. ASSUME NEW i \in Incidents, terminal[i] = "ESCALATED", i \notin interrupted
      PROVE  \E u \in UpdatesOf(i) : u.escalated = "yes"
  <2>1. PICK n \in DOMAIN updates : updates[n].incident = i /\ updates[n].escalated = "yes"
    BY <1>4 DEF ListenerInv, EscalationsAreTold, Told
  <2>2. updates[n] \in UpdatesOf(i)
    BY <2>1 DEF UpdatesOf
  <2> QED
    BY <2>1, <2>2
<1>5. ASSUME NEW k \in Sessions
      PROVE  LET escalated == {i \in Incidents : Key(i) = k /\ terminal[i] = "ESCALATED"}
             IN  /\ CountedEscalations(k) \subseteq escalated
                 /\ escalated \ CountedEscalations(k) \subseteq interrupted
  BY <1>1, <1>4 DEF CountedEscalations
<1> QED
  BY <1>1, <1>3, <1>5 DEF ListenerTellsTheTruth

(* Whatever copies of whatever messages the stages produce and however     *)
(* often the incident worker is interrupted: the state and the escalation  *)
(* the listener returns are how the incident ended; the action, risk level *)
(* and prediction beside them are of a result of the defense stage for it, *)
(* of the recorded one if there is only one, and agree with the state if   *)
(* they are of the recorded one; the escalations it counts happened, and   *)
(* it misses only those whose update never reached the stream.             *)
THEOREM TheListenerIsRight == Safety => []ListenerTellsTheTruth
<1>1. Safety => []ListenerInv
  BY ListenerInit, ListenerNext, PTL DEF Safety
<1> QED
  BY <1>1, ListenerInvIsEnough, PTL
-----------------------------------------------------------------------------
(* The pipeline as a whole is at-least-once *)

LedgerInv == ListenerInv /\ Accounted

GivenUp == UNION {With(s, givenUp) : s \in Stages}

LEMMA AccountedInit == Init => Accounted
BY StageNumbers DEF Init, Accounted

LEMMA AccountedNext == LedgerInv /\ [Next]_vars => Accounted'
<1> SUFFICES ASSUME LedgerInv, [Next]_vars
             PROVE  Accounted'
  OBVIOUS
<1>1. Shape /\ Traced /\ Accounted
  BY DEF LedgerInv, ListenerInv
<1>2. ASSUME UNCHANGED <<produced, completed, givenUp, updates>>,
             \A s \in Stages : accepted[s] \subseteq accepted'[s]
      PROVE  Accounted'
  BY <1>1, <1>2, StageNumbers DEF Accounted, Announced
<1>3. ASSUME NEW s \in Stages, NEW m, accepted' = [accepted EXCEPT ![s] = @ \cup {m}]
      PROVE  \A t \in Stages : accepted[t] \subseteq accepted'[t]
  BY <1>1, <1>3 DEF Shape
<1>4. ASSUME NEW k \in Sessions, Turn(k) \/ Abort(k) PROVE Accounted'
  <2>1. PICK m : accepted' = [accepted EXCEPT ![1] = @ \cup {m}] \/ UNCHANGED accepted
    BY <1>4 DEF Turn, Abort
  <2>2. \A s \in Stages : accepted[s] \subseteq accepted'[s]
    BY <1>3, <2>1, StageNumbers
  <2> QED
    BY <1>2, <1>4, <2>2 DEF Turn, Abort
<1>5. ASSUME NEW s \in Stages, NEW m \in accepted[s], Produce(s, m) PROVE Accounted'
  <2>1. PICK severe \in Results(s, m) :
           accepted' = [accepted EXCEPT ![s + 1] = @ \cup {Fresh(s + 1, m.incident, severe)}]
    BY <1>5 DEF Produce
  <2>2. s # Last /\ s + 1 \in Stages
    BY <1>5, StageNumbers DEF Produce
  <2>3. \A t \in Stages : accepted[t] \subseteq accepted'[t]
    BY <1>3, <2>1, <2>2
  <2>4. /\ produced' = [produced EXCEPT ![s] = @ \cup {m}]
        /\ UNCHANGED <<completed, givenUp, updates>>
    BY <1>5 DEF Produce
  <2>5. /\ produced'[s] = produced[s] \cup {m}
        /\ \A t \in Stages : t # s => produced'[t] = produced[t]
    BY <1>1, <2>4 DEF Shape
  <2> QED
    BY <1>1, <2>2, <2>3, <2>4, <2>5, StageNumbers DEF Accounted, Announced
<1>6. ASSUME NEW s \in Stages, NEW m \in accepted[s], Complete(s, m) PROVE Accounted'
  <2>1. /\ m \in produced[s]
        /\ completed'[s] = completed[s] \cup {m}
        /\ \A t \in Stages : t # s => completed'[t] = completed[t]
        /\ UNCHANGED <<accepted, produced, givenUp, updates>>
    BY <1>1, <1>6 DEF Complete, Shape
  <2> QED
    BY <1>1, <2>1, StageNumbers DEF Accounted, Announced
<1>7. ASSUME NEW s \in Stages, NEW m \in accepted[s], GiveUp(s, m) PROVE Accounted'
  <2>1. /\ m \in accepted[s]
        /\ givenUp'[s] = givenUp[s] \cup {m}
        /\ \A t \in Stages : t # s => givenUp'[t] = givenUp[t]
        /\ UNCHANGED <<accepted, produced, completed, updates>>
    BY <1>1, <1>7 DEF GiveUp, Shape
  <2> QED
    BY <1>1, <2>1, StageNumbers DEF Accounted, Announced
<1>8. ASSUME NEW m \in accepted[Last], HandleIncident(m) PROVE Accounted'
  <2>1. Announced' = Announced \cup {m.incident}
    BY <1>1, <1>8, SettleKeeps, SkipKeeps, StageNumbers
       DEF HandleIncident, LedgerInv, Traced
  <2>2. /\ produced'[Last] = produced[Last] \cup {m}
        /\ \A t \in Stages : t # Last => produced'[t] = produced[t]
        /\ UNCHANGED <<accepted, completed, givenUp>>
    BY <1>1, <1>8, StageNumbers DEF HandleIncident, Shape
  <2> QED
    BY <1>1, <2>1, <2>2, StageNumbers DEF Accounted
<1>9. ASSUME (\E m \in accepted[Last] : Interrupt(m)) \/ Restart PROVE Accounted'
  BY <1>2, <1>9 DEF Interrupt, Restart, ledger
<1>10. CASE UNCHANGED vars
  BY <1>2, <1>10 DEF vars, ledger
<1> QED
  BY <1>4, <1>5, <1>6, <1>7, <1>8, <1>9, <1>10 DEF Next, Work

LEMMA EndToEndInit == Init => EndToEnd!Init
<1> SUFFICES ASSUME Init PROVE EndToEnd!Init
  OBVIOUS
<1>1. /\ With(1, accepted) = {} /\ With(Last, completed) = {}
      /\ \A s \in Stages : With(s, givenUp) = {}
      /\ updates = << >>
  BY StageNumbers DEF Init, With
<1> QED
  BY <1>1 DEF EndToEnd!Init

(* Every step of the pipeline is one of the abstract stage or none: only   *)
(* the first stream, the last stage, the updates and the dead letters show. *)
LEMMA EndToEndNext == LedgerInv /\ [Next]_vars => [EndToEnd!Next]_(EndToEnd!vars)
<1> SUFFICES ASSUME LedgerInv, [Next]_vars
             PROVE  [EndToEnd!Next]_(EndToEnd!vars)
  OBVIOUS
<1>1. Shape /\ Traced /\ Accounted
  BY DEF LedgerInv, ListenerInv
<1>2. \A s \in Stages : \A m \in accepted[s] :
         m.incident \in Incidents /\ m.incident \in With(1, accepted)
  BY <1>1 DEF Traced
<1> DEFINE Acc == With(1, accepted)
           Com == With(Last, completed)
<1>3. /\ UNCHANGED completed => Com' = Com
      /\ UNCHANGED givenUp => GivenUp' = GivenUp
      /\ UNCHANGED updates => Announced' = Announced
      /\ UNCHANGED accepted => Acc' = Acc
  BY DEF With, GivenUp, Announced
<1>4. ASSUME Acc' = Acc, Com' = Com, GivenUp' = GivenUp, Announced' = Announced
      PROVE  UNCHANGED EndToEnd!vars
  BY <1>4 DEF EndToEnd!vars, GivenUp, Announced
<1>5. ASSUME NEW i \in Incidents, Acc' = Acc \cup {i}, Com' = Com,
             GivenUp' = GivenUp, Announced' = Announced
      PROVE  EndToEnd!Next
  BY <1>5 DEF EndToEnd!Next, EndToEnd!Accept, GivenUp, Announced
<1>6. ASSUME NEW i \in Acc, i \in Incidents, Announced' = Announced \cup {i},
             Acc' = Acc, Com' = Com, GivenUp' = GivenUp
      PROVE  EndToEnd!Next
  BY <1>6 DEF EndToEnd!Next, EndToEnd!Produce, GivenUp, Announced
<1>7. ASSUME NEW i \in Announced, i \in Incidents, Com' = Com \cup {i},
             Acc' = Acc, Announced' = Announced, GivenUp' = GivenUp
      PROVE  EndToEnd!Next
  BY <1>7 DEF EndToEnd!Next, EndToEnd!Complete, GivenUp, Announced
<1>8. ASSUME NEW i \in Acc, i \in Incidents, GivenUp' = GivenUp \cup {i},
             Acc' = Acc, Com' = Com, Announced' = Announced
      PROVE  EndToEnd!Next
  BY <1>8 DEF EndToEnd!Next, EndToEnd!GiveUp, GivenUp, Announced
<1> HIDE DEF Acc, Com
<1>9. ASSUME NEW k \in Sessions, Turn(k) \/ Abort(k)
      PROVE  [EndToEnd!Next]_(EndToEnd!vars)
  <2> DEFINE m == Fresh(1, <<k, run[k] + 1>>, FALSE)
             i == <<k, run[k] + 1>>
  <2>1. m.incident = i /\ i \in Incidents
    BY <1>1, <1>9, TurnGrows DEF Turn, Abort
  <2>2. UNCHANGED <<completed, givenUp, updates>>
    BY <1>9 DEF Turn, Abort
  <2>3. CASE UNCHANGED accepted
    BY <1>3, <1>4, <2>2, <2>3
  <2>4. CASE accepted' = [accepted EXCEPT ![1] = @ \cup {m}]
    <3> HIDE DEF m, i
    <3>1. Acc' = Acc \cup {i}
      BY <1>1, <2>1, <2>4, StreamGrows, StageNumbers DEF Acc
    <3> QED
      BY <1>3, <1>5, <2>1, <2>2, <3>1
  <2> QED
    BY <1>9, <2>3, <2>4 DEF Turn, Abort
<1>10. ASSUME NEW s \in Stages, NEW m \in accepted[s], Produce(s, m)
       PROVE  UNCHANGED EndToEnd!vars
  <2>1. PICK severe \in Results(s, m) :
           accepted' = [accepted EXCEPT ![s + 1] = @ \cup {Fresh(s + 1, m.incident, severe)}]
    BY <1>10 DEF Produce
  <2>2. /\ s + 1 \in Stages /\ s + 1 # 1
        /\ Fresh(s + 1, m.incident, severe).incident = m.incident
    BY <1>10, StageNumbers DEF Produce, Fresh
  <2>3. Acc' = Acc
    BY <1>1, <1>2, <2>1, <2>2, StreamGrows DEF Acc
  <2> QED
    BY <1>3, <1>4, <1>10, <2>3 DEF Produce
<1>11. ASSUME NEW s \in Stages, NEW m \in accepted[s], Complete(s, m)
       PROVE  [EndToEnd!Next]_(EndToEnd!vars)
  <2>1. /\ m \in produced[s] /\ UNCHANGED <<accepted, givenUp, updates>>
        /\ completed'[s] = completed[s] \cup {m}
        /\ \A t \in Stages : t # s => completed'[t] = completed[t]
    BY <1>1, <1>11 DEF Complete, Shape
  <2>2. CASE s = Last
    <3>1. Com' = Com \cup {m.incident}
      BY <2>1, <2>2 DEF Com, With
    <3>2. m.incident \in Announced /\ m.incident \in Incidents
      BY <1>1, <1>2, <2>1, <2>2 DEF Accounted
    <3> QED
      BY <1>3, <1>7, <2>1, <3>1, <3>2
  <2>3. CASE s # Last
    <3>1. Com' = Com
      BY <2>1, <2>3, StageNumbers DEF Com, With
    <3> QED
      BY <1>3, <1>4, <2>1, <3>1
  <2> QED
    BY <2>2, <2>3
<1>12. ASSUME NEW s \in Stages, NEW m \in accepted[s], GiveUp(s, m)
       PROVE  [EndToEnd!Next]_(EndToEnd!vars)
  <2>1. /\ UNCHANGED <<accepted, completed, updates>>
        /\ givenUp'[s] = givenUp[s] \cup {m}
        /\ \A t \in Stages : t # s => givenUp'[t] = givenUp[t]
    BY <1>1, <1>12 DEF GiveUp, Shape
  <2>2. GivenUp' = GivenUp \cup {m.incident}
    <3>1. \A t \in Stages : With(t, givenUp)' =
             IF t = s THEN With(t, givenUp) \cup {m.incident} ELSE With(t, givenUp)
      BY <2>1 DEF With
    <3> QED
      BY <3>1 DEF GivenUp
  <2> QED
    BY <1>2, <1>3, <1>8, <2>1, <2>2 DEF Acc
<1>13. ASSUME NEW m \in accepted[Last], HandleIncident(m)
       PROVE  [EndToEnd!Next]_(EndToEnd!vars)
  <2>1. m.incident \in Incidents /\ m.incident \in Acc
    BY <1>2, StageNumbers DEF Acc
  <2>2. Announced' = Announced \cup {m.incident}
    BY <1>13, <2>1, SettleKeeps, SkipKeeps DEF HandleIncident, LedgerInv
  <2> QED
    BY <1>3, <1>6, <1>13, <2>1, <2>2 DEF HandleIncident
<1>14. ASSUME (\E m \in accepted[Last] : Interrupt(m)) \/ Restart \/ UNCHANGED vars
       PROVE  UNCHANGED EndToEnd!vars
  <2>1. UNCHANGED <<accepted, completed, givenUp, updates>>
    BY <1>14 DEF Interrupt, Restart, vars, ledger
  <2> QED
    BY <1>3, <1>4, <2>1
<1> QED
  BY <1>9, <1>10, <1>11, <1>12, <1>13, <1>14 DEF Next, Work

(* The safety part of ImplementsAtLeastOnce for any number of stages: the  *)
(* incident worker completes a turn only after its update, everything that *)
(* settles was accepted at the front, and nothing is taken back.           *)
THEOREM PipelineIsAtLeastOnce == Safety => EndToEnd!Safety
<1>1. Init => LedgerInv
  BY ListenerInit, AccountedInit DEF LedgerInv
<1>2. LedgerInv /\ [Next]_vars => LedgerInv'
  BY ListenerNext, AccountedNext DEF LedgerInv
<1>3. Safety => []LedgerInv
  BY <1>1, <1>2, PTL DEF Safety
<1> QED
  BY <1>3, EndToEndInit, EndToEndNext, PTL DEF Safety, EndToEnd!Safety
-----------------------------------------------------------------------------
(* Type correctness.  That a message's copy number is in range says that   *)
(* repetitions do not multiply along the pipeline: each fault adds at most *)
(* one message about an incident to any stream.                            *)

(* The messages about an incident in front of stage t whose result is not  *)
(* published yet: each is still worth one message at t.                    *)
Waiting(t, i) ==
    {p \in Stages \X Messages : /\ p[1] < t
                                /\ p[2] \in accepted[p[1]] \ produced[p[1]]
                                /\ p[2].incident = i}

Bounded == \A t \in Stages : \A i \in Incidents :
              /\ IsFiniteSet(Copies(t, i))
              /\ IsFiniteSet(Waiting(t, i))
              /\ Cardinality(Copies(t, i)) + Cardinality(Waiting(t, i)) <= 1 + faults

Numbered == \A t \in Stages : \A i \in Incidents : \A m \in Copies(t, i) :
               m.copy \in 1..Cardinality(Copies(t, i))

(* A turn that is still to come has not been ingested. *)
NotYetIngested == \A k \in Sessions : \A n \in 1..Turns :
                     <<k, n>> \in With(1, accepted) => n <= run[k] \/ k \in aborted

(* What a session's counter and the store may hold beyond the incidents    *)
(* that have ended, faults have paid for.                                  *)
EndedOf(k) == {i \in Incidents : Key(i) = k /\ Ended(i)}
RecordedOf(k) == {i \in recorded : Key(i) = k}
PaidFor == \A k \in Sessions :
              /\ tracker[k] <= Cardinality(EndedOf(k)) + faults
              /\ Cardinality(RecordedOf(k)) <= Cardinality(EndedOf(k)) + faults

PipelineInv == LedgerInv /\ TypeOK /\ Bounded /\ Numbered /\ NotYetIngested /\ PaidFor

LEMMA FaultsCount ==
    ASSUME faults \in 0..MaxFaults
    PROVE  /\ faults \in Nat
           /\ Fault => faults' \in 0..MaxFaults /\ faults' = faults + 1
BY PipelineAssumption DEF Fault

(* One element more in one of two sets. *)
LEMMA OneMore ==
    ASSUME NEW C, NEW W, IsFiniteSet(C), IsFiniteSet(W), NEW C2, NEW W2, NEW x,
           \/ C2 \subseteq C \cup {x} /\ W2 \subseteq W
           \/ C2 \subseteq C /\ W2 \subseteq W \cup {x}
    PROVE  /\ IsFiniteSet(C2) /\ IsFiniteSet(W2)
           /\ Cardinality(C2) + Cardinality(W2) <= Cardinality(C) + Cardinality(W) + 1
<1>1. /\ IsFiniteSet(C \cup {x}) /\ IsFiniteSet(W \cup {x})
      /\ Cardinality(C \cup {x}) <= Cardinality(C) + 1
      /\ Cardinality(W \cup {x}) <= Cardinality(W) + 1
      /\ Cardinality(C) \in Nat /\ Cardinality(W) \in Nat
      /\ Cardinality(C \cup {x}) \in Nat /\ Cardinality(W \cup {x}) \in Nat
  <2>1. Cardinality(C) \in Nat /\ Cardinality(W) \in Nat
    BY FS_CardinalityType
  <2>2. /\ IsFiniteSet(C \cup {x})
        /\ Cardinality(C \cup {x}) = IF x \in C THEN Cardinality(C) ELSE Cardinality(C) + 1
    BY FS_AddElement
  <2>3. /\ IsFiniteSet(W \cup {x})
        /\ Cardinality(W \cup {x}) = IF x \in W THEN Cardinality(W) ELSE Cardinality(W) + 1
    BY FS_AddElement
  <2> QED
    BY <2>1, <2>2, <2>3
<1>2. CASE C2 \subseteq C \cup {x} /\ W2 \subseteq W
  <2>1. /\ IsFiniteSet(C2) /\ Cardinality(C2) <= Cardinality(C \cup {x})
        /\ Cardinality(C2) \in Nat
    BY <1>1, <1>2, FS_Subset, FS_CardinalityType
  <2>2. /\ IsFiniteSet(W2) /\ Cardinality(W2) <= Cardinality(W)
        /\ Cardinality(W2) \in Nat
    BY <1>2, FS_Subset, FS_CardinalityType
  <2> QED
    BY <1>1, <2>1, <2>2
<1>3. CASE C2 \subseteq C /\ W2 \subseteq W \cup {x}
  <2>1. /\ IsFiniteSet(C2) /\ Cardinality(C2) <= Cardinality(C)
        /\ Cardinality(C2) \in Nat
    BY <1>3, FS_Subset, FS_CardinalityType
  <2>2. /\ IsFiniteSet(W2) /\ Cardinality(W2) <= Cardinality(W \cup {x})
        /\ Cardinality(W2) \in Nat
    BY <1>1, <1>3, FS_Subset, FS_CardinalityType
  <2> QED
    BY <1>1, <2>1, <2>2
<1> QED
  BY <1>2, <1>3

LEMMA CardinalitiesAreNumbers ==
    ASSUME Bounded, NEW t \in Stages, NEW i \in Incidents
    PROVE  /\ IsFiniteSet(Copies(t, i)) /\ IsFiniteSet(Waiting(t, i))
           /\ Cardinality(Copies(t, i)) \in Nat /\ Cardinality(Waiting(t, i)) \in Nat
           /\ Cardinality(Copies(t, i)) + Cardinality(Waiting(t, i)) <= 1 + faults
BY FS_CardinalityType DEF Bounded

(* Steps that put nothing on a stream. *)
LEMMA NothingArrives ==
    ASSUME PipelineInv, UNCHANGED accepted,
           \A t \in Stages : produced[t] \subseteq produced'[t],
           faults' \in Nat, faults <= faults'
    PROVE  Bounded' /\ Numbered'
<1>1. Bounded /\ Numbered /\ faults \in Nat
  BY FaultsCount DEF PipelineInv, TypeOK
<1>2. ASSUME NEW t \in Stages, NEW i \in Incidents
      PROVE  /\ Copies(t, i)' = Copies(t, i)
             /\ Waiting(t, i)' \subseteq Waiting(t, i)
  BY DEF Copies, Waiting
<1>3. ASSUME NEW t \in Stages, NEW i \in Incidents
      PROVE  /\ IsFiniteSet(Copies(t, i)')
             /\ IsFiniteSet(Waiting(t, i)')
             /\ Cardinality(Copies(t, i)') + Cardinality(Waiting(t, i)') <= 1 + faults'
  <2>1. /\ IsFiniteSet(Copies(t, i)) /\ IsFiniteSet(Waiting(t, i))
        /\ Cardinality(Copies(t, i)) \in Nat /\ Cardinality(Waiting(t, i)) \in Nat
        /\ Cardinality(Copies(t, i)) + Cardinality(Waiting(t, i)) <= 1 + faults
    BY <1>1, CardinalitiesAreNumbers
  <2>2. /\ IsFiniteSet(Waiting(t, i)')
        /\ Cardinality(Waiting(t, i)') <= Cardinality(Waiting(t, i))
        /\ Cardinality(Waiting(t, i)') \in Nat
    BY <1>2, <2>1, FS_Subset, FS_CardinalityType
  <2> QED
    BY <1>1, <1>2, <2>1, <2>2
<1>4. Bounded'
  BY <1>3 DEF Bounded
<1>5. Numbered'
  BY <1>1, <1>2 DEF Numbered
<1> QED
  BY <1>4, <1>5

LEMMA NumberInRange ==
    ASSUME NEW n \in Nat, NEW g \in 0..MaxFaults, n + 1 <= 1 + g
    PROVE  n + 1 \in 1..(MaxFaults + 1)
BY PipelineAssumption

(* A fresh message has a number of its own. *)
LEMMA FreshIsNew ==
    ASSUME PipelineInv, NEW s \in Stages, NEW i \in Incidents, NEW severe \in BOOLEAN, NEW f,
           f = Fresh(s, i, severe), accepted' = [accepted EXCEPT ![s] = @ \cup {f}],
           \A t \in Stages : produced[t] \subseteq produced'[t],
           faults' \in 0..MaxFaults, Bounded'
    PROVE  Numbered' /\ accepted' \in [Stages -> SUBSET Messages]
<1>1. /\ Bounded /\ Numbered /\ faults \in Nat /\ faults' \in Nat
      /\ accepted \in [Stages -> SUBSET Messages]
  BY FaultsCount, PipelineAssumption DEF PipelineInv, TypeOK
<1>2. PICK n : n = Cardinality(Copies(s, i))
  OBVIOUS
<1>3. f = [incident |-> i, copy |-> n + 1, severe |-> severe]
  BY <1>2 DEF Fresh
<1>4. n \in Nat /\ IsFiniteSet(Copies(s, i))
  BY <1>1, <1>2, CardinalitiesAreNumbers
<1>5. f \notin Copies(s, i)
  BY <1>1, <1>2, <1>3, <1>4 DEF Numbered
<1>0. /\ f.incident = i
      /\ \A t \in Stages, j \in Incidents :
            /\ t # s \/ j # i => Copies(t, j)' = Copies(t, j)
            /\ t = s /\ j = i => Copies(t, j)' = Copies(t, j) \cup {f}
  <2>1. f.incident = i
    BY <1>3
  <2>2. /\ accepted'[s] = accepted[s] \cup {f}
        /\ \A r \in Stages : r # s => accepted'[r] = accepted[r]
    BY <1>1
  <2> QED
    BY <2>1, <2>2 DEF Copies
<1>6. Copies(s, i)' = Copies(s, i) \cup {f}
  BY Zenon, <1>0
<1>7. Cardinality(Copies(s, i)') = n + 1
  BY <1>2, <1>4, <1>5, <1>6, FS_AddElement
<1>8. PICK g \in 0..MaxFaults : g = faults'
  OBVIOUS
<1>80. n + 1 <= 1 + g
  <2>1. /\ IsFiniteSet(Copies(s, i)') /\ IsFiniteSet(Waiting(s, i)')
        /\ Cardinality(Copies(s, i)') + Cardinality(Waiting(s, i)') <= 1 + faults'
    BY DEF Bounded
  <2>2. Cardinality(Waiting(s, i)') \in Nat
    BY <2>1, FS_CardinalityType
  <2> QED
    <3> DEFINE w == Cardinality(Waiting(s, i)')
    <3>1. w \in Nat /\ n + 1 + w <= 1 + g
      BY <1>7, <1>8, <2>1, <2>2
    <3> HIDE DEF w
    <3> QED
      BY <1>4, <3>1, PipelineAssumption
<1>9. f \in Messages
  <2>1. n + 1 \in 1..(MaxFaults + 1)
    BY <1>4, <1>80, NumberInRange
  <2> QED
    BY <1>3, <2>1 DEF Messages
<1>10. accepted' \in [Stages -> SUBSET Messages]
  BY <1>1, <1>9
<1>11. ASSUME NEW t \in Stages, NEW j \in Incidents, NEW m \in Copies(t, j)'
       PROVE  m.copy \in 1..Cardinality(Copies(t, j)')
  <2>1. CASE t # s \/ j # i
    <3>1. Copies(t, j)' = Copies(t, j)
      BY Zenon, <1>0, <2>1
    <3> QED
      BY <1>1, <1>11, <3>1 DEF Numbered
  <2>2. CASE t = s /\ j = i
    <3>1. CASE m = f
      BY <1>3, <1>4, <1>7, <2>2, <3>1
    <3>2. CASE m \in Copies(s, i)
      <4>1. m.copy \in 1..n
        BY <1>1, <1>2, <3>2 DEF Numbered
      <4> QED
        BY <1>4, <1>7, <2>2, <4>1
    <3> QED
      BY <1>6, <1>11, <2>2, <3>1, <3>2
  <2> QED
    BY <2>1, <2>2
<1> QED
  BY <1>10, <1>11 DEF Numbered

(* An arrival stays within the bound if it is the first message about its   *)
(* incident, if a fault paid for it, or if it replaces one that waited.     *)
LEMMA ArrivalIsBounded ==
    ASSUME PipelineInv, NEW s \in Stages, NEW i \in Incidents, NEW f, f.incident = i,
           accepted' = [accepted EXCEPT ![s] = @ \cup {f}],
           \A r \in Stages : produced[r] \subseteq produced'[r],
           faults' \in Nat, faults <= faults',
           \/ \A t \in Stages : Copies(t, i) = {} /\ Waiting(t, i) = {}
           \/ faults' = faults + 1
           \/ \E p : \A t \in Stages :
                 ~(t < s) => p \in Waiting(t, i) /\ p \notin Waiting(t, i)'
    PROVE  Bounded'
<1>1. /\ Bounded /\ faults \in Nat
  BY FaultsCount DEF PipelineInv, TypeOK
<1>2. PICK g \in Nat : g = faults'
  OBVIOUS
<1>3. ASSUME NEW t \in Stages, NEW j \in Incidents
      PROVE  /\ IsFiniteSet(Copies(t, j)')
             /\ IsFiniteSet(Waiting(t, j)')
             /\ Cardinality(Copies(t, j)') + Cardinality(Waiting(t, j)') <= 1 + faults'
  <2>0. PICK C, W, C2, W2 : /\ C = Copies(t, j) /\ W = Waiting(t, j)
                            /\ C2 = Copies(t, j)' /\ W2 = Waiting(t, j)'
    OBVIOUS
  <2>1. /\ t # s \/ j # i => C2 = C
        /\ t = s /\ j = i => C2 = C \cup {f}
        /\ t > s /\ j = i => W2 \subseteq W \cup {<<s, f>>}
        /\ t <= s \/ j # i => W2 \subseteq W
    <3>1. /\ accepted'[s] = accepted[s] \cup {f}
          /\ \A r \in Stages : r # s => accepted'[r] = accepted[r]
      BY DEF PipelineInv, TypeOK
    <3>2. /\ t # s \/ j # i => Copies(t, j)' = Copies(t, j)
          /\ t = s /\ j = i => Copies(t, j)' = Copies(t, j) \cup {f}
      BY <3>1 DEF Copies
    <3>3. ASSUME NEW p \in Waiting(t, j)', p \notin Waiting(t, j)
          PROVE  p = <<s, f>> /\ s < t /\ j = i
      <4>1. /\ p \in Stages \X Messages /\ p[1] \in Stages /\ p = <<p[1], p[2]>>
            /\ p[1] < t /\ p[2] \in accepted'[p[1]] /\ p[2] \notin produced'[p[1]]
            /\ p[2].incident = j
        BY <3>3 DEF Waiting
      <4>2. p[2] \notin accepted[p[1]]
        BY <3>3, <4>1 DEF Waiting
      <4>3. p[1] = s /\ p[2] = f
        BY <3>1, <4>1, <4>2
      <4> QED
        BY <4>1, <4>3
    <3>4. t <= s => ~(s < t)
      BY StageNumbers DEF Stages
    <3> QED
      BY <2>0, <3>2, <3>3, <3>4
  <2>2. /\ IsFiniteSet(C) /\ IsFiniteSet(W)
        /\ Cardinality(C) \in Nat /\ Cardinality(W) \in Nat
        /\ Cardinality(C) + Cardinality(W) <= 1 + faults
    BY <1>1, <2>0, CardinalitiesAreNumbers
  <2>3. /\ s \in Int /\ t \in Int
        /\ t < s \/ t = s \/ t > s
        /\ t < s => t <= s /\ t # s
        /\ t >= s <=> ~(t < s)
    BY StageNumbers DEF Stages
  <2>4. PICK h : h = faults
    OBVIOUS
  <2>5. h \in Nat /\ h <= g
    BY <1>1, <1>2, <2>4
  <2>6. CASE j # i \/ t < s
    <3>1. C2 = C /\ W2 \subseteq W
      BY <2>1, <2>3, <2>6
    <3>2. /\ IsFiniteSet(W2) /\ Cardinality(W2) <= Cardinality(W) /\ Cardinality(W2) \in Nat
      BY <2>2, <3>1, FS_Subset, FS_CardinalityType
    <3>3. Cardinality(C2) + Cardinality(W2) <= 1 + g
      BY <2>2, <2>4, <2>5, <3>1, <3>2
    <3> QED
      BY <1>2, <2>0, <2>2, <3>1, <3>2, <3>3
  <2>7. CASE j = i /\ ~(t < s)
    <3>1. PICK x : \/ C2 \subseteq C \cup {x} /\ W2 \subseteq W
                   \/ C2 \subseteq C /\ W2 \subseteq W \cup {x}
      <4>1. CASE t = s
        BY <2>1, <2>3, <2>7, <4>1
      <4>2. CASE t > s
        BY <2>1, <2>3, <2>7, <4>2
      <4> QED
        BY <2>3, <2>7, <4>1, <4>2
    <3>2. /\ IsFiniteSet(C2) /\ IsFiniteSet(W2)
          /\ Cardinality(C2) + Cardinality(W2) <= Cardinality(C) + Cardinality(W) + 1
      BY <2>2, <3>1, OneMore
    <3>3. Cardinality(C2) \in Nat /\ Cardinality(W2) \in Nat
      BY <3>2, FS_CardinalityType
    <3>4. CASE \A r \in Stages : Copies(r, i) = {} /\ Waiting(r, i) = {}
      <4>1. Cardinality(C) = 0 /\ Cardinality(W) = 0
        BY <2>0, <2>7, <3>4, FS_EmptySet
      <4>2. Cardinality(C2) + Cardinality(W2) <= 1 + g
        BY <2>5, <3>2, <3>3, <4>1
      <4> QED
        BY <1>2, <2>0, <3>2, <4>2
    <3>5. CASE faults' = faults + 1
      <4>1. g = h + 1
        BY <1>2, <2>4, <3>5
      <4>2. Cardinality(C2) + Cardinality(W2) <= 1 + g
        BY <2>2, <2>4, <2>5, <3>2, <3>3, <4>1
      <4> QED
        BY <1>2, <2>0, <3>2, <4>2
    <3>6. CASE \E p : \A r \in Stages :
                  ~(r < s) => p \in Waiting(r, i) /\ p \notin Waiting(r, i)'
      <4>1. PICK p : p \in W /\ p \notin W2
        BY <2>0, <2>7, <3>6
      <4>2. PICK D : D = W \ {p}
        OBVIOUS
      <4>3. IsFiniteSet(D) /\ Cardinality(D) = Cardinality(W) - 1
        BY <2>2, <4>1, <4>2, FS_RemoveElement
      <4>4. \/ C2 \subseteq C \cup {x} /\ W2 \subseteq D
            \/ C2 \subseteq C /\ W2 \subseteq D \cup {x}
        BY <3>1, <4>1, <4>2
      <4>5. Cardinality(C2) + Cardinality(W2) <= Cardinality(C) + Cardinality(D) + 1
        BY <2>2, <4>3, <4>4, OneMore
      <4>6. Cardinality(C2) + Cardinality(W2) <= 1 + g
        BY <2>2, <2>4, <2>5, <3>3, <4>3, <4>5
      <4> QED
        BY <1>2, <2>0, <3>2, <4>6
    <3> QED
      BY <3>4, <3>5, <3>6
  <2> QED
    BY <2>6, <2>7
<1> QED
  BY <1>3 DEF Bounded

(* A session has as many incidents as turns. *)
LEMMA OfOneSession ==
    ASSUME NEW k \in Sessions, NEW S, \A i \in S : i \in Incidents /\ Key(i) = k
    PROVE  IsFiniteSet(S) /\ Cardinality(S) \in Nat /\ Cardinality(S) <= Turns
<1>1. /\ IsFiniteSet({k}) /\ Cardinality({k}) = 1
      /\ IsFiniteSet(1..Turns) /\ Cardinality(1..Turns) = Turns
  <2>1. IsFiniteSet({k}) /\ Cardinality({k}) = 1
    BY Zenon, FS_Singleton
  <2>2. Turns \in Int /\ 1 \in Int /\ ~(1 > Turns) /\ Turns - 1 + 1 = Turns
    BY PipelineAssumption
  <2>3. /\ IsFiniteSet(1..Turns)
        /\ Cardinality(1..Turns) = IF 1 > Turns THEN 0 ELSE Turns - 1 + 1
    BY Zenon, <2>2, FS_Interval
  <2> QED
    BY Zenon, <2>1, <2>2, <2>3
<1>2. /\ IsFiniteSet({k} \X (1..Turns))
      /\ Cardinality({k} \X (1..Turns)) = 1 * Turns
  <2>1. PICK A, B : A = {k} /\ B = 1..Turns
    OBVIOUS
  <2>2. IsFiniteSet(A) /\ Cardinality(A) = 1 /\ IsFiniteSet(B) /\ Cardinality(B) = Turns
    BY Zenon, <1>1, <2>1
  <2>3. IsFiniteSet(A \X B) /\ Cardinality(A \X B) = Cardinality(A) * Cardinality(B)
    BY <2>2, FS_Product
  <2> QED
    BY Zenon, <2>1, <2>2, <2>3
<1>3. S \in SUBSET ({k} \X (1..Turns))
  BY DEF Incidents, Key
<1>4. IsFiniteSet(S) /\ Cardinality(S) <= Cardinality({k} \X (1..Turns))
  BY <1>2, <1>3, FS_Subset
<1>5. Cardinality(S) \in Nat
  BY <1>4, FS_CardinalityType
<1> QED
  BY <1>2, <1>4, <1>5, PipelineAssumption

(* The incident worker counts one incident and records it: either it ends   *)
(* too, or a fault has interrupted it.                                      *)
LEMMA CountingIsPaidFor ==
    ASSUME PipelineInv, NEW i \in Incidents, ~Ended(i),
           recorded' = recorded \cup {i},
           faults' \in Nat, faults <= faults',
           faults' = faults + 1
              \/ (tracker' = [tracker EXCEPT ![Key(i)] = Counted(i)] /\ terminal' # terminal),
           tracker' = [tracker EXCEPT ![Key(i)] = Counted(i)] \/ tracker' = Rebuilt,
           terminal' = terminal \/ \E end \in {"ESCALATED", "RESOLVED"} :
                                      terminal' = [terminal EXCEPT ![i] = end]
    PROVE  PaidFor' /\ tracker' \in [Sessions -> Nat]
<1>1. /\ tracker \in [Sessions -> 0..(Turns + MaxFaults)] /\ PaidFor
      /\ terminal \in [Incidents -> States] /\ terminal[i] = "NONE"
      /\ Key(i) \in Sessions
  BY DEF PipelineInv, TypeOK, Ended, Incidents, Key
<1>2. PICK f, g : f = faults /\ g = faults'
  OBVIOUS
<1>3. f \in Nat /\ g \in Nat /\ f <= g
  BY <1>2, FaultsCount DEF PipelineInv, TypeOK
<1>4. ASSUME NEW k \in Sessions
      PROVE  /\ tracker'[k] \in Nat
             /\ tracker'[k] <= Cardinality(EndedOf(k)') + faults'
             /\ Cardinality(RecordedOf(k)') <= Cardinality(EndedOf(k)') + faults'
  <2>1. PICK E, R, E2, R2 : /\ E = EndedOf(k) /\ E2 = EndedOf(k)'
                            /\ R = {j \in Incidents : j \in recorded /\ Key(j) = k}
                            /\ R2 = {j \in Incidents : j \in recorded' /\ Key(j) = k}
    OBVIOUS
  <2>2. R = RecordedOf(k) /\ R2 = RecordedOf(k)'
    BY <2>1 DEF RecordedOf, PipelineInv, TypeOK
  <2>3. /\ \A j \in E : j \in Incidents /\ Key(j) = k
        /\ \A j \in E2 : j \in Incidents /\ Key(j) = k
        /\ \A j \in R : j \in Incidents /\ Key(j) = k
        /\ \A j \in R2 : j \in Incidents /\ Key(j) = k
    BY <2>1 DEF EndedOf
  <2>4. /\ IsFiniteSet(E) /\ Cardinality(E) \in Nat
        /\ IsFiniteSet(E2) /\ Cardinality(E2) \in Nat
        /\ IsFiniteSet(R) /\ Cardinality(R) \in Nat
        /\ IsFiniteSet(R2) /\ Cardinality(R2) \in Nat
    BY <2>3, OfOneSession
  <2>5. /\ i \notin E
        /\ Key(i) = k => R2 = R \cup {i}
        /\ Key(i) # k => R2 = R
        /\ terminal' # terminal /\ Key(i) = k => E2 = E \cup {i}
        /\ terminal' # terminal /\ Key(i) # k => E2 = E
        /\ terminal' = terminal => E2 = E
    <3>1. /\ Key(i) = k => R2 = R \cup {i}
          /\ Key(i) # k => R2 = R
      BY <2>1
    <3>2. i \notin E
      BY <1>1, <2>1 DEF EndedOf, Ended
    <3>3. CASE terminal' = terminal
      BY <2>1, <3>1, <3>2, <3>3 DEF EndedOf, Ended
    <3>4. CASE terminal' # terminal
      <4>1. /\ terminal'[i] # "NONE"
            /\ \A j \in Incidents : j # i => terminal'[j] = terminal[j]
        BY <1>1, <3>4
      <4>2. /\ Key(i) = k => E2 = E \cup {i}
            /\ Key(i) # k => E2 = E
        BY <2>1, <4>1 DEF EndedOf, Ended
      <4> QED
        BY <3>1, <3>2, <3>4, <4>2
    <3> QED
      BY <3>3, <3>4
  <2>6. /\ Cardinality(E \cup {i}) = Cardinality(E) + 1
        /\ Cardinality(R \cup {i}) \in Nat /\ Cardinality(R \cup {i}) <= Cardinality(R) + 1
    <3>1. Cardinality(E \cup {i}) = Cardinality(E) + 1
      BY <2>4, <2>5, FS_AddElement
    <3>2. Cardinality(R \cup {i}) = IF i \in R THEN Cardinality(R) ELSE Cardinality(R) + 1
      BY <2>4, FS_AddElement
    <3> QED
      BY <2>4, <3>1, <3>2
  <2>7. PICK e, e2, r, r2, n, n2 :
           /\ e = Cardinality(E) /\ e2 = Cardinality(E2)
           /\ r = Cardinality(R) /\ r2 = Cardinality(R2)
           /\ n = tracker[k] /\ n2 = tracker'[k]
    OBVIOUS
  <2>8. /\ e \in Nat /\ e2 \in Nat /\ r \in Nat /\ r2 \in Nat /\ n \in Nat
        /\ n <= e + f /\ r <= e + f
    BY <1>1, <1>2, <2>1, <2>2, <2>4, <2>7, PipelineAssumption DEF PaidFor
  <2>9. /\ Key(i) = k => r2 <= r + 1
        /\ Key(i) # k => r2 = r
        /\ terminal' # terminal /\ Key(i) = k => e2 = e + 1
        /\ (terminal' = terminal \/ Key(i) # k) => e2 = e
    BY <2>5, <2>6, <2>7
  <2>10. \/ n2 = n /\ Key(i) # k
         \/ n2 = n + 1 /\ Key(i) = k
         \/ n2 = r2 /\ tracker' = Rebuilt
    <3>1. CASE tracker' = [tracker EXCEPT ![Key(i)] = Counted(i)]
      BY <1>1, <2>7, <3>1 DEF Counted
    <3>2. CASE tracker' = Rebuilt
      <4>1. tracker'[k] = Cardinality(RecordedOf(k)')
        BY <3>2 DEF Rebuilt, RecordedOf
      <4> QED
        BY <2>2, <2>7, <3>2, <4>1
    <3> QED
      BY <3>1, <3>2
  <2>11. g = f + 1 \/ (n2 = n /\ Key(i) # k) \/ (n2 = n + 1 /\ Key(i) = k /\ terminal' # terminal)
    BY <1>1, <1>2, <2>7 DEF Counted
  <2>12. n2 \in Nat /\ n2 <= e2 + g /\ r2 <= e2 + g
    <3>1. e2 = e \/ e2 = e + 1
      BY <2>9
    <3>2. r2 <= r + 1
      BY <2>8, <2>9
    <3>3. CASE g = f + 1
      BY <1>3, <2>8, <2>10, <3>1, <3>2, <3>3
    <3>4. CASE n2 = n /\ Key(i) # k
      <4>1. r2 = r /\ e2 = e
        BY <2>9, <3>4
      <4> QED
        BY <1>3, <2>8, <3>4, <4>1
    <3>5. CASE n2 = n + 1 /\ Key(i) = k /\ terminal' # terminal
      <4>1. e2 = e + 1
        BY <2>9, <3>5
      <4> QED
        BY <1>3, <2>8, <3>2, <3>5, <4>1
    <3> QED
      BY <2>11, <3>3, <3>4, <3>5
  <2> QED
    BY <1>2, <2>1, <2>2, <2>7, <2>12
<1>5. tracker' = [k \in Sessions |-> tracker'[k]]
  BY <1>1 DEF Rebuilt
<1>6. tracker' \in [Sessions -> Nat]
  BY <1>4, <1>5
<1> QED
  BY <1>4, <1>6 DEF PaidFor

(* A restarted worker counts what the store holds. *)
LEMMA RebuildingIsPaidFor ==
    ASSUME PipelineInv, Restart, faults' = faults + 1
    PROVE  PaidFor' /\ tracker' \in [Sessions -> Nat]
<1>1. /\ PaidFor /\ UNCHANGED <<recorded, terminal>>
      /\ tracker' = Rebuilt
  BY DEF PipelineInv, Restart
<1>2. PICK f : f = faults
  OBVIOUS
<1>3. f \in Nat
  BY <1>2, FaultsCount DEF PipelineInv, TypeOK
<1>4. ASSUME NEW k \in Sessions
      PROVE  /\ tracker'[k] \in Nat
             /\ tracker'[k] <= Cardinality(EndedOf(k)') + faults'
             /\ Cardinality(RecordedOf(k)') <= Cardinality(EndedOf(k)') + faults'
  <2>1. /\ EndedOf(k)' = EndedOf(k) /\ RecordedOf(k)' = RecordedOf(k)
        /\ tracker'[k] = Cardinality(RecordedOf(k))
    BY <1>1 DEF EndedOf, RecordedOf, Ended, Rebuilt
  <2>2. PICK e, r : e = Cardinality(EndedOf(k)) /\ r = Cardinality(RecordedOf(k))
    OBVIOUS
  <2>3. e \in Nat /\ r \in Nat
    <3>1. /\ \A j \in EndedOf(k) : j \in Incidents /\ Key(j) = k
          /\ \A j \in RecordedOf(k) : j \in Incidents /\ Key(j) = k
      BY DEF EndedOf, RecordedOf, PipelineInv, TypeOK
    <3> QED
      BY <2>2, <3>1, OfOneSession
  <2>4. r <= e + f
    BY <1>1, <1>2, <2>2 DEF PaidFor
  <2>5. r <= e + (f + 1)
    BY <1>3, <2>3, <2>4
  <2> QED
    BY <1>2, <2>1, <2>2, <2>3, <2>5
<1>5. tracker' \in [Sessions -> Nat]
  BY <1>1, <1>4 DEF Rebuilt
<1> QED
  BY <1>4, <1>5 DEF PaidFor

LEMMA NothingToPay ==
    ASSUME PipelineInv, UNCHANGED manager, faults' \in Nat, faults <= faults'
    PROVE  PaidFor'
<1>1. PaidFor /\ UNCHANGED <<recorded, terminal, tracker>>
  BY DEF PipelineInv, manager
<1>2. PICK f, g : f = faults /\ g = faults'
  OBVIOUS
<1>3. f \in Nat /\ g \in Nat /\ f <= g
  BY <1>2, FaultsCount DEF PipelineInv, TypeOK
<1>4. ASSUME NEW k \in Sessions
      PROVE  /\ tracker'[k] <= Cardinality(EndedOf(k)') + faults'
             /\ Cardinality(RecordedOf(k)') <= Cardinality(EndedOf(k)') + faults'
  <2>1. EndedOf(k)' = EndedOf(k) /\ RecordedOf(k)' = RecordedOf(k) /\ tracker'[k] = tracker[k]
    BY <1>1 DEF EndedOf, RecordedOf, Ended
  <2>2. PICK e, r, n : e = Cardinality(EndedOf(k)) /\ r = Cardinality(RecordedOf(k)) /\ n = tracker[k]
    OBVIOUS
  <2>3. e \in Nat /\ r \in Nat
    <3>1. /\ \A j \in EndedOf(k) : j \in Incidents /\ Key(j) = k
          /\ \A j \in RecordedOf(k) : j \in Incidents /\ Key(j) = k
      BY DEF EndedOf, RecordedOf, PipelineInv, TypeOK
    <3> QED
      BY <2>2, <3>1, OfOneSession
  <2>4. n \in Nat
    BY <2>2, PipelineAssumption DEF PipelineInv, TypeOK
  <2>5. n <= e + f /\ r <= e + f
    BY <1>1, <1>2, <2>2 DEF PaidFor
  <2>6. n <= e + g /\ r <= e + g
    BY <1>3, <2>3, <2>4, <2>5
  <2> QED
    BY <1>2, <2>1, <2>2, <2>6
<1> QED
  BY <1>4 DEF PaidFor

(* What a session's counter may have come to. *)
LEMMA TrackerIsBounded ==
    PaidFor /\ faults \in 0..MaxFaults /\ tracker \in [Sessions -> Nat]
        => tracker \in [Sessions -> 0..(Turns + MaxFaults)]
<1> SUFFICES ASSUME PaidFor, faults \in 0..MaxFaults, tracker \in [Sessions -> Nat]
             PROVE  tracker \in [Sessions -> 0..(Turns + MaxFaults)]
  OBVIOUS
<1>1. ASSUME NEW k \in Sessions PROVE tracker[k] \in 0..(Turns + MaxFaults)
  <2>1. PICK e : e = Cardinality(EndedOf(k))
    OBVIOUS
  <2>2. \A j \in EndedOf(k) : j \in Incidents /\ Key(j) = k
    BY DEF EndedOf
  <2>3. e \in Nat /\ e <= Turns
    BY <2>1, <2>2, OfOneSession
  <2>4. tracker[k] \in Nat /\ tracker[k] <= e + faults
    BY <2>1 DEF PaidFor
  <2> QED
    BY <2>3, <2>4, PipelineAssumption
<1> QED
  BY <1>1

(* An incident that has not been ingested has no message anywhere. *)
LEMMA NotIngestedYet ==
    ASSUME PipelineInv, NEW k \in Sessions, More(k)
    PROVE  LET i == <<k, run[k] + 1>>
           IN  /\ i \in Incidents
               /\ \A t \in Stages : Copies(t, i) = {} /\ Waiting(t, i) = {}
<1> DEFINE i == <<k, run[k] + 1>>
<1>1. Shape /\ Traced /\ NotYetIngested
  BY DEF PipelineInv, LedgerInv, ListenerInv
<1>2. /\ run[k] + 1 \in 1..Turns /\ ~(run[k] + 1 <= run[k]) /\ k \notin aborted
  BY <1>1, PipelineAssumption DEF Shape, More
<1>3. i \in Incidents /\ i \notin With(1, accepted)
  BY <1>1, <1>2 DEF NotYetIngested, Incidents
<1> HIDE DEF i
<1>4. \A t \in Stages : \A m \in accepted[t] : m.incident # i
  BY <1>1, <1>3 DEF Traced
<1>5. \A t \in Stages : Copies(t, i) = {}
  BY <1>4 DEF Copies
<1>6. ASSUME NEW t \in Stages, NEW p \in Waiting(t, i) PROVE FALSE
  <2>1. p[1] \in Stages /\ p[2] \in accepted[p[1]] /\ p[2].incident = i
    BY <1>6 DEF Waiting
  <2> QED
    BY <1>4, <2>1
<1> QED
  BY <1>3, <1>5, <1>6 DEF i

LEMMA PipelineInit == Init => PipelineInv
<1> SUFFICES ASSUME Init PROVE PipelineInv
  OBVIOUS
<1>1. LedgerInv
  BY ListenerInit, AccountedInit DEF LedgerInv
<1>2. TypeOK
  <2>1. 0 \in 0..Turns /\ 0 \in 0..(Turns + MaxFaults) /\ 0 \in 0..MaxFaults
    BY PipelineAssumption
  <2>2. updates \in Seq(Update)
    BY DEF Init
  <2> QED
    BY <2>1, <2>2 DEF Init, TypeOK, States
<1>3. \A t \in Stages, i \in Incidents : Copies(t, i) = {} /\ Waiting(t, i) = {}
  <2>1. \A t \in Stages : accepted[t] = {}
    BY DEF Init
  <2> QED
    BY <2>1 DEF Copies, Waiting
<1>4. Bounded
  <2>1. IsFiniteSet({}) /\ Cardinality({}) = 0 /\ 0 + 0 <= 1 + 0 /\ faults = 0
    BY FS_EmptySet DEF Init
  <2> QED
    BY <1>3, <2>1 DEF Bounded
<1>5. Numbered
  BY <1>3 DEF Numbered
<1>6. NotYetIngested
  BY StageNumbers DEF Init, NotYetIngested, With
<1>7. PaidFor
  <2>1. ASSUME NEW k \in Sessions
        PROVE  /\ tracker[k] = 0 /\ faults = 0
               /\ Cardinality(EndedOf(k)) = 0 /\ Cardinality(RecordedOf(k)) = 0
    <3>1. EndedOf(k) = {} /\ RecordedOf(k) = {}
      BY DEF Init, EndedOf, RecordedOf, Ended
    <3> QED
      BY <3>1, FS_EmptySet DEF Init
  <2> QED
    BY <2>1 DEF PaidFor
<1> QED
  BY <1>1, <1>2, <1>4, <1>5, <1>6, <1>7 DEF PipelineInv

LEMMA PipelineNext == PipelineInv /\ [Next]_vars => PipelineInv'
<1> SUFFICES ASSUME PipelineInv, [Next]_vars
             PROVE  PipelineInv'
  OBVIOUS
<1>1. /\ LedgerInv /\ TypeOK /\ NotYetIngested
      /\ Shape /\ Traced /\ Accounted
  BY DEF PipelineInv, LedgerInv, ListenerInv
<1>2. LedgerInv'
  BY <1>1, ListenerNext, AccountedNext DEF LedgerInv
<1>3. /\ Shape' /\ Accounted' /\ Endings'
  BY <1>2 DEF LedgerInv, ListenerInv
<1>4. faults \in 0..MaxFaults /\ faults \in Nat
  BY <1>1, FaultsCount DEF TypeOK
<1>5. Fault => faults' \in 0..MaxFaults /\ faults' = faults + 1 /\ faults' \in Nat /\ faults <= faults'
  BY <1>4, FaultsCount, PipelineAssumption
<1>6. UNCHANGED faults => faults' \in 0..MaxFaults /\ faults' \in Nat /\ faults <= faults'
  BY <1>4
<1>7. ASSUME aborted' \in SUBSET Sessions, accepted' \in [Stages -> SUBSET Messages],
             recorded' \in SUBSET Incidents, tracker' \in [Sessions -> 0..(Turns + MaxFaults)],
             interrupted' \in SUBSET Incidents, faults' \in 0..MaxFaults
      PROVE  TypeOK'
  BY <1>3, <1>7 DEF Shape, Accounted, Endings, TypeOK
<1>8. ASSUME With(1, accepted)' = With(1, accepted), UNCHANGED <<run, aborted>>
      PROVE  NotYetIngested'
  BY <1>1, <1>8 DEF NotYetIngested
<1>9. UNCHANGED accepted => With(1, accepted)' = With(1, accepted)
  BY DEF With
<1>10. ASSUME NEW k \in Sessions, Turn(k) \/ Abort(k) PROVE PipelineInv'
  <2> DEFINE i == <<k, run[k] + 1>>
             f == Fresh(1, i, FALSE)
  <2>1. /\ More(k) /\ 1 \in Stages
        /\ UNCHANGED <<produced, completed, givenUp, manager, updates, interrupted>>
        /\ UNCHANGED accepted \/ accepted' = [accepted EXCEPT ![1] = @ \cup {f}]
        /\ faults' \in 0..MaxFaults /\ faults' \in Nat /\ faults <= faults'
    BY <1>5, <1>6, <1>10, StageNumbers DEF Turn, Abort
  <2>2. /\ i \in Incidents
        /\ \A t \in Stages : Copies(t, i) = {} /\ Waiting(t, i) = {}
    BY <2>1, NotIngestedYet
  <2>3. f.incident = i
    BY DEF Fresh
  <2>4. run' \in [Sessions -> 0..Turns] /\ aborted' \in SUBSET Sessions
    BY <1>1, <1>3, <1>10 DEF Shape, TypeOK, Turn, Abort
  <2>5. ASSUME NEW q \in Sessions, NEW n \in 1..Turns, <<q, n>> \in With(1, accepted)'
        PROVE  n <= run'[q] \/ q \in aborted'
    <3>1. <<q, n>> \in With(1, accepted) \/ <<q, n>> = i
      <4>1. CASE UNCHANGED accepted
        BY <1>9, <2>5, <4>1
      <4>2. CASE accepted' = [accepted EXCEPT ![1] = @ \cup {f}]
        BY <1>1, <2>1, <2>3, <2>5, <4>2 DEF With, Shape
      <4> QED
        BY <2>1, <4>1, <4>2
    <3>2. CASE <<q, n>> \in With(1, accepted)
      <4>1. n <= run[q] \/ q \in aborted
        BY <1>1, <3>2 DEF NotYetIngested
      <4>2. CASE Turn(k)
        <5>1. run[q] \in Nat /\ run'[q] \in {run[q], run[q] + 1} /\ aborted' = aborted
          BY <1>1, <4>2, PipelineAssumption DEF Turn, Shape
        <5> QED
          BY <4>1, <5>1
      <4>3. CASE Abort(k)
        BY <4>1, <4>3 DEF Abort
      <4> QED
        BY <1>10, <4>2, <4>3
    <3>3. CASE <<q, n>> = i
      <4>1. q = k /\ n = run[k] + 1
        BY <3>3
      <4>2. CASE Turn(k)
        <5>1. run'[k] = run[k] + 1 /\ run[k] \in Nat
          BY <1>1, <4>2, PipelineAssumption DEF Turn, Shape
        <5> QED
          BY <4>1, <5>1
      <4>3. CASE Abort(k)
        BY <4>1, <4>3 DEF Abort
      <4> QED
        BY <1>10, <4>2, <4>3
    <3> QED
      BY <3>1, <3>2, <3>3
  <2>6. NotYetIngested'
    BY <2>5 DEF NotYetIngested
  <2> HIDE DEF i
  <2>7. Bounded' /\ Numbered' /\ accepted' \in [Stages -> SUBSET Messages]
    <3>1. \A t \in Stages : produced[t] \subseteq produced'[t]
      BY <2>1
    <3>2. CASE UNCHANGED accepted
      BY <1>1, <2>1, <3>1, <3>2, NothingArrives DEF TypeOK
    <3>3. CASE accepted' = [accepted EXCEPT ![1] = @ \cup {f}]
      <4>1. PICK m : m = f
        OBVIOUS
      <4>2. m.incident = i /\ accepted' = [accepted EXCEPT ![1] = @ \cup {m}]
        BY <2>3, <3>3, <4>1
      <4>3. Bounded'
        BY <2>1, <2>2, <3>1, <4>2, ArrivalIsBounded
      <4>4. m = Fresh(1, i, FALSE) /\ FALSE \in BOOLEAN
        BY <4>1
      <4> HIDE DEF f
      <4> QED
        BY <2>1, <2>2, <3>1, <4>2, <4>3, <4>4, FreshIsNew
    <3> QED
      BY <2>1, <3>2, <3>3
  <2>8. PaidFor'
    BY <2>1, NothingToPay
  <2>9. TypeOK'
    BY <1>1, <1>7, <2>1, <2>4, <2>7 DEF TypeOK, manager
  <2> QED
    BY <1>2, <2>6, <2>7, <2>8, <2>9 DEF PipelineInv
<1>11. ASSUME NEW s \in Stages, NEW m \in accepted[s], Produce(s, m) PROVE PipelineInv'
  <2>1. PICK severe \in Results(s, m) :
           accepted' = [accepted EXCEPT ![s + 1] = @ \cup {Fresh(s + 1, m.incident, severe)}]
    BY <1>11 DEF Produce
  <2>2. PICK i, f : i = m.incident /\ f = Fresh(s + 1, i, severe)
    OBVIOUS
  <2>3. /\ accepted' = [accepted EXCEPT ![s + 1] = @ \cup {f}]
        /\ f.incident = i
    BY <2>1, <2>2 DEF Fresh
  <2>4. /\ s + 1 \in Stages /\ s + 1 # 1 /\ i \in Incidents /\ i \in With(1, accepted)
        /\ m \in Messages /\ severe \in BOOLEAN
    <3>1. m \in Messages
      BY <1>1, <1>11 DEF TypeOK
    <3>2. i \in Incidents /\ i \in With(1, accepted)
      BY <1>1, <1>11, <2>2 DEF Traced
    <3>3. severe \in BOOLEAN
      BY <2>1, <3>1 DEF Results, Messages
    <3> QED
      BY <1>11, <3>1, <3>2, <3>3, StageNumbers DEF Produce
  <2>5. /\ produced'[s] = produced[s] \cup {m}
        /\ \A t \in Stages : produced[t] \subseteq produced'[t]
        /\ UNCHANGED <<engine, completed, givenUp, manager, updates, interrupted>>
    BY <1>1, <1>11 DEF Produce, Shape
  <2>6. /\ faults' \in 0..MaxFaults /\ faults' \in Nat /\ faults <= faults'
        /\ m \in produced[s] => faults' = faults + 1
    BY <1>5, <1>6, <1>11 DEF Produce, Repeats
  <2>7. m \notin produced[s] =>
           \A t \in Stages : ~(t < s + 1) =>
              <<s, m>> \in Waiting(t, i) /\ <<s, m>> \notin Waiting(t, i)'
    <3>1. SUFFICES ASSUME m \notin produced[s], NEW t \in Stages, ~(t < s + 1)
                   PROVE  <<s, m>> \in Waiting(t, i) /\ <<s, m>> \notin Waiting(t, i)'
      OBVIOUS
    <3>2. s < t
      BY <3>1 DEF Stages
    <3>3. <<s, m>> \in Waiting(t, i)
      BY <1>11, <2>2, <2>4, <3>1, <3>2 DEF Waiting
    <3>4. <<s, m>> \notin Waiting(t, i)'
      BY <2>5 DEF Waiting
    <3> QED
      BY <3>3, <3>4
  <2>8. Bounded'
    <3>1. \/ faults' = faults + 1
          \/ \E p : \A t \in Stages :
                ~(t < s + 1) => p \in Waiting(t, i) /\ p \notin Waiting(t, i)'
      BY <2>6, <2>7
    <3> QED
      BY <2>3, <2>4, <2>5, <2>6, <3>1, ArrivalIsBounded
  <2>9. Numbered' /\ accepted' \in [Stages -> SUBSET Messages]
    BY <2>2, <2>3, <2>4, <2>5, <2>6, <2>8, FreshIsNew
  <2>10. NotYetIngested'
    <3>1. With(1, accepted)' = With(1, accepted)
      BY <1>1, <2>3, <2>4, StreamGrows
    <3> QED
      BY <1>8, <2>5, <3>1 DEF engine
  <2>11. PaidFor'
    BY <2>5, <2>6, NothingToPay
  <2>12. TypeOK'
    BY <1>1, <1>7, <2>5, <2>6, <2>9 DEF TypeOK, engine, manager
  <2> QED
    BY <1>2, <2>8, <2>9, <2>10, <2>11, <2>12 DEF PipelineInv
<1>12. ASSUME \/ \E s \in Stages : \E m \in accepted[s] : Complete(s, m) \/ GiveUp(s, m)
              \/ UNCHANGED vars
       PROVE  PipelineInv'
  <2>1. /\ UNCHANGED <<engine, accepted, produced, manager, interrupted>>
        /\ faults' \in 0..MaxFaults /\ faults' \in Nat /\ faults <= faults'
    BY <1>5, <1>6, <1>12 DEF Complete, GiveUp, vars, ledger
  <2>2. Bounded' /\ Numbered'
    BY <2>1, NothingArrives
  <2>3. NotYetIngested'
    BY <1>8, <1>9, <2>1 DEF engine
  <2>4. PaidFor'
    BY <2>1, NothingToPay
  <2>5. TypeOK'
    BY <1>1, <1>7, <2>1 DEF TypeOK, engine, manager
  <2> QED
    BY <1>2, <2>2, <2>3, <2>4, <2>5 DEF PipelineInv
<1>13. ASSUME NEW m \in accepted[Last], HandleIncident(m) \/ Interrupt(m) PROVE PipelineInv'
  <2>1. PICK i : i = m.incident
    OBVIOUS
  <2>2. i \in Incidents
    BY <1>1, <2>1, StageNumbers DEF Traced
  <2>3. /\ UNCHANGED <<engine, accepted>>
        /\ \A t \in Stages : produced[t] \subseteq produced'[t]
        /\ faults' \in 0..MaxFaults /\ faults' \in Nat /\ faults <= faults'
    BY <1>1, <1>5, <1>6, <1>13, StageNumbers DEF HandleIncident, Interrupt, Repeats, ledger, Shape
  <2>4. Bounded' /\ Numbered'
    BY <2>3, NothingArrives
  <2>5. NotYetIngested'
    BY <1>8, <1>9, <2>3 DEF engine
  <2>6. interrupted' \in SUBSET Incidents
    BY <1>1, <1>13, <2>1, <2>2 DEF TypeOK, HandleIncident, Interrupt
  <2>7. CASE HandleIncident(m) /\ SkipEnded(m)
    <3>1. UNCHANGED manager
      BY <2>7 DEF SkipEnded
    <3>2. PaidFor'
      BY <2>3, <3>1, NothingToPay
    <3>3. TypeOK'
      BY <1>1, <1>7, <2>3, <2>6, <3>1 DEF TypeOK, engine, manager
    <3> QED
      BY <1>2, <2>4, <2>5, <3>2, <3>3 DEF PipelineInv
  <2>8. CASE (HandleIncident(m) /\ Settle(m)) \/ Interrupt(m)
    <3>1. /\ ~Ended(i)
          /\ recorded' = recorded \cup {i}
          /\ tracker' = [tracker EXCEPT ![Key(i)] = Counted(i)] \/ tracker' = Rebuilt
      BY <2>1, <2>8 DEF Settle, Record, Interrupt
    <3>2. terminal' = terminal \/ \E end \in {"ESCALATED", "RESOLVED"} :
                                      terminal' = [terminal EXCEPT ![i] = end]
      BY <2>1, <2>8, OutcomeIsFinal DEF Settle, Record, Interrupt
    <3>3. \/ faults' = faults + 1
          \/ tracker' = [tracker EXCEPT ![Key(i)] = Counted(i)] /\ terminal' # terminal
      <4>1. CASE Interrupt(m)
        BY <1>5, <4>1 DEF Interrupt
      <4>2. CASE Settle(m)
        <5>1. /\ tracker' = [tracker EXCEPT ![Key(i)] = Counted(i)]
              /\ terminal' = [terminal EXCEPT ![i] = Outcome(m, Counted(i))]
              /\ terminal[i] = "NONE"
          BY <2>1, <4>2 DEF Settle, Record, Ended
        <5>2. terminal'[i] # terminal[i]
          BY <1>1, <2>2, <5>1, OutcomeIsFinal DEF Shape
        <5> QED
          BY <5>1, <5>2
      <4> QED
        BY <2>8, <4>1, <4>2
    <3>4. PaidFor' /\ tracker' \in [Sessions -> Nat]
      BY <2>2, <2>3, <3>1, <3>2, <3>3, CountingIsPaidFor
    <3>5. tracker' \in [Sessions -> 0..(Turns + MaxFaults)]
      <4>1. (PaidFor /\ faults \in 0..MaxFaults /\ tracker \in [Sessions -> Nat]
                => tracker \in [Sessions -> 0..(Turns + MaxFaults)])'
        BY TrackerIsBounded, PTL
      <4> QED
        BY <2>3, <3>4, <4>1
    <3>6. TypeOK'
      BY <1>1, <1>7, <2>2, <2>3, <2>6, <3>1, <3>5 DEF TypeOK, engine
    <3> QED
      BY <1>2, <2>4, <2>5, <3>4, <3>6 DEF PipelineInv
  <2> QED
    BY <1>13, <2>7, <2>8 DEF HandleIncident
<1>14. ASSUME Restart PROVE PipelineInv'
  <2>1. /\ UNCHANGED <<engine, accepted, produced, recorded, interrupted>>
        /\ faults' \in 0..MaxFaults /\ faults' = faults + 1
        /\ faults' \in Nat /\ faults <= faults'
    BY <1>5, <1>14 DEF Restart, ledger
  <2>2. Bounded' /\ Numbered'
    BY <2>1, NothingArrives
  <2>3. NotYetIngested'
    BY <1>8, <1>9, <2>1 DEF engine
  <2>4. PaidFor' /\ tracker' \in [Sessions -> Nat]
    BY <1>14, <2>1, RebuildingIsPaidFor
  <2>5. tracker' \in [Sessions -> 0..(Turns + MaxFaults)]
    <3>1. (PaidFor /\ faults \in 0..MaxFaults /\ tracker \in [Sessions -> Nat]
              => tracker \in [Sessions -> 0..(Turns + MaxFaults)])'
      BY TrackerIsBounded, PTL
    <3> QED
      BY <2>1, <2>4, <3>1
  <2>6. TypeOK'
    BY <1>1, <1>7, <2>1, <2>5 DEF TypeOK, engine
  <2> QED
    BY <1>2, <2>2, <2>3, <2>4, <2>6 DEF PipelineInv
<1> QED
  BY <1>10, <1>11, <1>12, <1>13, <1>14 DEF Next, Work

(* The pipeline's variables keep their types, for any number of stages,    *)
(* sessions, turns and faults: however often stages repeat results, no     *)
(* stream carries more than one message beyond the faults about a turn,    *)
(* and no session counts more incidents than it has turns and faults.      *)
THEOREM PipelineTypeCorrect == Safety => []TypeOK
<1>1. Safety => []PipelineInv
  BY PipelineInit, PipelineNext, PTL DEF Safety
<1>2. PipelineInv => TypeOK
  BY DEF PipelineInv
<1> QED
  BY <1>1, <1>2, PTL
=============================================================================
