------------------------- MODULE StreamWorkerProofs -------------------------
(***************************************************************************)
(* Proofs about one stage of the pipeline, for every set of events and of  *)
(* processes, every retry limit, batch size and number of faults.          *)
(***************************************************************************)
EXTENDS StreamWorker, FiniteSetTheorems, TLAPS

(* A COUNT argument takes a prefix: an interval's first members have no    *)
(* gap, so XREADGROUP skips no entry.                                      *)
LEMMA FirstOfInterval ==
    ASSUME NEW a \in Nat, NEW b \in Nat, NEW n \in Nat,
           NEW i \in First(a..b, n), NEW j \in a..b, j <= i
    PROVE  j \in First(a..b, n)
<1> DEFINE UpTo(k) == {m \in a..b : m <= k}
<1>1. IsFiniteSet(a..b)
  BY FS_Interval
<1>2. UpTo(j) \subseteq UpTo(i) /\ UpTo(i) \subseteq a..b
  BY DEF First
<1>3. IsFiniteSet(UpTo(i))
  BY <1>1, <1>2, FS_Subset
<1>4. /\ Cardinality(UpTo(j)) <= Cardinality(UpTo(i))
      /\ IsFiniteSet(UpTo(j))
  BY <1>2, <1>3, FS_Subset
<1>5. Cardinality(UpTo(i)) <= n
  BY DEF First
<1>6. Cardinality(UpTo(i)) \in Nat /\ Cardinality(UpTo(j)) \in Nat
  BY <1>3, <1>4, FS_CardinalityType
<1>7. Cardinality(UpTo(j)) <= n
  <2> HIDE DEF UpTo
  <2> QED BY <1>4, <1>5, <1>6
<1> QED
  BY <1>7 DEF First
-----------------------------------------------------------------------------
(* Type correctness *)

(* What the control state says of the entry in hand: a process working on  *)
(* an entry has it in its batch.                                           *)
Busy == {"duplicate", "handle", "publish", "mark", "ack", "failed",
         "superseded", "buried"}
HoldsEntry == \A c \in Consumers : pc[c] \in Busy => entry[c] \in batch[c]

TypeInv == TypeOK /\ HoldsEntry

(* Every step of a process keeps the types, whatever it finds in Redis. *)
LEMMA TypeStep ==
    ASSUME TypeInv, NEW c \in Consumers, Step(c)
    PROVE  TypeInv'
<1> USE Assumption DEF TypeInv, TypeOK, HoldsEntry, Busy, PC, ScanOver, Goto,
        redis, effects, local
<1>1. CASE Recover(c)
  <2> DEFINE page == First({i \in idle : i > cursor[c]}, ClaimBatch)
  <2>1. page \subseteq 1..delivered
    BY DEF First
  <2>2. CASE page = {}
    <3>1. /\ cursor' = [cursor EXCEPT ![c] = 0]
          /\ pc' = [pc EXCEPT ![c] = "read"]
          /\ UNCHANGED <<idle, batch, stolen>>
      BY <1>1, <2>2 DEF Recover
    <3>2. UNCHANGED <<stream, delivered, pending, processed, output, deadLetter,
                      entry, faults>>
      BY <1>1 DEF Recover
    <3> HIDE DEF page
    <3> QED
      BY <3>1, <3>2
  <2>3. CASE page # {}
    <3>1. PICK last \in page :
             /\ idle' = idle \ page
             /\ batch' = [batch EXCEPT ![c] = page]
             /\ cursor' = [cursor EXCEPT ![c] =
                              IF \E j \in pending : j > last THEN last ELSE ScanOver]
             /\ stolen' = stolen \cup
                   {p \in page \X {c} : \E d \in Consumers \ {c} : p[1] \in batch[d]}
             /\ pc' = [pc EXCEPT ![c] = "check"]
      BY <1>1, <2>3 DEF Recover
    <3>2. UNCHANGED <<stream, delivered, pending, processed, output, deadLetter,
                      entry, faults>> /\ pc[c] = "recover"
      BY <1>1 DEF Recover
    <3> HIDE DEF page
    <3>3. stolen' \subseteq (1..delivered) \X Consumers
      BY <2>1, <3>1
    <3>4. last \in Nat
      BY <2>1
    <3> QED
      BY <2>1, <3>1, <3>2, <3>3, <3>4
  <2> QED
    BY <2>2, <2>3
<1>2. CASE Read(c)
  <2> DEFINE fetched == First((delivered + 1)..Len(stream), BatchSize)
  <2>1. fetched \subseteq (delivered + 1)..Len(stream)
    BY DEF First
  <2>2. CASE fetched = {}
    BY <1>2, <2>2 DEF Read
  <2>3. CASE fetched # {}
    <3>1. PICK last \in fetched :
             /\ \A i \in fetched : i <= last
             /\ delivered' = last
             /\ pending' = pending \cup fetched
             /\ batch' = [batch EXCEPT ![c] = fetched]
             /\ pc' = [pc EXCEPT ![c] = "check"]
      BY <1>2, <2>3 DEF Read
    <3>2. UNCHANGED <<stream, idle, processed, output, deadLetter, entry, faults, stolen>>
          /\ pc[c] = "read" /\ cursor' = [cursor EXCEPT ![c] = 0]
      BY <1>2 DEF Read
    <3> HIDE DEF fetched
    <3>3. last \in (delivered + 1)..Len(stream) /\ delivered \in Nat /\ Len(stream) \in Nat
      BY <2>1
    <3>4. fetched \subseteq 1..last
      BY <2>1, <3>1, <3>3
    <3>5. 1..delivered \subseteq 1..last /\ 0..delivered \subseteq 0..last
      BY <3>3
    <3>6. stolen' \subseteq (1..delivered') \X Consumers
      BY <3>1, <3>2, <3>5
    <3>7. batch' \in [Consumers -> SUBSET (1..delivered')]
      BY <3>1, <3>4, <3>5
    <3>8. entry' \in [Consumers -> 0..delivered']
      BY <3>1, <3>2, <3>5
    <3>9. HoldsEntry'
      BY <3>1, <3>2
    <3>10. pending' \subseteq 1..delivered' /\ idle' \subseteq pending'
      BY <3>1, <3>2, <3>4, <3>5
    <3> QED
      BY <3>1, <3>2, <3>3, <3>6, <3>7, <3>8, <3>9, <3>10
  <2> QED
    BY <2>2, <2>3
<1>3. CASE Check(c)
  BY <1>3 DEF Check
<1>4. CASE Handle(c)
  BY <1>4 DEF Handle
<1>5. pc[c] \in Busy => /\ EventOf(entry[c]) \in Events
                        /\ RetryOf(entry[c]) \in 0..MaxRetries
  <2> SUFFICES ASSUME pc[c] \in Busy
               PROVE  stream[entry[c]] \in Message
    BY DEF EventOf, RetryOf, Message
  <2> QED
    OBVIOUS
<1>6. CASE Publish(c)
  <2>1. output' \in [Events -> Nat]
    BY <1>5, <1>6 DEF Publish
  <2>2. /\ \E step \in {"mark", "failed"} : pc' = [pc EXCEPT ![c] = step]
        /\ faults' \in 0..MaxFaults
        /\ UNCHANGED <<batch, entry>>
        /\ pc[c] \in Busy
    BY <1>6 DEF Publish, Replied
  <2>3. pc' \in [Consumers -> PC] /\ HoldsEntry'
    BY <2>2
  <2> QED
    BY <1>6, <2>1, <2>2, <2>3 DEF Publish
<1>7. CASE MarkProcessed(c)
  <2>1. processed' \subseteq Events
    BY <1>5, <1>7 DEF MarkProcessed
  <2>2. /\ \E step \in {"ack", "failed"} : pc' = [pc EXCEPT ![c] = step]
        /\ faults' \in 0..MaxFaults
        /\ UNCHANGED <<batch, entry>>
        /\ pc[c] \in Busy
    BY <1>7 DEF MarkProcessed, Replied
  <2>3. pc' \in [Consumers -> PC] /\ HoldsEntry'
    BY <2>2
  <2> QED
    BY <1>7, <2>1, <2>2, <2>3 DEF MarkProcessed
<1>8. CASE Ack(c)
  <2>1. pc' \in [Consumers -> PC] /\ HoldsEntry'
    BY <1>8 DEF Ack, Finish, AfterBatch
  <2>2. pending' \subseteq 1..delivered /\ idle' \subseteq pending'
    BY <1>8 DEF Ack, XAck
  <2>3. /\ batch' \in [Consumers -> SUBSET (1..delivered)]
        /\ entry' \in [Consumers -> 0..delivered]
    BY <1>8 DEF Ack, Finish
  <2>4. UNCHANGED <<stream, delivered, processed, output, deadLetter, cursor,
                    faults, stolen>>
    BY <1>8 DEF Ack, Finish, XAck
  <2> QED
    BY <2>1, <2>2, <2>3, <2>4
<1>9. CASE AckReplyLost(c)
  <2>1. pending' \subseteq 1..delivered /\ idle' \subseteq pending'
    BY <1>9 DEF AckReplyLost, XAck
  <2>2. /\ pc' = [pc EXCEPT ![c] = "failed"] /\ pc[c] = "ack"
        /\ faults' \in 0..MaxFaults
        /\ UNCHANGED <<stream, delivered, processed, output, deadLetter, batch,
                       entry, cursor, stolen>>
    BY <1>9 DEF AckReplyLost, XAck
  <2> QED
    BY <2>1, <2>2
<1>10. CASE CallFails(c)
  BY <1>10 DEF CallFails
<1>11. CASE Resubmit(c)
  <2>1. [event |-> EventOf(entry[c]), retry |-> RetryOf(entry[c]) + 1] \in Message
    <3>1. EventOf(entry[c]) \in Events /\ RetryOf(entry[c]) \in 0..MaxRetries
      BY <1>5, <1>11 DEF Resubmit
    <3>2. RetryOf(entry[c]) + 1 \in 0..MaxRetries
      BY <3>1, <1>11 DEF Resubmit
    <3> QED
      BY <3>1, <3>2 DEF Message
  <2>2. stream' \in Seq(Message) /\ Len(stream') = Len(stream) + 1
    BY <1>11, <2>1 DEF Resubmit
  <2> QED
    BY <1>11, <2>2 DEF Resubmit
<1>12. CASE Bury(c)
  BY <1>5, <1>12 DEF Bury
<1> QED
  BY <1>1, <1>2, <1>3, <1>4, <1>6, <1>7, <1>8, <1>9, <1>10, <1>11, <1>12 DEF Step

LEMMA TypeInit == Init => TypeInv
BY Assumption DEF Init, TypeInv, TypeOK, HoldsEntry, Busy, PC, Message

LEMMA TypeNext == TypeInv /\ [Next]_vars => TypeInv'
<1> SUFFICES ASSUME TypeInv, [Next]_vars
             PROVE  TypeInv'
  OBVIOUS
<1> USE Assumption DEF TypeInv, TypeOK, HoldsEntry, Busy, PC, ScanOver, Goto,
        redis, effects, local
<1>1. ASSUME NEW e \in Events, Ingest(e) PROVE TypeInv'
  <2>1. [event |-> e, retry |-> 0] \in Message
    BY DEF Message
  <2>2. stream' \in Seq(Message) /\ Len(stream') = Len(stream) + 1
    BY <1>1, <2>1 DEF Ingest
  <2> QED
    BY <1>1, <2>2 DEF Ingest
<1>2. ASSUME NEW i \in pending, GrowIdle(i) PROVE TypeInv'
  BY <1>2 DEF GrowIdle
<1>3. ASSUME NEW c \in Consumers, Crash(c) PROVE TypeInv'
  BY <1>3 DEF Crash
<1>4. ASSUME NEW c \in Consumers, Restart(c) PROVE TypeInv'
  BY <1>4 DEF Restart
<1>5. CASE UNCHANGED vars
  BY <1>5 DEF vars
<1> QED
  BY <1>1, <1>2, <1>3, <1>4, <1>5, TypeStep DEF Next

(* Every variable keeps its type; a process only works on an entry it has  *)
(* fetched, so the lookups stream[entry[c]] are always defined.            *)
THEOREM TypeCorrect == Safety => []TypeOK
<1>1. Safety => []TypeInv
  BY TypeInit, TypeNext, PTL DEF Safety
<1> QED
  BY <1>1, PTL DEF TypeInv
-----------------------------------------------------------------------------
(* What no step ever does *)

(* Entries are only ever added at the end of the stream, with a legal      *)
(* retry_count; marks, results and dead letters are never taken back.      *)
Grows == /\ Len(stream') \in Nat /\ Len(stream) <= Len(stream')
         /\ \A i \in 1..Len(stream) : stream'[i] = stream[i]
         /\ processed \subseteq processed'
         /\ \A e \in Events : output[e] <= output'[e]
         /\ \A e \in Events : deadLetter[e] <= deadLetter'[e]

LEMMA OnlyGrows == TypeInv /\ [Next]_vars => Grows
<1> SUFFICES ASSUME TypeInv, [Next]_vars
             PROVE  Grows
  OBVIOUS
<1>1. /\ Len(stream) \in Nat
      /\ output \in [Events -> Nat]
      /\ deadLetter \in [Events -> Nat]
      /\ stream \in Seq(Message)
  BY DEF TypeInv, TypeOK
<1> USE DEF redis, effects, local
<1>2. ASSUME NEW m, stream' = Append(stream, m)
      PROVE  /\ Len(stream') \in Nat /\ Len(stream) <= Len(stream')
             /\ \A i \in 1..Len(stream) : stream'[i] = stream[i]
  BY <1>1, <1>2
<1>3. ASSUME NEW e \in Events, Ingest(e) PROVE Grows
  BY <1>1, <1>2, <1>3 DEF Ingest, Grows
<1>4. ASSUME NEW c \in Consumers, Resubmit(c) PROVE Grows
  BY <1>1, <1>2, <1>4 DEF Resubmit, Grows
<1>5. ASSUME NEW c \in Consumers, Publish(c) PROVE Grows
  <2>1. \A e \in Events : output[e] <= output'[e]
    BY <1>1, <1>5 DEF Publish
  <2> QED
    BY <1>1, <1>5, <2>1 DEF Publish, Grows
<1>6. ASSUME NEW c \in Consumers, Bury(c) PROVE Grows
  <2>1. \A e \in Events : deadLetter[e] <= deadLetter'[e]
    BY <1>1, <1>6 DEF Bury
  <2> QED
    BY <1>1, <1>6, <2>1 DEF Bury, Grows
<1>7. ASSUME NEW c \in Consumers, MarkProcessed(c) PROVE Grows
  BY <1>1, <1>7 DEF MarkProcessed, Grows
<1>8. ASSUME UNCHANGED <<stream, processed, output, deadLetter>> PROVE Grows
  BY <1>1, <1>8 DEF Grows
<1>9. ASSUME NEW c \in Consumers, Recover(c) \/ Read(c) \/ Check(c) \/ Handle(c)
             \/ Ack(c) \/ AckReplyLost(c) \/ CallFails(c) \/ Crash(c) \/ Restart(c)
      PROVE  UNCHANGED <<stream, processed, output, deadLetter>>
  BY <1>9 DEF Recover, Read, Check, Handle, Ack, XAck, AckReplyLost, CallFails,
     Crash, Restart
<1>10. ASSUME NEW i \in pending, GrowIdle(i)
       PROVE  UNCHANGED <<stream, processed, output, deadLetter>>
  BY <1>10 DEF GrowIdle
<1>11. UNCHANGED vars => UNCHANGED <<stream, processed, output, deadLetter>>
  BY DEF vars
<1> QED
  BY <1>3, <1>4, <1>5, <1>6, <1>7, <1>8, <1>9, <1>10, <1>11 DEF Next, Step

(* The same for the lookups of an entry that is already there. *)
LEMMA LookupsStable ==
    ASSUME TypeInv, [Next]_vars, NEW i \in 1..Len(stream)
    PROVE  /\ i \in 1..Len(stream')
           /\ EventOf(i)' = EventOf(i)
           /\ RetryOf(i)' = RetryOf(i)
<1>1. Len(stream) \in Nat
  BY DEF TypeInv, TypeOK
<1> QED
  BY <1>1, OnlyGrows DEF Grows, EventOf, RetryOf

-----------------------------------------------------------------------------
(* No event is lost *)

(* What a process is about to do, it has prepared: it acknowledges an      *)
(* entry as processed or as dead-lettered only if its event is, and marks  *)
(* only an event whose result is out.                                      *)
Prepared(c) == LET e == EventOf(entry[c])
               IN  /\ pc[c] \in {"ack", "duplicate"} => e \in processed
                   /\ pc[c] = "buried" => deadLetter[e] > 0
                   /\ pc[c] = "mark" => output[e] > 0
AllPrepared == \A c \in Consumers : Prepared(c)

(* A process that stays where it is, or goes to a step that promises       *)
(* nothing, keeps its promise: outcomes are never taken back.              *)
LEMMA PreparedStable ==
    ASSUME TypeInv, AllPrepared, [Next]_vars, NEW d \in Consumers,
           \/ pc'[d] = pc[d] /\ entry'[d] = entry[d]
           \/ pc'[d] \notin {"ack", "duplicate", "buried", "mark"}
    PROVE  Prepared(d)'
<1>1. CASE pc'[d] \notin {"ack", "duplicate", "buried", "mark"}
  BY <1>1 DEF Prepared
<1>2. CASE pc'[d] = pc[d] /\ entry'[d] = entry[d] /\ pc[d] \in Busy
  <2>1. entry[d] \in 1..Len(stream) /\ EventOf(entry[d]) \in Events
    <3>1. entry[d] \in 1..Len(stream)
      BY <1>2 DEF TypeInv, TypeOK, HoldsEntry
    <3>2. stream[entry[d]] \in Message
      BY <3>1 DEF TypeInv, TypeOK
    <3> QED
      BY <3>1, <3>2 DEF EventOf, Message
  <2>2. EventOf(entry[d])' = EventOf(entry[d])
    BY <1>2, <2>1, LookupsStable DEF EventOf
  <2>3. Prepared(d)
    BY DEF AllPrepared
  <2>4. /\ output[EventOf(entry[d])] \in Nat
        /\ output'[EventOf(entry[d])] \in Nat
        /\ deadLetter[EventOf(entry[d])] \in Nat
        /\ deadLetter'[EventOf(entry[d])] \in Nat
    BY <2>1, TypeNext DEF TypeInv, TypeOK
  <2> QED
    BY <1>2, <2>1, <2>2, <2>3, <2>4, OnlyGrows DEF Prepared, Grows
<1> QED
  BY <1>1, <1>2 DEF Busy
LEMMA PreparedNext == TypeInv /\ AllPrepared /\ [Next]_vars => AllPrepared'
<1> SUFFICES ASSUME TypeInv, AllPrepared, [Next]_vars, NEW d \in Consumers
             PROVE  Prepared(d)'
  BY DEF AllPrepared
<1> DEFINE Stays == pc'[d] = pc[d] /\ entry'[d] = entry[d]
           NoPromise == pc'[d] \notin {"ack", "duplicate", "buried", "mark"}
<1>1. Stays \/ NoPromise => Prepared(d)'
  BY PreparedStable
<1>2. /\ pc \in [Consumers -> PC]
      /\ entry \in [Consumers -> 0..delivered]
      /\ output \in [Events -> Nat]
      /\ deadLetter \in [Events -> Nat]
  BY DEF TypeInv, TypeOK
<1>3. ASSUME NEW c \in Consumers, pc[c] \in Busy
      PROVE  EventOf(entry[c]) \in Events
  <2>1. entry[c] \in 1..Len(stream)
    BY <1>3 DEF TypeInv, TypeOK, HoldsEntry
  <2>2. stream[entry[c]] \in Message
    BY <2>1 DEF TypeInv, TypeOK
  <2> QED
    BY <2>2 DEF EventOf, Message
<1> USE DEF Goto, redis, effects, local
<1>4. ASSUME NEW c \in Consumers, Check(c) PROVE Prepared(d)'
  <2>1. CASE d = c
    <3>1. PICK i \in batch[c] :
             /\ entry' = [entry EXCEPT ![c] = i]
             /\ pc' = [pc EXCEPT ![c] = IF EventOf(i) \in processed
                                        THEN "duplicate" ELSE "handle"]
      BY <1>4 DEF Check
    <3>2. UNCHANGED <<stream, processed>>
      BY <1>4 DEF Check
    <3> QED
      BY <1>2, <2>1, <3>1, <3>2 DEF Prepared, EventOf
  <2>2. CASE d # c
    BY <1>1, <1>2, <1>4, <2>2 DEF Check
  <2> QED
    BY <2>1, <2>2
<1>5. ASSUME NEW c \in Consumers, Publish(c) PROVE Prepared(d)'
  <2>1. CASE d = c
    <3>1. output'[EventOf(entry[c])] > 0
      BY <1>2, <1>3, <1>5 DEF Publish, Busy
    <3>2. pc'[c] \in {"mark", "failed"} /\ UNCHANGED <<stream, entry>>
      BY <1>2, <1>5 DEF Publish, Replied
    <3> QED
      BY <2>1, <3>1, <3>2 DEF Prepared, EventOf
  <2>2. CASE d # c
    <3>1. Stays
      BY <1>2, <1>5, <2>2 DEF Publish, Replied
    <3> QED
      BY <1>1, <3>1
  <2> QED
    BY <2>1, <2>2
<1>6. ASSUME NEW c \in Consumers, MarkProcessed(c) PROVE Prepared(d)'
  <2>1. CASE d = c
    <3>1. EventOf(entry[c]) \in processed'
      BY <1>6 DEF MarkProcessed
    <3>2. pc'[c] \in {"ack", "failed"} /\ UNCHANGED <<stream, entry>>
      BY <1>2, <1>6 DEF MarkProcessed, Replied
    <3> QED
      BY <2>1, <3>1, <3>2 DEF Prepared, EventOf
  <2>2. CASE d # c
    <3>1. Stays
      BY <1>2, <1>6, <2>2 DEF MarkProcessed, Replied
    <3> QED
      BY <1>1, <3>1
  <2> QED
    BY <2>1, <2>2
<1>7. ASSUME NEW c \in Consumers, Bury(c) PROVE Prepared(d)'
  <2>1. CASE d = c
    <3>1. deadLetter'[EventOf(entry[c])] > 0
      BY <1>2, <1>3, <1>7 DEF Bury, Busy
    <3>2. pc'[c] = "buried" /\ UNCHANGED <<stream, entry>>
      BY <1>2, <1>7 DEF Bury
    <3> QED
      BY <2>1, <3>1, <3>2 DEF Prepared, EventOf
  <2>2. CASE d # c
    BY <1>1, <1>2, <1>7, <2>2 DEF Bury
  <2> QED
    BY <2>1, <2>2
<1>8. ASSUME NEW c \in Consumers, Ack(c) PROVE Stays \/ NoPromise
  BY <1>2, <1>8 DEF Ack, Finish, AfterBatch
<1>9. ASSUME NEW c \in Consumers,
             Recover(c) \/ Read(c) \/ Handle(c) \/ AckReplyLost(c) \/ CallFails(c)
             \/ Resubmit(c) \/ Crash(c) \/ Restart(c)
      PROVE  Stays \/ NoPromise
  BY <1>2, <1>9 DEF Recover, Read, Handle, AckReplyLost, CallFails, Resubmit,
     Crash, Restart
<1>10. ASSUME (\E e \in Events : Ingest(e)) \/ (\E i \in pending : GrowIdle(i))
              \/ UNCHANGED vars
       PROVE  Stays
  BY <1>10 DEF Ingest, GrowIdle, vars
<1> QED
  BY <1>1, <1>4, <1>5, <1>6, <1>7, <1>8, <1>9, <1>10 DEF Next, Step
(* An event is safe when it has an outcome, or Redis holds an entry of it  *)
(* that nobody is about to acknowledge in favour of a copy.                *)
Safe(e) == \/ e \in processed
           \/ deadLetter[e] > 0
           \/ \E i \in Outstanding(e) : ~BeingReplaced(i)

LEMMA SafeIsNoEventLost ==
    NoEventLost <=> \A e \in Events : EntriesOf(e) # {} => Safe(e)
BY DEF NoEventLost, Safe

(* An entry that is still held by Redis after the step keeps its event     *)
(* safe, and so does an outcome reached before it.                         *)
LEMMA StillSafe ==
    ASSUME TypeInv, [Next]_vars, NEW e \in Events, Safe(e),
           \A i \in Outstanding(e) :
              ~BeingReplaced(i) =>
                 \/ i \in Outstanding(e)' /\ ~BeingReplaced(i)'
                 \/ Safe(e)'
    PROVE  Safe(e)'
<1>1. CASE e \in processed
  BY <1>1, OnlyGrows DEF Safe, Grows
<1>2. CASE deadLetter[e] > 0
  <2>1. deadLetter[e] \in Nat /\ deadLetter'[e] \in Nat
    BY TypeNext DEF TypeInv, TypeOK
  <2> QED
    BY <1>2, <2>1, OnlyGrows DEF Safe, Grows
<1>3. CASE \E i \in Outstanding(e) : ~BeingReplaced(i)
  BY <1>3 DEF Safe
<1> QED
  BY <1>1, <1>2, <1>3 DEF Safe

(* Only Resubmit makes a process about to replace an entry. *)
LEMMA ReplacedBefore ==
    ASSUME TypeInv, [Next]_vars, NEW i,
           \A c \in Consumers : pc'[c] = "superseded" =>
               pc[c] = "superseded" /\ entry'[c] = entry[c]
    PROVE  BeingReplaced(i)' => BeingReplaced(i)
BY DEF BeingReplaced

(* No step loses an event that is already in the stream. *)
LEMMA SafeNext ==
    ASSUME TypeInv, AllPrepared, [Next]_vars, NEW e \in Events,
           EntriesOf(e) # {}, Safe(e)
    PROVE  Safe(e)'
<1>1. /\ pc \in [Consumers -> PC]
      /\ entry \in [Consumers -> 0..delivered]
      /\ delivered \in 0..Len(stream)
      /\ Len(stream) \in Nat
  BY DEF TypeInv, TypeOK
<1>2. \A i \in EntriesOf(e) : i \in EntriesOf(e)'
  BY LookupsStable DEF EntriesOf
<1> USE DEF Goto, redis, effects, local
<1>3. ASSUME pending \subseteq pending', delivered' = delivered,
             \A c \in Consumers : pc'[c] = "superseded" =>
                 pc[c] = "superseded" /\ entry'[c] = entry[c]
      PROVE  Safe(e)'
  <2>1. ASSUME NEW i \in Outstanding(e), ~BeingReplaced(i)
        PROVE  i \in Outstanding(e)' /\ ~BeingReplaced(i)'
    BY <1>2, <1>3, <2>1, ReplacedBefore DEF Outstanding
  <2> QED
    BY <2>1, StillSafe
<1>4. ASSUME NEW c \in Consumers, Read(c) PROVE Safe(e)'
  <2> DEFINE fetched == First((delivered + 1)..Len(stream), BatchSize)
  <2>1. CASE fetched = {}
    BY <1>1, <1>3, <1>4, <2>1 DEF Read
  <2>2. CASE fetched # {}
    <3>1. PICK last \in fetched :
             /\ delivered' = last
             /\ pending' = pending \cup fetched
             /\ pc' = [pc EXCEPT ![c] = "check"]
             /\ entry' = entry
      BY <1>4, <2>2 DEF Read
    <3>2. ASSUME NEW i \in (delivered + 1)..Len(stream), i <= last
          PROVE  i \in fetched
      BY <1>1, <3>2, FirstOfInterval, Assumption
    <3> HIDE DEF fetched
    <3>3. ASSUME NEW i \in Outstanding(e), ~BeingReplaced(i)
          PROVE  i \in Outstanding(e)' /\ ~BeingReplaced(i)'
      <4>1. i \in 1..Len(stream) /\ (i > delivered \/ i \in pending)
        BY DEF Outstanding, EntriesOf
      <4>2. i > last \/ i \in pending'
        <5>1. CASE i \in pending
          BY <3>1, <5>1
        <5>2. CASE i > delivered /\ i <= last
          BY <1>1, <3>1, <3>2, <4>1, <5>2
        <5>3. last \in Int
          BY <1>1 DEF fetched, First
        <5> QED
          BY <1>1, <4>1, <5>1, <5>2, <5>3
      <4>3. ~BeingReplaced(i)'
        BY <1>1, <3>1, <3>3, ReplacedBefore
      <4> QED
        BY <1>2, <3>1, <4>2, <4>3 DEF Outstanding
    <3> QED
      BY <3>3, StillSafe
  <2> QED
    BY <2>1, <2>2
<1>5. ASSUME NEW c \in Consumers, Ack(c) \/ AckReplyLost(c) PROVE Safe(e)'
  <2>1. /\ pc[c] \in {"ack", "duplicate", "superseded", "buried"}
        /\ pending' = pending \ {entry[c]}
        /\ UNCHANGED <<stream, delivered, processed, deadLetter>>
    BY <1>5 DEF Ack, AckReplyLost, XAck
  <2>2. \A d \in Consumers : pc'[d] = "superseded" =>
             pc[d] = "superseded" /\ entry'[d] = entry[d]
    BY <1>1, <1>5 DEF Ack, AckReplyLost, Finish, AfterBatch
  <2>3. ASSUME NEW i \in Outstanding(e), ~BeingReplaced(i)
        PROVE  \/ i \in Outstanding(e)' /\ ~BeingReplaced(i)'
               \/ Safe(e)'
    <3>1. ~BeingReplaced(i)'
      BY <2>2, <2>3, ReplacedBefore
    <3>2. CASE i # entry[c]
      BY <1>2, <2>1, <3>1, <3>2 DEF Outstanding
    <3>3. CASE i = entry[c]
      <4>1. pc[c] # "superseded"
        BY <2>3, <3>3 DEF BeingReplaced
      <4>2. EventOf(entry[c]) = e
        BY <3>3 DEF Outstanding, EntriesOf
      <4>3. Prepared(c)
        BY DEF AllPrepared
      <4>4. e \in processed \/ deadLetter[e] > 0
        BY <2>1, <4>1, <4>2, <4>3 DEF Prepared
      <4> QED
        BY <2>1, <4>4 DEF Safe
    <3> QED
      BY <3>2, <3>3
  <2> QED
    BY <2>3, StillSafe
<1>6. ASSUME NEW c \in Consumers, Resubmit(c) PROVE Safe(e)'
  <2>0. PICK n \in Nat : n = Len(stream) + 1
    BY <1>1
  <2>1. /\ entry[c] \in 1..delivered
        /\ \A d \in Consumers : entry'[d] \in 0..delivered
    BY <1>6 DEF Resubmit, TypeInv, TypeOK, HoldsEntry, Busy
  <2>2. /\ Len(stream') = n
        /\ stream'[n] = [event |-> EventOf(entry[c]), retry |-> RetryOf(entry[c]) + 1]
        /\ UNCHANGED <<delivered, pending, entry>>
        /\ pc' = [pc EXCEPT ![c] = "superseded"]
    BY <1>6, <2>0 DEF Resubmit, TypeInv, TypeOK
  <2>3. CASE EventOf(entry[c]) = e
    <3>1. n \in Outstanding(e)'
      BY <1>1, <2>0, <2>2, <2>3 DEF Outstanding, EntriesOf, EventOf
    <3>2. ~BeingReplaced(n)'
      BY <1>1, <2>0, <2>1 DEF BeingReplaced
    <3> QED
      BY <3>1, <3>2 DEF Safe
  <2>4. CASE EventOf(entry[c]) # e
    <3>1. ASSUME NEW i \in Outstanding(e), ~BeingReplaced(i)
          PROVE  i \in Outstanding(e)' /\ ~BeingReplaced(i)'
      <4>1. EventOf(i) = e
        BY DEF Outstanding, EntriesOf
      <4>2. ~BeingReplaced(i)'
        BY <1>1, <2>2, <2>4, <3>1, <4>1 DEF BeingReplaced
      <4> QED
        BY <1>2, <2>2, <4>2 DEF Outstanding
    <3> QED
      BY <3>1, StillSafe
  <2> QED
    BY <2>3, <2>4
<1>7. ASSUME NEW c \in Consumers,
             Recover(c) \/ Check(c) \/ Handle(c) \/ Publish(c) \/ MarkProcessed(c)
             \/ CallFails(c) \/ Bury(c) \/ Crash(c) \/ Restart(c)
      PROVE  /\ pending' = pending /\ delivered' = delivered
             /\ \A d \in Consumers : pc'[d] = "superseded" =>
                    pc[d] = "superseded" /\ entry'[d] = entry[d]
  BY <1>1, <1>7 DEF Recover, Check, Handle, Publish, MarkProcessed, Replied,
     CallFails, Bury, Crash, Restart
<1>8. ASSUME (\E d \in Events : Ingest(d)) \/ (\E i \in pending : GrowIdle(i))
             \/ UNCHANGED vars
      PROVE  /\ pending' = pending /\ delivered' = delivered
             /\ \A d \in Consumers : pc'[d] = pc[d] /\ entry'[d] = entry[d]
  BY <1>8 DEF Ingest, GrowIdle, vars
<1> QED
  BY <1>3, <1>4, <1>5, <1>6, <1>7, <1>8 DEF Next, Step
(* A new event starts out safe: its first entry is not delivered yet. *)
LEMMA IngestSafe ==
    ASSUME TypeInv, NEW e \in Events, Ingest(e)
    PROVE  Safe(e)'
<1>1. PICK n \in Nat : n = Len(stream) + 1
  BY DEF TypeInv, TypeOK
<1>2. /\ stream' = Append(stream, [event |-> e, retry |-> 0])
      /\ UNCHANGED <<delivered, pending, pc, entry>>
  BY DEF Ingest, local
<1>3. /\ Len(stream') = n
      /\ stream'[n] = [event |-> e, retry |-> 0]
      /\ delivered \in 0..Len(stream)
      /\ entry \in [Consumers -> 0..delivered]
  BY <1>1, <1>2 DEF TypeInv, TypeOK
<1>4. n \in Outstanding(e)'
  BY <1>1, <1>2, <1>3 DEF Outstanding, EntriesOf, EventOf
<1>5. ~BeingReplaced(n)'
  BY <1>1, <1>2, <1>3 DEF BeingReplaced
<1> QED
  BY <1>4, <1>5 DEF Safe

(* Only the upstream stage brings in an event the stream does not hold. *)
LEMMA NewEventIsIngested ==
    ASSUME TypeInv, [Next]_vars, NEW e \in Events, EntriesOf(e)' # {}, ~Ingest(e)
    PROVE  EntriesOf(e) # {}
<1>1. stream \in Seq(Message) /\ Len(stream) \in Nat
  BY DEF TypeInv, TypeOK
<1>2. ASSUME NEW d, NEW m, m.event = d, stream' = Append(stream, m),
             d # e \/ EntriesOf(d) # {}
      PROVE  EntriesOf(e) # {}
  <2>1. PICK i \in 1..Len(stream') : stream'[i].event = e
    BY DEF EntriesOf, EventOf
  <2>2. CASE i = Len(stream) + 1
    <3>1. stream'[i] = m
      BY <1>1, <1>2, <2>2
    <3> QED
      BY <1>2, <2>1, <3>1
  <2>3. CASE i # Len(stream) + 1
    <3>1. i \in 1..Len(stream) /\ stream'[i] = stream[i]
      BY <1>1, <1>2, <2>1, <2>3
    <3> QED
      BY <2>1, <3>1 DEF EntriesOf, EventOf
  <2> QED
    BY <2>2, <2>3
<1>3. ASSUME NEW c \in Consumers, Resubmit(c) PROVE EntriesOf(e) # {}
  <2>1. entry[c] \in EntriesOf(EventOf(entry[c]))
    BY <1>3 DEF Resubmit, TypeInv, TypeOK, HoldsEntry, Busy, EntriesOf
  <2> QED
    BY <1>2, <1>3, <2>1 DEF Resubmit
<1>4. ASSUME NEW d \in Events, Ingest(d) PROVE EntriesOf(e) # {}
  BY <1>2, <1>4 DEF Ingest
<1>5. UNCHANGED stream => EntriesOf(e) # {}
  BY DEF EntriesOf, EventOf
<1>6. ASSUME NEW c \in Consumers,
             Recover(c) \/ Read(c) \/ Check(c) \/ Handle(c) \/ Publish(c)
             \/ MarkProcessed(c) \/ Ack(c) \/ AckReplyLost(c) \/ CallFails(c)
             \/ Bury(c) \/ Crash(c) \/ Restart(c)
      PROVE  UNCHANGED stream
  BY <1>6 DEF Recover, Read, Check, Handle, Publish, MarkProcessed, Ack, XAck,
     AckReplyLost, CallFails, Bury, Crash, Restart, redis
<1>7. ASSUME (\E i \in pending : GrowIdle(i)) \/ UNCHANGED vars
      PROVE  UNCHANGED stream
  BY <1>7 DEF GrowIdle, vars, redis
<1> QED
  BY <1>3, <1>4, <1>5, <1>6, <1>7 DEF Next, Step

(* The inductive invariant behind NoEventLost. *)
DeliveryInv == TypeInv /\ AllPrepared /\ NoEventLost

LEMMA DeliveryInit == Init => DeliveryInv
BY TypeInit DEF Init, DeliveryInv, AllPrepared, Prepared, NoEventLost, EntriesOf

LEMMA DeliveryNext == DeliveryInv /\ [Next]_vars => DeliveryInv'
<1> SUFFICES ASSUME DeliveryInv, [Next]_vars
             PROVE  DeliveryInv'
  OBVIOUS
<1>1. TypeInv' /\ AllPrepared'
  BY TypeNext, PreparedNext DEF DeliveryInv
<1>2. ASSUME NEW e \in Events, EntriesOf(e)' # {}
      PROVE  Safe(e)'
  <2>1. CASE Ingest(e)
    BY <2>1, IngestSafe DEF DeliveryInv
  <2>2. CASE ~Ingest(e)
    <3>1. EntriesOf(e) # {}
      BY <1>2, <2>2, NewEventIsIngested DEF DeliveryInv
    <3>2. Safe(e)
      BY <3>1, SafeIsNoEventLost DEF DeliveryInv
    <3> QED
      BY <3>1, <3>2, SafeNext DEF DeliveryInv
  <2> QED
    BY <2>1, <2>2
<1>3. NoEventLost'
  BY <1>2 DEF NoEventLost, Safe
<1> QED
  BY <1>1, <1>3 DEF DeliveryInv

(* No accepted event is ever lost, whatever crashes, failed Redis calls    *)
(* and mutual reclaims happen and however often handle() raises.           *)
THEOREM NothingIsLost == Safety => []NoEventLost
<1>1. Safety => []DeliveryInv
  BY DeliveryInit, DeliveryNext, PTL DEF Safety
<1> QED
  BY <1>1, PTL DEF DeliveryInv
-----------------------------------------------------------------------------
(* Every retry is sent before the dead letter *)

(* The retry counts of an event's entries have no gap below any of them. *)
Sent(e, r) == \E j \in EntriesOf(e) : RetryOf(j) = r
RetriesInOrder ==
    \A i \in 1..Len(stream) : \A r \in 0..RetryOf(i) : Sent(EventOf(i), r)

RetryInv == TypeInv /\ RetriesInOrder /\ DeadLetterAfterEveryRetry

(* What was sent stays in the stream. *)
LEMMA SentStable ==
    ASSUME TypeInv, [Next]_vars, NEW e, NEW r, Sent(e, r)
    PROVE  Sent(e, r)'
BY LookupsStable DEF Sent, EntriesOf

(* A step that appends a message whose earlier retries were all sent (or   *)
(* appends nothing) leaves no gap.                                         *)
LEMMA AppendKeepsOrder ==
    ASSUME TypeInv, RetriesInOrder, [Next]_vars, NEW m \in Message,
           stream' = Append(stream, m),
           \A r \in 0..m.retry : r # m.retry => Sent(m.event, r)
    PROVE  RetriesInOrder'
<1>1. stream \in Seq(Message) /\ Len(stream) \in Nat
  BY DEF TypeInv, TypeOK
<1> SUFFICES ASSUME NEW i \in 1..Len(stream'), NEW r \in 0..RetryOf(i)'
             PROVE  Sent(EventOf(i), r)'
  BY DEF RetriesInOrder
<1>2. CASE i \in 1..Len(stream)
  <2>1. EventOf(i)' = EventOf(i) /\ RetryOf(i)' = RetryOf(i)
    BY <1>2, LookupsStable
  <2>2. Sent(EventOf(i), r)
    BY <1>2, <2>1 DEF RetriesInOrder
  <2>3. PICK e : e = EventOf(i)
    OBVIOUS
  <2>4. Sent(e, r)'
    BY <2>2, <2>3, SentStable
  <2> QED
    BY <2>1, <2>3, <2>4 DEF Sent
<1>3. CASE i \notin 1..Len(stream)
  <2>1. i = Len(stream) + 1 /\ i \in 1..Len(stream') /\ stream'[i] = m
    BY <1>1, <1>3
  <2>2. EventOf(i)' = m.event /\ RetryOf(i)' = m.retry
    BY <2>1 DEF EventOf, RetryOf
  <2>3. CASE r = m.retry
    BY <2>1, <2>2, <2>3 DEF Sent, EntriesOf
  <2>4. CASE r # m.retry
    <3>1. Sent(m.event, r)'
      BY <2>2, <2>4, SentStable
    <3> QED
      BY <2>2, <3>1 DEF Sent
  <2> QED
    BY <2>3, <2>4
<1> QED
  BY <1>2, <1>3

LEMMA RetryNext == RetryInv /\ [Next]_vars => RetryInv'
<1> SUFFICES ASSUME RetryInv, [Next]_vars
             PROVE  RetryInv'
  OBVIOUS
<1>1. TypeInv'
  BY TypeNext DEF RetryInv
<1>2. ASSUME NEW c \in Consumers, pc[c] = "failed"
      PROVE  /\ EventOf(entry[c]) \in Events
             /\ RetryOf(entry[c]) \in 0..MaxRetries
             /\ \A r \in 0..RetryOf(entry[c]) : Sent(EventOf(entry[c]), r)
  <2>1. entry[c] \in 1..Len(stream)
    BY <1>2 DEF RetryInv, TypeInv, TypeOK, HoldsEntry, Busy
  <2>2. stream[entry[c]] \in Message
    BY <2>1 DEF RetryInv, TypeInv, TypeOK
  <2> QED
    BY <2>1, <2>2 DEF RetryInv, RetriesInOrder, EventOf, RetryOf, Message
<1>3. RetriesInOrder'
  <2>1. ASSUME NEW e \in Events, Ingest(e) PROVE RetriesInOrder'
    <3>1. [event |-> e, retry |-> 0] \in Message
      BY Assumption DEF Message
    <3> QED
      BY <2>1, <3>1, AppendKeepsOrder DEF Ingest, RetryInv
  <2>2. ASSUME NEW c \in Consumers, Resubmit(c) PROVE RetriesInOrder'
    <3> DEFINE m == [event |-> EventOf(entry[c]), retry |-> RetryOf(entry[c]) + 1]
    <3>1. pc[c] = "failed" /\ RetryOf(entry[c]) < MaxRetries
          /\ stream' = Append(stream, m)
      BY <2>2 DEF Resubmit
    <3>2. RetryOf(entry[c]) + 1 \in 0..MaxRetries
      BY <1>2, <3>1, Assumption
    <3>3. m \in Message
      BY <1>2, <3>1, <3>2 DEF Message
    <3>4. \A r \in 0..m.retry : r # m.retry => Sent(m.event, r)
      BY <1>2, <3>1, Assumption
    <3> HIDE DEF m
    <3> QED
      BY <3>1, <3>3, <3>4, AppendKeepsOrder DEF RetryInv
  <2>3. ASSUME UNCHANGED stream PROVE RetriesInOrder'
    BY <2>3 DEF RetryInv, RetriesInOrder, Sent, EntriesOf, EventOf, RetryOf
  <2>4. ASSUME NEW c \in Consumers,
               Recover(c) \/ Read(c) \/ Check(c) \/ Handle(c) \/ Publish(c)
               \/ MarkProcessed(c) \/ Ack(c) \/ AckReplyLost(c) \/ CallFails(c)
               \/ Bury(c) \/ Crash(c) \/ Restart(c)
        PROVE  UNCHANGED stream
    BY <2>4 DEF Recover, Read, Check, Handle, Publish, MarkProcessed, Ack, XAck,
       AckReplyLost, CallFails, Bury, Crash, Restart, redis
  <2>5. ASSUME (\E i \in pending : GrowIdle(i)) \/ UNCHANGED vars
        PROVE  UNCHANGED stream
    BY <2>5 DEF GrowIdle, vars, redis
  <2> QED
    BY <2>1, <2>2, <2>3, <2>4, <2>5 DEF Next, Step
<1>4. ASSUME NEW e \in Events, deadLetter'[e] > 0, NEW r \in 0..MaxRetries
      PROVE  Sent(e, r)
  <2>1. CASE deadLetter[e] > 0
    BY <2>1 DEF RetryInv, DeadLetterAfterEveryRetry, Sent
  <2>2. ASSUME NEW c \in Consumers, Bury(c), EventOf(entry[c]) = e
        PROVE  Sent(e, r)
    BY <1>2, <2>2, Assumption DEF Bury
  <2>3. ASSUME NEW c \in Consumers, Bury(c), EventOf(entry[c]) # e
        PROVE  deadLetter'[e] = deadLetter[e]
    BY <2>3 DEF Bury, RetryInv, TypeInv, TypeOK
  <2>4. ASSUME NEW c \in Consumers,
               Recover(c) \/ Read(c) \/ Check(c) \/ Handle(c) \/ Publish(c)
               \/ MarkProcessed(c) \/ Ack(c) \/ AckReplyLost(c) \/ CallFails(c)
               \/ Resubmit(c) \/ Crash(c) \/ Restart(c)
        PROVE  UNCHANGED deadLetter
    BY <2>4 DEF Recover, Read, Check, Handle, Publish, MarkProcessed, Ack,
       AckReplyLost, CallFails, Resubmit, Crash, Restart, effects
  <2>5. ASSUME (\E d \in Events : Ingest(d)) \/ (\E i \in pending : GrowIdle(i))
               \/ UNCHANGED vars
        PROVE  UNCHANGED deadLetter
    BY <2>5 DEF Ingest, GrowIdle, vars, effects
  <2> QED
    BY <1>4, <2>1, <2>2, <2>3, <2>4, <2>5 DEF Next, Step
<1>5. DeadLetterAfterEveryRetry'
  <2> SUFFICES ASSUME NEW e \in Events, deadLetter'[e] > 0, NEW r \in 0..MaxRetries
               PROVE  Sent(e, r)'
    BY DEF DeadLetterAfterEveryRetry, Sent
  <2>1. Sent(e, r)
    BY <1>4
  <2> QED
    BY <2>1, SentStable DEF RetryInv
<1> QED
  BY <1>1, <1>3, <1>5 DEF RetryInv

(* A dead letter means that the event was sent once with every retry_count *)
(* up to max_retries, for every limit and under every fault.               *)
THEOREM NoEarlyDeadLetter == Safety => []DeadLetterAfterEveryRetry
<1>1. Init => RetryInv
  BY TypeInit DEF Init, RetryInv, RetriesInOrder, DeadLetterAfterEveryRetry
<1>2. Safety => []RetryInv
  BY <1>1, RetryNext, PTL DEF Safety
<1> QED
  BY <1>2, PTL DEF RetryInv
-----------------------------------------------------------------------------
(* The stage implements the abstract one *)

LEMMA LedgerInit == Init => Ledger!Init
BY DEF Init, Ledger!Init, EntriesOf

(* Every step of the stage is a step of the abstract stage or none. *)
LEMMA LedgerNext ==
    TypeInv /\ AllPrepared /\ [Next]_vars => [Ledger!Next]_(Ledger!vars)
<1> SUFFICES ASSUME TypeInv, AllPrepared, [Next]_vars
             PROVE  [Ledger!Next]_(Ledger!vars)
  OBVIOUS
<1> DEFINE accepted == {e \in Events : EntriesOf(e) # {}}
           produced == {e \in Events : output[e] > 0}
           givenUp == {e \in Events : deadLetter[e] > 0}
<1>1. /\ output \in [Events -> Nat] /\ deadLetter \in [Events -> Nat]
      /\ stream \in Seq(Message) /\ Len(stream) \in Nat
  BY DEF TypeInv, TypeOK
<1>2. UNCHANGED stream => accepted' = accepted
  BY DEF EntriesOf, EventOf
<1>3. ASSUME NEW c \in Consumers, pc[c] \in Busy
      PROVE  EventOf(entry[c]) \in accepted
  <2>1. entry[c] \in 1..Len(stream) /\ stream[entry[c]] \in Message
    BY <1>3 DEF TypeInv, TypeOK, HoldsEntry
  <2> QED
    BY <2>1 DEF EntriesOf, EventOf, Message
<1>4. \A e \in Events : e \in accepted => e \in accepted'
  BY LookupsStable DEF EntriesOf
<1> USE DEF redis, effects
<1>5. ASSUME NEW e \in Events, Ingest(e) PROVE Ledger!Next
  <2>1. accepted' \subseteq accepted \cup {e}
    BY <1>5, NewEventIsIngested DEF Ingest, EntriesOf, EventOf
  <2>2. Len(stream') = Len(stream) + 1 /\ stream'[Len(stream) + 1].event = e
    BY <1>1, <1>5 DEF Ingest
  <2>3. e \in accepted'
    <3>1. PICK n \in 1..Len(stream') : stream'[n].event = e
      BY <1>1, <2>2
    <3>2. n \in EntriesOf(e)'
      BY <3>1 DEF EntriesOf, EventOf
    <3> QED
      BY <3>2
  <2>4. accepted' = accepted \cup {e}
    BY <1>4, <2>1, <2>3
  <2> QED
    BY <1>5, <2>4 DEF Ingest, Ledger!Next, Ledger!Accept
<1>6. ASSUME NEW c \in Consumers, Resubmit(c) PROVE UNCHANGED Ledger!vars
  <2>1. \A e \in Events : ~Ingest(e)
    BY <1>3, <1>6 DEF Resubmit, Ingest, Busy, local
  <2>2. accepted' = accepted
    BY <1>4, <2>1, NewEventIsIngested
  <2> QED
    BY <1>6, <2>2 DEF Resubmit, Ledger!vars
<1>7. ASSUME NEW c \in Consumers, Publish(c) PROVE Ledger!Next
  <2>1. EventOf(entry[c]) \in accepted
    BY <1>3, <1>7 DEF Publish, Busy
  <2>2. produced' = produced \cup {EventOf(entry[c])}
    BY <1>1, <1>7, <2>1 DEF Publish
  <2>3. UNCHANGED <<stream, processed, deadLetter>>
    BY <1>7 DEF Publish
  <2> QED
    BY <1>2, <2>1, <2>2, <2>3 DEF Ledger!Next, Ledger!Produce
<1>8. ASSUME NEW c \in Consumers, MarkProcessed(c) PROVE Ledger!Next
  <2>1. EventOf(entry[c]) \in accepted
    BY <1>3, <1>8 DEF MarkProcessed, Busy
  <2>2. EventOf(entry[c]) \in produced
    BY <1>8, <2>1 DEF MarkProcessed, AllPrepared, Prepared
  <2>3. /\ processed' = processed \cup {EventOf(entry[c])}
        /\ UNCHANGED <<stream, output, deadLetter>>
    BY <1>8 DEF MarkProcessed
  <2> QED
    BY <1>2, <2>1, <2>2, <2>3 DEF Ledger!Next, Ledger!Complete
<1>9. ASSUME NEW c \in Consumers, Bury(c) PROVE Ledger!Next
  <2>1. EventOf(entry[c]) \in accepted
    BY <1>3, <1>9 DEF Bury, Busy
  <2>2. givenUp' = givenUp \cup {EventOf(entry[c])}
    BY <1>1, <1>9, <2>1 DEF Bury
  <2>3. UNCHANGED <<stream, output, processed>>
    BY <1>9 DEF Bury
  <2> QED
    BY <1>2, <2>1, <2>2, <2>3 DEF Ledger!Next, Ledger!GiveUp
<1>10. ASSUME UNCHANGED <<stream, processed, output, deadLetter>>
       PROVE  UNCHANGED Ledger!vars
  BY <1>2, <1>10 DEF Ledger!vars
<1>11. ASSUME NEW c \in Consumers,
              Recover(c) \/ Read(c) \/ Check(c) \/ Handle(c) \/ Ack(c)
              \/ AckReplyLost(c) \/ CallFails(c) \/ Crash(c) \/ Restart(c)
       PROVE  UNCHANGED <<stream, processed, output, deadLetter>>
  BY <1>11 DEF Recover, Read, Check, Handle, Ack, XAck, AckReplyLost, CallFails,
     Crash, Restart
<1>12. ASSUME (\E i \in pending : GrowIdle(i)) \/ UNCHANGED vars
       PROVE  UNCHANGED <<stream, processed, output, deadLetter>>
  BY <1>12 DEF GrowIdle, vars
<1> QED
  BY <1>5, <1>6, <1>7, <1>8, <1>9, <1>10, <1>11, <1>12 DEF Next, Step

(* The safety part of ImplementsAtLeastOnce: nothing is completed before   *)
(* its result is out, only accepted events settle, no outcome is revoked.  *)
THEOREM StageIsAtLeastOnce == Safety => Ledger!Safety
<1>1. Safety => [](TypeInv /\ AllPrepared)
  BY DeliveryInit, DeliveryNext, PTL DEF Safety, DeliveryInv
<1> QED
  BY <1>1, LedgerInit, LedgerNext, PTL DEF Safety, Ledger!Safety
-----------------------------------------------------------------------------
(* Every repeated result is paid for *)

(* An entry may be published once, and once more by each process that      *)
(* reclaimed it from another at work: the claims on it.  A process that    *)
(* has an entry goes by the claim of its reclaim, or by the entry's own.   *)
NoOne == CHOOSE x : x \notin Consumers
Stolen(e) == {p \in stolen : EventOf(p[1]) = e}
Claims(e) == {<<i, NoOne>> : i \in EntriesOf(e)} \cup Stolen(e)
Claim(c, i) == IF <<i, c>> \in stolen THEN <<i, c>> ELSE <<i, NoOne>>

(* A process has spent its claim once it published, sent a copy or buried. *)
Spent(c) == pc[c] \in {"mark", "ack", "superseded", "buried"}

(* The claims that can still lead to a result. *)
Open(e) == {x \in Claims(e) :
              /\ \A c \in Consumers : Spent(c) => x # Claim(c, entry[c])
              /\ \/ x[1] \in Outstanding(e)
                 \/ \E c \in Consumers : x[1] \in batch[c] /\ x = Claim(c, x[1])}

Affordable(e) ==
    IF EntriesOf(e) = {} THEN output[e] = 0
    ELSE output[e] + Cardinality(Open(e)) <= 1 + faults + Cardinality(Stolen(e))

IdleEmpty == \A c \in Consumers : pc[c] \in {"down", "recover", "read"} => batch[c] = {}

(* Of two processes that have one entry, one has reclaimed it. *)
OneUnclaimed == \A c, d \in Consumers : \A i \in batch[c] \cap batch[d] :
                   c = d \/ <<i, c>> \in stolen \/ <<i, d>> \in stolen

CostInv == /\ TypeInv /\ IsFiniteSet(stolen) /\ IdleEmpty /\ OneUnclaimed
           /\ \A e \in Events : Affordable(e)

LEMMA NobodyConsumes == NoOne \notin Consumers
<1>1. \E x : x \notin Consumers
  BY NoSetContainsEverything
<1> QED
  BY <1>1, Zenon DEF NoOne

LEMMA FinitelyManyPairs ==
    ASSUME NEW n \in Nat, NEW S, IsFiniteSet(S),
           NEW T, T \subseteq ((1..n) \X {NoOne}) \cup S
    PROVE  IsFiniteSet(T) /\ Cardinality(T) \in Nat
<1> DEFINE ids == 1..n
           nobody == {NoOne}
           own == ids \X nobody
<1>1. IsFiniteSet(ids) /\ IsFiniteSet(nobody)
  <2>1. IsFiniteSet(ids)
    BY FS_Interval
  <2>2. IsFiniteSet(nobody)
    BY FS_Singleton
  <2> QED
    BY <2>1, <2>2
<1>2. IsFiniteSet(own)
  <2> HIDE DEF ids, nobody
  <2> QED
    BY <1>1, FS_Product
<1>3. T \in SUBSET (own \cup S)
  OBVIOUS
<1> HIDE DEF own
<1>4. IsFiniteSet(own \cup S)
  BY <1>2, FS_Union
<1>5. IsFiniteSet(T)
  BY <1>3, <1>4, FS_Subset
<1> QED
  BY <1>5, FS_CardinalityType

LEMMA ClaimsAreFinite ==
    ASSUME TypeInv, IsFiniteSet(stolen), NEW e
    PROVE  /\ IsFiniteSet(Open(e)) /\ Cardinality(Open(e)) \in Nat
           /\ IsFiniteSet(Stolen(e)) /\ Cardinality(Stolen(e)) \in Nat
<1>1. Len(stream) \in Nat
  BY DEF TypeInv, TypeOK
<1>2. Stolen(e) \subseteq stolen
  BY DEF Stolen
<1>3. Open(e) \subseteq ((1..Len(stream)) \X {NoOne}) \cup stolen
  BY DEF Stolen, Open, Claims, EntriesOf
<1> QED
  BY <1>1, <1>2, <1>3, FinitelyManyPairs

LEMMA ClaimsStayFinite ==
    ASSUME TypeInv', IsFiniteSet(stolen'), NEW e
    PROVE  /\ IsFiniteSet(Open(e)') /\ Cardinality(Open(e)') \in Nat
           /\ IsFiniteSet(Stolen(e)') /\ Cardinality(Stolen(e)') \in Nat
<1>1. Len(stream') \in Nat
  BY DEF TypeInv, TypeOK
<1>2. Stolen(e)' \subseteq stolen'
  BY DEF Stolen
<1>3. Open(e)' \subseteq ((1..Len(stream')) \X {NoOne}) \cup stolen'
  BY DEF Stolen, Open, Claims, EntriesOf
<1> QED
  BY <1>1, <1>2, <1>3, FinitelyManyPairs

LEMMA OneMore ==
    ASSUME NEW S, IsFiniteSet(S), NEW x, NEW T, T \subseteq S \cup {x}
    PROVE  Cardinality(T) <= Cardinality(S) + 1
<1>1. /\ IsFiniteSet(S \cup {x})
      /\ Cardinality(S \cup {x}) = Cardinality(S)
         \/ Cardinality(S \cup {x}) = Cardinality(S) + 1
  BY FS_AddElement
<1>2. IsFiniteSet(T) /\ Cardinality(T) <= Cardinality(S \cup {x})
  BY <1>1, FS_Subset
<1>3. Cardinality(S) \in Nat /\ Cardinality(T) \in Nat
  BY <1>2, FS_CardinalityType
<1> QED
  BY <1>1, <1>2, <1>3

(* What a step may do to the claims on an event. *)
LEMMA Affording ==
    ASSUME TypeInv, TypeInv', IsFiniteSet(stolen), IsFiniteSet(stolen'),
           NEW e \in Events, Affordable(e), Stolen(e)' = Stolen(e),
           EntriesOf(e)' = {} <=> EntriesOf(e) = {},
           \/ output'[e] = output[e] /\ faults' >= faults /\ Open(e)' \subseteq Open(e)
           \/ /\ output'[e] = output[e] /\ faults' = faults + 1
              /\ \E x : Open(e)' \subseteq Open(e) \cup {x}
           \/ /\ output'[e] = output[e] /\ faults' = faults
              /\ \E x \in Open(e) : \E y : Open(e)' \subseteq (Open(e) \ {x}) \cup {y}
           \/ /\ output'[e] = output[e] + 1 /\ EntriesOf(e) # {} /\ faults' = faults
              /\ \E x \in Open(e) : Open(e)' \subseteq Open(e) \ {x}
           \/ /\ output'[e] = output[e] + 1 /\ EntriesOf(e) # {} /\ faults' = faults + 1
              /\ Open(e)' \subseteq Open(e)
    PROVE  Affordable(e)'
<1> DEFINE A == Open(e)
           B == Open(e)'
<1>1. /\ output[e] \in Nat /\ output'[e] \in Nat /\ faults \in Nat /\ faults' \in Nat
  BY Assumption DEF TypeInv, TypeOK
<1>2. /\ IsFiniteSet(A) /\ Cardinality(A) \in Nat /\ IsFiniteSet(B) /\ Cardinality(B) \in Nat
      /\ Cardinality(Stolen(e)) \in Nat
  BY ClaimsAreFinite, ClaimsStayFinite
<1>3. Cardinality(Stolen(e))' = Cardinality(Stolen(e))
  OBVIOUS
<1>4. B \subseteq A => Cardinality(B) <= Cardinality(A)
  <2> HIDE DEF A, B
  <2> QED BY <1>2, FS_Subset
<1>5. ASSUME NEW x, B \subseteq A \cup {x}
      PROVE  Cardinality(B) <= Cardinality(A) + 1
  <2> HIDE DEF A, B
  <2> QED BY <1>2, <1>5, OneMore
<1>6. ASSUME NEW x \in A
      PROVE  /\ IsFiniteSet(A \ {x})
             /\ Cardinality(A \ {x}) = Cardinality(A) - 1
             /\ B \subseteq A \ {x} => Cardinality(B) <= Cardinality(A) - 1
  <2> HIDE DEF A, B
  <2>1. IsFiniteSet(A \ {x}) /\ Cardinality(A \ {x}) = Cardinality(A) - 1
    BY <1>2, FS_RemoveElement
  <2> QED
    BY <2>1, FS_Subset
<1>7. ASSUME NEW x \in A, NEW y, B \subseteq (A \ {x}) \cup {y}
      PROVE  Cardinality(B) <= Cardinality(A)
  <2> HIDE DEF A, B
  <2> DEFINE C == A \ {x}
  <2>1. IsFiniteSet(C) /\ Cardinality(C) = Cardinality(A) - 1
    BY <1>6
  <2> HIDE DEF C
  <2>2. Cardinality(B) <= Cardinality(C) + 1
    BY <1>7, <2>1, OneMore DEF C
  <2> QED
    BY <1>2, <2>1, <2>2
<1>8. CASE EntriesOf(e) = {}
  <2>1. A = {} /\ output[e] = 0
    <3>1. Stolen(e) = {}
      <4> SUFFICES ASSUME NEW p \in stolen, EventOf(p[1]) = e PROVE FALSE
        BY DEF Stolen
      <4>1. p[1] \in 1..Len(stream)
        BY DEF TypeInv, TypeOK
      <4> QED
        BY <1>8, <4>1 DEF EntriesOf
    <3> QED
      BY <1>8, <3>1 DEF Open, Claims, Affordable
  <2>2. output'[e] = output[e]
    BY <1>8, <2>1
  <2> QED
    BY <1>8, <2>1, <2>2 DEF Affordable
<1>9. CASE EntriesOf(e) # {}
  <2>1. output[e] + Cardinality(A) <= 1 + faults + Cardinality(Stolen(e))
    BY <1>9 DEF Affordable
  <2>2. output'[e] + Cardinality(B) <= 1 + faults' + Cardinality(Stolen(e))
    <3> HIDE DEF A, B
    <3> USE DEF A, B
    <3>1. CASE output'[e] = output[e] /\ faults' >= faults /\ B \subseteq A
      <4> HIDE DEF A, B
      <4> QED BY <1>1, <1>2, <1>4, <2>1, <3>1
    <3>2. CASE output'[e] = output[e] /\ faults' = faults + 1 /\ \E x : B \subseteq A \cup {x}
      <4>1. PICK x : B \subseteq A \cup {x}
        BY <3>2
      <4>2. Cardinality(B) <= Cardinality(A) + 1
        BY <1>5, <4>1
      <4> HIDE DEF A, B
      <4> QED BY <1>1, <1>2, <2>1, <3>2, <4>2
    <3>3. CASE /\ output'[e] = output[e] /\ faults' = faults
               /\ \E x \in A : \E y : B \subseteq (A \ {x}) \cup {y}
      <4>1. PICK x \in A : \E y : B \subseteq (A \ {x}) \cup {y}
        BY <3>3
      <4>2. Cardinality(B) <= Cardinality(A)
        <5>1. PICK y : B \subseteq (A \ {x}) \cup {y}
          BY <4>1
        <5> QED BY <1>7, <5>1
      <4> HIDE DEF A, B
      <4> QED BY <1>1, <1>2, <2>1, <3>3, <4>2
    <3>4. CASE /\ output'[e] = output[e] + 1 /\ faults' = faults
               /\ \E x \in A : B \subseteq A \ {x}
      <4>1. PICK x \in A : B \subseteq A \ {x}
        BY <3>4
      <4>2. Cardinality(B) <= Cardinality(A) - 1
        BY <1>6, <4>1
      <4> HIDE DEF A, B
      <4> QED BY <1>1, <1>2, <2>1, <3>4, <4>2
    <3>5. CASE output'[e] = output[e] + 1 /\ faults' = faults + 1 /\ B \subseteq A
      <4> HIDE DEF A, B
      <4> QED BY <1>1, <1>2, <1>4, <2>1, <3>5
    <3> QED
      BY <3>1, <3>2, <3>3, <3>4, <3>5
  <2> QED
    BY <1>3, <1>9, <2>2 DEF Affordable
<1> QED
  BY <1>8, <1>9

LEMMA ClaimsDiffer ==
    ASSUME OneUnclaimed, NEW c \in Consumers, NEW d \in Consumers, c # d,
           NEW i \in batch[c], i \in batch[d]
    PROVE  Claim(c, i) # Claim(d, i)
<1>1. <<i, c>> \in stolen \/ <<i, d>> \in stolen
  BY DEF OneUnclaimed
<1> QED
  BY <1>1, NobodyConsumes DEF Claim

(* Who has an entry and has not spent its claim on it has one to spend. *)
LEMMA HolderHasClaim ==
    ASSUME TypeInv, OneUnclaimed, NEW c \in Consumers, NEW i \in batch[c],
           ~(Spent(c) /\ entry[c] = i)
    PROVE  Claim(c, i) \in Open(EventOf(i))
<1>1. i \in 1..Len(stream)
  BY DEF TypeInv, TypeOK
<1>2. Claim(c, i) \in Claims(EventOf(i)) /\ Claim(c, i)[1] = i
  BY <1>1 DEF Claim, Claims, Stolen, EntriesOf
<1>3. ASSUME NEW d \in Consumers, Spent(d)
      PROVE  Claim(c, i) # Claim(d, entry[d])
  <2>1. entry[d] \in batch[d] /\ Claim(d, entry[d])[1] = entry[d]
    BY <1>3 DEF Spent, TypeInv, HoldsEntry, Busy, Claim
  <2>2. CASE d = c
    BY <1>2, <1>3, <2>1, <2>2
  <2>3. CASE d # c
    BY <1>2, <2>1, <2>3, ClaimsDiffer
  <2> QED
    BY <2>2, <2>3
<1> QED
  BY <1>2, <1>3 DEF Open

(* A step of one process that leaves the stream and the reclaims alone     *)
(* revives no claim but the one the process has spent.                     *)
Others(c) == \A d \in Consumers \ {c} : /\ pc'[d] = pc[d] /\ entry'[d] = entry[d]
                                        /\ batch'[d] = batch[d]

LEMMA ClaimKept ==
    ASSUME TypeInv, NEW c \in Consumers, NEW e, Others(c),
           stream' = stream, stolen' = stolen,
           \A i \in 1..Len(stream) : i > delivered' \/ i \in pending'
                                     => i > delivered \/ i \in pending,
           \A i \in batch'[c] : i \in batch[c] \/ i > delivered \/ i \in pending,
           NEW x, x \in Open(e)', Spent(c) => x # Claim(c, entry[c])
    PROVE  x \in Open(e)
<1>1. x \in Claims(e) /\ x[1] \in EntriesOf(e)
  BY DEF Open, Claims, Stolen, EntriesOf, EventOf, TypeInv, TypeOK
<1>2. ASSUME NEW d \in Consumers, Spent(d) PROVE x # Claim(d, entry[d])
  <2>1. CASE d = c
    BY <1>2, <2>1
  <2>2. CASE d # c
    <3>1. pc'[d] = pc[d] /\ entry'[d] = entry[d]
      BY <2>2 DEF Others
    <3>2. Spent(d)' => x # Claim(d, entry[d])'
      BY DEF Open
    <3> QED
      BY <1>2, <3>1, <3>2 DEF Spent, Claim
  <2> QED
    BY <2>1, <2>2
<1>3. CASE x[1] \in Outstanding(e)'
  <2>1. x[1] \in Outstanding(e)
    BY <1>1, <1>3 DEF Outstanding, EntriesOf, EventOf
  <2> QED
    BY <1>1, <1>2, <2>1 DEF Open
<1>4. CASE x[1] \notin Outstanding(e)'
  <2>1. PICK d \in Consumers : x[1] \in batch'[d] /\ x = Claim(d, x[1])'
    BY <1>4 DEF Open
  <2>2. x = Claim(d, x[1])
    BY <2>1 DEF Claim
  <2>3. x[1] \in batch[d] \/ x[1] \in Outstanding(e)
    <3>1. CASE d = c
      BY <1>1, <2>1, <3>1 DEF Outstanding
    <3>2. CASE d # c
      BY <2>1, <3>2 DEF Others
    <3> QED
      BY <3>1, <3>2
  <2> QED
    BY <1>1, <1>2, <2>2, <2>3 DEF Open
<1> QED
  BY <1>3, <1>4

LEMMA NoClaimRevived ==
    ASSUME TypeInv, NEW c \in Consumers, NEW e, Others(c),
           stream' = stream, stolen' = stolen,
           \A i \in 1..Len(stream) : i > delivered' \/ i \in pending'
                                     => i > delivered \/ i \in pending,
           \A i \in batch'[c] : i \in batch[c] \/ i > delivered \/ i \in pending
    PROVE  /\ \E x : Open(e)' \subseteq Open(e) \cup {x}
           /\ ~Spent(c) \/ (Spent(c)' /\ entry'[c] = entry[c])
              => Open(e)' \subseteq Open(e)
           /\ ~Spent(c) /\ Spent(c)' /\ entry'[c] = entry[c]
              => Open(e)' \subseteq Open(e) \ {Claim(c, entry[c])}
<1>1. \A x \in Open(e)' : (Spent(c) => x # Claim(c, entry[c])) => x \in Open(e)
  BY ClaimKept
<1>2. ASSUME Spent(c)', entry'[c] = entry[c], NEW x \in Open(e)'
      PROVE  x # Claim(c, entry[c])
  <2>1. x # Claim(c, entry[c])'
    BY <1>2 DEF Open
  <2> QED
    BY <1>2, <2>1 DEF Claim
<1>3. Open(e)' \subseteq Open(e) \cup {Claim(c, entry[c])}
  BY <1>1
<1> QED
  BY <1>1, <1>2, <1>3

(* A message added to the stream opens the claim that comes with it. *)
LEMMA OneClaimAppended ==
    ASSUME TypeInv, NEW m, stream' = Append(stream, m), NEW e,
           UNCHANGED <<delivered, pending, batch, entry, stolen>>,
           \A c \in Consumers : Spent(c) => Spent(c)',
           NEW x, x \in Open(e)', x # <<Len(stream) + 1, NoOne>> \/ m.event # e
    PROVE  x \in Open(e)
<1>1. PICK n \in Nat : n = Len(stream)
  BY DEF TypeInv, TypeOK
<1>2. /\ Len(stream') = n + 1 /\ stream'[n + 1] = m
      /\ \A i \in 1..n : stream'[i] = stream[i]
      /\ stolen \subseteq (1..n) \X Consumers
  BY <1>1 DEF TypeInv, TypeOK
<1>3. x \in Claims(e) /\ x[1] \in EntriesOf(e) /\ x[1] \in 1..n
  <2>1. CASE x \in Stolen(e)'
    BY <1>1, <1>2, <2>1 DEF Claims, Stolen, EntriesOf, EventOf
  <2>2. CASE x \notin Stolen(e)'
    <3>1. PICK i \in EntriesOf(e)' : x = <<i, NoOne>>
      BY <2>2 DEF Open, Claims
    <3>2. i \in 1..(n + 1) /\ stream'[i].event = e
      BY <1>2, <3>1 DEF EntriesOf, EventOf
    <3>3. i # n + 1
      BY <1>1, <1>2, <3>1, <3>2
    <3> QED
      BY <1>1, <1>2, <3>1, <3>2, <3>3 DEF Claims, EntriesOf, EventOf
  <2> QED
    BY <2>1, <2>2
<1>4. ASSUME NEW d \in Consumers, Spent(d) PROVE x # Claim(d, entry[d])
  BY <1>4 DEF Open, Claim
<1>5. CASE x[1] \in Outstanding(e)'
  <2>1. x[1] \in Outstanding(e)
    BY <1>3, <1>5 DEF Outstanding
  <2> QED
    BY <1>3, <1>4, <2>1 DEF Open
<1>6. CASE x[1] \notin Outstanding(e)'
  <2>1. PICK d \in Consumers : x[1] \in batch'[d] /\ x = Claim(d, x[1])'
    BY <1>6 DEF Open
  <2> QED
    BY <1>3, <1>4, <2>1 DEF Open, Claim
<1> QED
  BY <1>5, <1>6

(* A reclaim opens at most the claims it is charged for. *)
LEMMA ReclaimsArePaidFor ==
    ASSUME CostInv, TypeInv', NEW c \in Consumers, Recover(c), NEW e
    PROVE  /\ IsFiniteSet(stolen') /\ OneUnclaimed'
           /\ e \in Events => Affordable(e)'
<1> DEFINE page == First({i \in idle : i > cursor[c]}, ClaimBatch)
           taken == {p \in page \X {c} : \E d \in Consumers \ {c} : p[1] \in batch[d]}
<1>1. /\ UNCHANGED <<stream, delivered, pending, output, entry, faults>>
      /\ pc[c] = "recover" /\ pc \in [Consumers -> PC] /\ batch[c] = {}
      /\ batch \in [Consumers -> SUBSET (1..delivered)]
      /\ delivered \in Nat /\ delivered <= Len(stream) /\ Len(stream) \in Nat
      /\ ~Spent(c)
  BY DEF Recover, effects, CostInv, IdleEmpty, TypeInv, TypeOK, Spent
<1>2. page \subseteq idle /\ page \subseteq pending /\ page \subseteq 1..delivered
  BY DEF First, CostInv, TypeInv, TypeOK
<1>3. ~Spent(c)' /\ \A d \in Consumers \ {c} : pc'[d] = pc[d]
  BY <1>1 DEF Recover, Goto, Spent
<1>4. CASE page = {}
  <2>1. UNCHANGED <<batch, stolen>>
    BY <1>4 DEF Recover
  <2>2. Open(e)' \subseteq Open(e)
    BY <1>1, <1>3, <2>1 DEF Open, Claims, Stolen, Claim, EntriesOf, EventOf, Outstanding, Spent
  <2>3. Stolen(e)' = Stolen(e) /\ (EntriesOf(e)' = {} <=> EntriesOf(e) = {})
    BY <1>1, <2>1 DEF Stolen, EventOf, EntriesOf
  <2>4. ASSUME e \in Events PROVE Affordable(e)'
    <3>1. faults \in Nat /\ faults' >= faults /\ output'[e] = output[e]
      BY <1>1, Assumption DEF CostInv, TypeInv, TypeOK
    <3> QED
      BY <2>1, <2>2, <2>3, <2>4, <3>1, Affording DEF CostInv
  <2> QED
    BY <2>1, <2>4 DEF CostInv, OneUnclaimed
<1>5. CASE page # {}
  <2>1. batch' = [batch EXCEPT ![c] = page] /\ stolen' = stolen \cup taken
    BY <1>5 DEF Recover
  <2> HIDE DEF page
  <2>2. /\ batch'[c] = page /\ \A d \in Consumers \ {c} : batch'[d] = batch[d]
    BY <1>1, <2>1
  <2>3. taken \subseteq (1..delivered) \X Consumers
    BY <1>2
  <2>4. IsFiniteSet(taken)
    <3> DEFINE ids == 1..delivered
               own == ids \X {c}
    <3>1. IsFiniteSet(ids)
      BY <1>1, FS_Interval
    <3>2. IsFiniteSet({c})
      BY FS_Singleton
    <3>3. taken \in SUBSET own
      BY <1>2
    <3> HIDE DEF ids, taken
    <3>4. IsFiniteSet(own)
      BY <3>1, <3>2, FS_Product
    <3> HIDE DEF own
    <3> QED
      BY <3>3, <3>4, FS_Subset
  <2>5. OneUnclaimed'
    <3> SUFFICES ASSUME NEW d \in Consumers, NEW g \in Consumers, d # g,
                        NEW i \in batch'[d], i \in batch'[g]
                 PROVE  <<i, d>> \in stolen' \/ <<i, g>> \in stolen'
      BY DEF OneUnclaimed
    <3>1. CASE d # c /\ g # c
      BY <2>1, <2>2, <3>1 DEF CostInv, OneUnclaimed
    <3>2. CASE d = c
      <4>1. <<i, c>> \in taken
        BY <2>2, <3>2
      <4> QED
        BY <2>1, <3>2, <4>1
    <3>3. CASE g = c
      <4>1. <<i, c>> \in taken
        BY <2>2, <3>3
      <4> QED
        BY <2>1, <3>3, <4>1
    <3> QED
      BY <3>1, <3>2, <3>3
  <2> HIDE DEF taken
  <2>6. IsFiniteSet(stolen')
    BY <2>1, <2>4, FS_Union DEF CostInv
  <2> DEFINE new == Stolen(e)' \ stolen
  <2>7. /\ Stolen(e)' = Stolen(e) \cup new /\ Stolen(e) \cap new = {}
        /\ new \subseteq stolen'
    BY <1>1, <2>1 DEF Stolen, EventOf
  <2>8. Open(e)' \subseteq Open(e) \cup new
    <3> SUFFICES ASSUME NEW x \in Open(e)', x \notin new PROVE x \in Open(e)
      OBVIOUS
    <3>1. x \in Claims(e) /\ x[1] \in EntriesOf(e)
      BY <1>1, <2>1 DEF Open, Claims, Stolen, EntriesOf, EventOf, CostInv, TypeInv, TypeOK
    <3>2. ASSUME NEW d \in Consumers, Spent(d) PROVE x # Claim(d, entry[d])
      <4>1. d # c /\ Spent(d)' /\ entry'[d] = entry[d]
        BY <1>1, <1>3, <3>2 DEF Spent
      <4>2. x # Claim(d, entry[d])'
        BY <4>1 DEF Open
      <4>3. <<entry[d], d>> \in stolen' <=> <<entry[d], d>> \in stolen
        BY <2>1, <4>1 DEF taken
      <4> QED
        BY <4>1, <4>2, <4>3 DEF Claim
    <3>3. CASE x[1] \in Outstanding(e)'
      BY <1>1, <3>1, <3>2, <3>3 DEF Open, Outstanding
    <3>4. CASE x[1] \notin Outstanding(e)'
      <4>1. PICK d \in Consumers : x[1] \in batch'[d] /\ x = Claim(d, x[1])'
        BY <3>4 DEF Open
      <4>2. CASE d = c
        <5>1. x[1] \in Outstanding(e)
          BY <1>2, <2>2, <3>1, <4>1, <4>2 DEF Outstanding
        <5> QED
          BY <3>1, <3>2, <5>1 DEF Open
      <4>3. CASE d # c
        <5>1. x[1] \in batch[d]
          BY <2>2, <4>1, <4>3
        <5>2. <<x[1], d>> \in stolen' <=> <<x[1], d>> \in stolen
          BY <2>1, <4>3 DEF taken
        <5>3. x = Claim(d, x[1])
          BY <4>1, <5>2 DEF Claim
        <5> QED
          BY <3>1, <3>2, <5>1, <5>3 DEF Open
      <4> QED
        BY <4>2, <4>3
    <3> QED
      BY <3>3, <3>4
  <2> HIDE DEF new
  <2>9. /\ IsFiniteSet(new) /\ Cardinality(new) \in Nat
        /\ Cardinality(Stolen(e)') = Cardinality(Stolen(e)) + Cardinality(new)
        /\ Cardinality(Open(e)') <= Cardinality(Open(e)) + Cardinality(new)
    <3> DEFINE A == Open(e)
               B == Open(e)'
               S == Stolen(e)
               T == Stolen(e)'
    <3>1. /\ IsFiniteSet(A) /\ IsFiniteSet(B) /\ IsFiniteSet(S)
          /\ Cardinality(A) \in Nat /\ Cardinality(B) \in Nat /\ Cardinality(S) \in Nat
      BY <2>6, ClaimsAreFinite, ClaimsStayFinite DEF CostInv
    <3> HIDE DEF A, B, S, T
    <3>2. IsFiniteSet(new) /\ Cardinality(new) \in Nat
      BY <2>6, <2>7, FS_Subset, FS_CardinalityType
    <3>3. T = S \cup new /\ S \cap new = {} /\ B \subseteq A \cup new
      BY <2>7, <2>8 DEF A, B, S, T
    <3>4. Cardinality(T) = Cardinality(S) + Cardinality(new) - Cardinality(S \cap new)
      BY <3>1, <3>2, <3>3, FS_Union
    <3>5. Cardinality(S \cap new) = 0
      BY <3>3, FS_EmptySet
    <3>6. /\ IsFiniteSet(A \cup new)
          /\ Cardinality(A \cup new)
               = Cardinality(A) + Cardinality(new) - Cardinality(A \cap new)
      BY <3>1, <3>2, FS_Union
    <3>7. Cardinality(A \cap new) \in Nat
      BY <3>2, FS_Intersection, FS_CardinalityType
    <3>8. Cardinality(B) <= Cardinality(A \cup new) /\ Cardinality(A \cup new) \in Nat
      BY <3>3, <3>6, FS_Subset, FS_CardinalityType
    <3>9. /\ Cardinality(T) = Cardinality(S) + Cardinality(new)
          /\ Cardinality(B) <= Cardinality(A) + Cardinality(new)
      BY <3>1, <3>2, <3>4, <3>5, <3>6, <3>7, <3>8
    <3> QED
      BY <3>2, <3>9 DEF A, B, S, T
  <2>10. EntriesOf(e)' = EntriesOf(e) /\ output'[e] = output[e] /\ faults' = faults
    BY <1>1 DEF EntriesOf, EventOf
  <2>11. ASSUME e \in Events PROVE Affordable(e)'
    <3>1. /\ output[e] \in Nat /\ faults \in Nat
          /\ TypeInv /\ IsFiniteSet(stolen)
      <4>1. TypeInv /\ IsFiniteSet(stolen)
        BY DEF CostInv
      <4>2. output \in [Events -> Nat] /\ faults \in Nat
        BY <4>1, Assumption DEF TypeInv, TypeOK
      <4> QED
        BY <2>11, <4>1, <4>2
    <3>2. /\ Cardinality(Open(e)) \in Nat /\ Cardinality(Open(e)') \in Nat
          /\ Cardinality(Stolen(e)) \in Nat
      BY <2>6, <3>1, ClaimsAreFinite, ClaimsStayFinite
    <3>3. Affordable(e)
      BY <2>11 DEF CostInv
    <3>4. CASE EntriesOf(e) = {}
      BY <2>10, <3>3, <3>4 DEF Affordable
    <3>5. CASE EntriesOf(e) # {}
      <4>1. output[e] + Cardinality(Open(e)) <= 1 + faults + Cardinality(Stolen(e))
        BY <3>3, <3>5 DEF Affordable
      <4>2. output'[e] + Cardinality(Open(e)') <= 1 + faults' + Cardinality(Stolen(e)')
        BY <2>9, <2>10, <3>1, <3>2, <4>1
      <4> QED
        BY <2>10, <3>5, <4>2 DEF Affordable
    <3> QED
      BY <3>4, <3>5
  <2> QED
    BY <2>5, <2>6, <2>11
<1> QED
  BY <1>4, <1>5

(* A step of one process other than a reclaim: it fetches only what nobody *)
(* has, and its part in the claims is what NoClaimRevived says.            *)
Plain(c) == /\ Others(c) /\ stolen' = stolen
            /\ \A i \in batch'[c] : i \in batch[c] \/ i > delivered
            /\ pc'[c] \in {"down", "recover", "read"} => batch'[c] = {}

LEMMA PlainKeeps ==
    ASSUME CostInv, NEW c \in Consumers, Plain(c)
    PROVE  IsFiniteSet(stolen') /\ IdleEmpty' /\ OneUnclaimed'
<1>1. batch \in [Consumers -> SUBSET (1..delivered)] /\ delivered \in Nat
  BY DEF CostInv, TypeInv, TypeOK
<1>2. OneUnclaimed'
  <2> SUFFICES ASSUME NEW d \in Consumers, NEW g \in Consumers, d # g,
                      NEW i \in batch'[d], i \in batch'[g]
               PROVE  <<i, d>> \in stolen' \/ <<i, g>> \in stolen'
    BY DEF OneUnclaimed
  <2>1. i \in batch[d] /\ i \in batch[g]
    BY <1>1 DEF Plain, Others
  <2> QED
    BY <2>1 DEF CostInv, OneUnclaimed, Plain
<1> QED
  BY <1>2 DEF CostInv, IdleEmpty, Plain, Others

LEMMA AckAffords ==
    ASSUME CostInv, TypeInv', NEW c \in Consumers, Ack(c), NEW e
    PROVE  Plain(c) /\ (e \in Events => Affordable(e)')
<1>1. /\ UNCHANGED <<stream, delivered, output, faults, stolen>>
      /\ pending' = pending \ {entry[c]} /\ batch' = [batch EXCEPT ![c] = @ \ {entry[c]}]
      /\ entry' = [entry EXCEPT ![c] = 0]
      /\ pc' = [pc EXCEPT ![c] = IF batch[c] \ {entry[c]} = {} THEN AfterBatch(c) ELSE "check"]
      /\ pc[c] \in {"ack", "duplicate", "superseded", "buried"}
  BY DEF Ack, XAck, Finish, Goto, effects
<1>2. /\ pc \in [Consumers -> PC] /\ entry \in [Consumers -> 0..delivered]
      /\ batch \in [Consumers -> SUBSET (1..delivered)]
      /\ delivered \in Nat /\ Len(stream) \in Nat /\ delivered <= Len(stream)
      /\ entry[c] \in batch[c] /\ faults \in Nat
  BY <1>1, Assumption DEF CostInv, TypeInv, TypeOK, HoldsEntry, Busy
<1>3. /\ Others(c) /\ batch'[c] = batch[c] \ {entry[c]} /\ ~Spent(c)'
      /\ pc'[c] \in {"down", "recover", "read"} => batch'[c] = {}
  BY <1>1, <1>2 DEF Others, Spent, AfterBatch
<1>4. ASSUME NEW x \in Open(e)' PROVE x \in Open(e)
  <2>1. ASSUME Spent(c), x = Claim(c, entry[c]) PROVE FALSE
    <3>1. x[1] = entry[c]
      BY <2>1 DEF Claim
    <3>2. x[1] \notin Outstanding(e)'
      BY <1>1, <1>2, <3>1 DEF Outstanding
    <3>3. PICK d \in Consumers : x[1] \in batch'[d] /\ x = Claim(d, x[1])'
      BY <3>2 DEF Open
    <3>4. d # c /\ x[1] \in batch[d] /\ x = Claim(d, entry[c])
      BY <1>1, <1>3, <3>1, <3>3 DEF Others, Claim
    <3>5. Claim(c, entry[c]) # Claim(d, entry[c])
      BY <1>2, <3>1, <3>4, ClaimsDiffer DEF CostInv
    <3> QED
      BY <2>1, <3>4, <3>5
  <2>2. TypeInv /\ stream' = stream /\ stolen' = stolen
    BY <1>1 DEF CostInv
  <2>3. \A i \in 1..Len(stream) : i > delivered' \/ i \in pending'
                                  => i > delivered \/ i \in pending
    BY <1>1
  <2>4. \A i \in batch'[c] : i \in batch[c] \/ i > delivered \/ i \in pending
    BY <1>3
  <2> QED
    BY <1>3, <2>1, <2>2, <2>3, <2>4, ClaimKept
<1>5. Stolen(e)' = Stolen(e) /\ (EntriesOf(e)' = {} <=> EntriesOf(e) = {})
  BY <1>1 DEF Stolen, EntriesOf, EventOf
<1>6. ASSUME e \in Events PROVE Affordable(e)'
  <2>1. output'[e] = output[e] /\ faults' >= faults /\ Open(e)' \subseteq Open(e)
    BY <1>1, <1>2, <1>4
  <2> QED
    BY <1>1, <1>5, <1>6, <2>1, Affording DEF CostInv
<1> QED
  BY <1>1, <1>3, <1>6 DEF Plain

LEMMA ResubmitAffords ==
    ASSUME CostInv, TypeInv', NEW c \in Consumers, Resubmit(c), NEW e
    PROVE  Plain(c) /\ (e \in Events => Affordable(e)')
<1> DEFINE m == [event |-> EventOf(entry[c]), retry |-> RetryOf(entry[c]) + 1]
<1>1. /\ UNCHANGED <<delivered, pending, output, batch, entry, faults, stolen>>
      /\ stream' = Append(stream, m) /\ m.event = EventOf(entry[c])
      /\ pc[c] = "failed" /\ pc' = [pc EXCEPT ![c] = "superseded"]
  BY DEF Resubmit, Goto, effects, local
<1> HIDE DEF m
<1>2. /\ pc \in [Consumers -> PC] /\ Len(stream) \in Nat /\ stream \in Seq(Message)
      /\ entry[c] \in batch[c] /\ entry[c] \in 1..Len(stream) /\ faults \in Nat
      /\ stolen \subseteq (1..Len(stream)) \X Consumers
  BY <1>1, Assumption DEF CostInv, TypeInv, TypeOK, HoldsEntry, Busy
<1>3. Plain(c) /\ ~Spent(c) /\ Spent(c)' /\ \A d \in Consumers : Spent(d) => Spent(d)'
  BY <1>1, <1>2 DEF Plain, Others, Spent
<1>4. PICK n \in Nat : n = Len(stream)
  BY <1>2
<1>5. /\ Len(stream') = n + 1 /\ \A i \in 1..n : stream'[i] = stream[i]
      /\ stream'[n + 1] = m
  BY <1>1, <1>2, <1>4
<1>6. Stolen(e)' = Stolen(e)
  BY <1>1, <1>2, <1>4, <1>5 DEF Stolen, EventOf
<1>7. entry[c] \in EntriesOf(m.event)
  BY <1>1, <1>2 DEF EntriesOf
<1>8. EntriesOf(e) \subseteq EntriesOf(e)' /\ (m.event # e => EntriesOf(e)' \subseteq EntriesOf(e))
  BY <1>4, <1>5 DEF EntriesOf, EventOf
<1>9. EntriesOf(e)' = {} <=> EntriesOf(e) = {}
  BY <1>7, <1>8
<1>10. \A x \in Open(e)' : x # <<Len(stream) + 1, NoOne>> \/ m.event # e => x \in Open(e)
  BY <1>1, <1>3, OneClaimAppended DEF CostInv
<1>11. Claim(c, entry[c]) \notin Open(e)'
  BY <1>1, <1>3 DEF Open, Claim
<1>12. ASSUME e \in Events, m.event # e PROVE Affordable(e)'
  <2>1. output'[e] = output[e] /\ faults' >= faults /\ Open(e)' \subseteq Open(e)
    BY <1>1, <1>2, <1>10, <1>12
  <2> QED
    BY <1>3, <1>6, <1>9, <1>12, <2>1, Affording DEF CostInv, Plain
<1>13. ASSUME e \in Events, m.event = e PROVE Affordable(e)'
  <2>1. Claim(c, entry[c]) \in Open(e)
    BY <1>1, <1>2, <1>3, <1>13, HolderHasClaim DEF CostInv
  <2>2. \E y : Open(e)' \subseteq (Open(e) \ {Claim(c, entry[c])}) \cup {y}
    BY <1>10, <1>11
  <2>3. output'[e] = output[e] /\ faults' = faults
        /\ \E x \in Open(e) : \E y : Open(e)' \subseteq (Open(e) \ {x}) \cup {y}
    BY <1>1, <2>1, <2>2
  <2> QED
    BY <1>3, <1>6, <1>9, <1>13, <2>3, Affording DEF CostInv, Plain
<1> QED
  BY <1>3, <1>12, <1>13

(* The first entry of an event opens its first claim. *)
LEMMA IngestAffords ==
    ASSUME CostInv, TypeInv', NEW d \in Events, Ingest(d), NEW e \in Events
    PROVE  Affordable(e)'
<1> DEFINE m == [event |-> d, retry |-> 0]
<1>1. /\ UNCHANGED <<delivered, pending, output, pc, batch, entry, faults, stolen>>
      /\ stream' = Append(stream, m) /\ m.event = d /\ EntriesOf(d) = {}
  BY DEF Ingest, effects, local
<1> HIDE DEF m
<1>2. /\ Len(stream) \in Nat /\ stream \in Seq(Message) /\ faults \in Nat
      /\ stolen \subseteq (1..Len(stream)) \X Consumers /\ output[e] \in Nat
  BY Assumption DEF CostInv, TypeInv, TypeOK
<1>3. \A c \in Consumers : Spent(c) => Spent(c)'
  BY <1>1 DEF Spent
<1>4. PICK n \in Nat : n = Len(stream)
  BY <1>2
<1>5. /\ Len(stream') = n + 1 /\ \A i \in 1..n : stream'[i] = stream[i]
      /\ stream'[n + 1] = m
  BY <1>1, <1>2, <1>4
<1>6. Stolen(e)' = Stolen(e)
  BY <1>1, <1>2, <1>4, <1>5 DEF Stolen, EventOf
<1>7. \A x \in Open(e)' : x # <<Len(stream) + 1, NoOne>> \/ m.event # e => x \in Open(e)
  BY <1>1, <1>3, OneClaimAppended DEF CostInv
<1>8. CASE d # e
  <2>1. EntriesOf(e)' = {} <=> EntriesOf(e) = {}
    BY <1>1, <1>4, <1>5, <1>8 DEF EntriesOf, EventOf
  <2>2. output'[e] = output[e] /\ faults' >= faults /\ Open(e)' \subseteq Open(e)
    BY <1>1, <1>2, <1>7, <1>8
  <2> QED
    BY <1>1, <1>6, <2>1, <2>2, Affording DEF CostInv
<1>9. CASE d = e
  <2>1. Stolen(e) = {}
    BY <1>1, <1>2, <1>9 DEF Stolen, EntriesOf
  <2>2. Open(e) = {} /\ output[e] = 0
    BY <1>1, <1>9, <2>1 DEF Open, Claims, CostInv, Affordable
  <2>3. Open(e)' \subseteq {} \cup {<<Len(stream) + 1, NoOne>>}
    BY <1>7, <2>2
  <2>4. Cardinality(Open(e)') <= 1
    <3> DEFINE T == Open(e)'
               x == <<Len(stream) + 1, NoOne>>
    <3>1. IsFiniteSet({}) /\ Cardinality({}) = 0
      BY FS_EmptySet
    <3>2. T \subseteq {} \cup {x}
      BY <2>3
    <3> HIDE DEF T, x
    <3>3. Cardinality(T) <= Cardinality({}) + 1
      BY <3>1, <3>2, OneMore
    <3> QED
      BY <3>1, <3>3 DEF T
  <2>5. Cardinality(Open(e)') \in Nat /\ Cardinality(Stolen(e)') \in Nat
    BY <1>1, ClaimsStayFinite DEF CostInv
  <2>6. n + 1 \in EntriesOf(e)'
    BY <1>1, <1>4, <1>5, <1>9 DEF EntriesOf, EventOf
  <2> QED
    BY <1>1, <1>2, <2>2, <2>4, <2>5, <2>6 DEF Affordable
<1> QED
  BY <1>8, <1>9

(* What a process at work on an entry does to the claims on its event. *)
LEMMA WorkAffords ==
    ASSUME CostInv, TypeInv', NEW c \in Consumers, NEW e \in Events,
           stream' = stream, pending' \subseteq pending, delivered' = delivered, Plain(c),
           \/ /\ output' = output /\ faults' = faults
              /\ ~Spent(c) \/ (Spent(c)' /\ entry'[c] = entry[c])
           \/ output' = output /\ faults' = faults + 1
           \/ /\ output' = [output EXCEPT ![EventOf(entry[c])] = @ + 1]
              /\ entry[c] \in batch[c] /\ ~Spent(c)
              /\ \/ faults' = faults + 1
                 \/ faults' = faults /\ Spent(c)' /\ entry'[c] = entry[c]
    PROVE  Affordable(e)'
<1>1. /\ faults \in Nat /\ output \in [Events -> Nat] /\ Len(stream) \in Nat
      /\ stream \in Seq(Message) /\ \A i \in batch[c] : i \in 1..Len(stream)
  BY Assumption DEF CostInv, TypeInv, TypeOK
<1>2. TypeInv /\ OneUnclaimed /\ Affordable(e) /\ IsFiniteSet(stolen) /\ IsFiniteSet(stolen')
  BY DEF CostInv, Plain
<1>3. Stolen(e)' = Stolen(e) /\ (EntriesOf(e)' = {} <=> EntriesOf(e) = {})
  BY DEF Stolen, EntriesOf, EventOf, Plain
<1>4. /\ \E x : Open(e)' \subseteq Open(e) \cup {x}
      /\ ~Spent(c) \/ (Spent(c)' /\ entry'[c] = entry[c]) => Open(e)' \subseteq Open(e)
      /\ ~Spent(c) /\ Spent(c)' /\ entry'[c] = entry[c]
         => Open(e)' \subseteq Open(e) \ {Claim(c, entry[c])}
  <2>1. /\ Others(c) /\ stolen' = stolen
        /\ \A i \in 1..Len(stream) : i > delivered' \/ i \in pending'
                                     => i > delivered \/ i \in pending
        /\ \A i \in batch'[c] : i \in batch[c] \/ i > delivered \/ i \in pending
    BY DEF Plain
  <2> QED
    BY <1>2, <2>1, NoClaimRevived
<1>5. CASE output'[e] = output[e] /\ faults' = faults
  <2>1. ~Spent(c) \/ (Spent(c)' /\ entry'[c] = entry[c])
    BY <1>1, <1>5
  <2> QED
    BY <1>1, <1>2, <1>3, <1>4, <1>5, <2>1, Affording
<1>6. CASE output'[e] = output[e] /\ faults' = faults + 1
  BY <1>2, <1>3, <1>4, <1>6, Affording
<1>7. CASE output'[e] # output[e]
  <2>1. /\ output'[e] = output[e] + 1 /\ EventOf(entry[c]) = e
        /\ entry[c] \in batch[c] /\ ~Spent(c)
    BY <1>1, <1>7
  <2>2. EntriesOf(e) # {}
    BY <1>1, <2>1 DEF EntriesOf
  <2>3. CASE faults' = faults + 1
    BY <1>2, <1>3, <1>4, <2>1, <2>2, <2>3, Affording
  <2>4. CASE faults' = faults /\ Spent(c)' /\ entry'[c] = entry[c]
    <3>1. Claim(c, entry[c]) \in Open(e)
      BY <1>2, <2>1, HolderHasClaim
    <3>2. \E x \in Open(e) : Open(e)' \subseteq Open(e) \ {x}
      BY <1>4, <2>1, <2>4, <3>1
    <3> QED
      BY <1>2, <1>3, <2>1, <2>2, <2>4, <3>2, Affording
  <2> QED
    BY <1>1, <1>7, <2>3, <2>4
<1> QED
  BY <1>1, <1>5, <1>6, <1>7

(* XREADGROUP hands out entries that were still to come. *)
LEMMA ReadAffords ==
    ASSUME CostInv, TypeInv', NEW c \in Consumers, Read(c), NEW e
    PROVE  Plain(c) /\ (e \in Events => Affordable(e)')
<1> DEFINE fetched == First((delivered + 1)..Len(stream), BatchSize)
<1>1. /\ UNCHANGED <<stream, output, entry, faults, stolen>> /\ pc[c] = "read"
      /\ pc \in [Consumers -> PC] /\ batch \in [Consumers -> SUBSET (1..delivered)]
      /\ delivered \in Nat /\ Len(stream) \in Nat /\ batch[c] = {} /\ faults \in Nat
      /\ ~Spent(c)
  BY Assumption DEF Read, effects, CostInv, IdleEmpty, TypeInv, TypeOK, Spent
<1>2. fetched \subseteq (delivered + 1)..Len(stream)
  BY DEF First
<1>3. /\ Plain(c)
      /\ \A i \in 1..Len(stream) : i > delivered' \/ i \in pending'
                                   => i > delivered \/ i \in pending
  <2>1. CASE fetched = {}
    <3>1. UNCHANGED <<delivered, pending, batch>> /\ pc' = [pc EXCEPT ![c] = "recover"]
      BY <2>1 DEF Read, Goto
    <3> QED
      BY <1>1, <3>1 DEF Plain, Others
  <2>2. CASE fetched # {}
    <3>1. PICK last \in fetched :
             /\ delivered' = last /\ pending' = pending \cup fetched
             /\ batch' = [batch EXCEPT ![c] = fetched] /\ pc' = [pc EXCEPT ![c] = "check"]
      BY <2>2 DEF Read, Goto
    <3> HIDE DEF fetched
    <3>2. last > delivered /\ \A i \in fetched : i > delivered
      BY <1>1, <1>2, <3>1
    <3>3. last \in Nat
      BY <1>1, <1>2, <3>1
    <3>4. Plain(c)
      BY <1>1, <3>1, <3>2 DEF Plain, Others
    <3>5. \A i \in 1..Len(stream) : i > delivered' \/ i \in pending'
                                    => i > delivered \/ i \in pending
      BY <1>1, <3>1, <3>2, <3>3
    <3> QED
      BY <3>4, <3>5
  <2> QED
    BY <2>1, <2>2
<1>4. /\ TypeInv /\ IsFiniteSet(stolen) /\ IsFiniteSet(stolen')
      /\ e \in Events => Affordable(e)
  BY <1>1 DEF CostInv
<1>5. Open(e)' \subseteq Open(e)
  <2>1. \A i \in batch'[c] : i \in batch[c] \/ i > delivered \/ i \in pending
    BY <1>3 DEF Plain
  <2>2. Others(c)
    BY <1>3 DEF Plain
  <2> QED
    BY <1>1, <1>3, <1>4, <2>1, <2>2, NoClaimRevived
<1>6. Stolen(e)' = Stolen(e) /\ (EntriesOf(e)' = {} <=> EntriesOf(e) = {})
  BY <1>1 DEF Stolen, EntriesOf, EventOf
<1>7. output'[e] = output[e] /\ faults' >= faults
  BY <1>1
<1>8. ASSUME e \in Events PROVE Affordable(e)'
  BY <1>4, <1>5, <1>6, <1>7, <1>8, Affording
<1> QED
  BY <1>3, <1>8

LEMMA CostStep ==
    ASSUME CostInv, NEW c \in Consumers, Crash(c) \/ Restart(c) \/ Step(c)
    PROVE  CostInv'
<1>1. TypeInv'
  BY TypeNext DEF CostInv, Next
<1> SUFFICES /\ IsFiniteSet(stolen') /\ IdleEmpty' /\ OneUnclaimed'
             /\ \A e \in Events : Affordable(e)'
  BY <1>1 DEF CostInv
<1>2. ASSUME Plain(c), \A e \in Events : Affordable(e)'
      PROVE  /\ IsFiniteSet(stolen') /\ IdleEmpty' /\ OneUnclaimed'
             /\ \A e \in Events : Affordable(e)'
  BY <1>2, PlainKeeps
<1>3. /\ pc \in [Consumers -> PC] /\ batch \in [Consumers -> SUBSET (1..delivered)]
      /\ entry \in [Consumers -> 0..delivered] /\ IdleEmpty
      /\ output \in [Events -> Nat]
      /\ pc[c] \in Busy => entry[c] \in batch[c]
  BY DEF CostInv, TypeInv, TypeOK, HoldsEntry
<1> DEFINE Work == /\ stream' = stream /\ pending' \subseteq pending /\ delivered' = delivered
                   /\ Plain(c)
                   /\ \/ /\ output' = output /\ faults' = faults
                         /\ ~Spent(c) \/ (Spent(c)' /\ entry'[c] = entry[c])
                      \/ output' = output /\ faults' = faults + 1
                      \/ /\ output' = [output EXCEPT ![EventOf(entry[c])] = @ + 1]
                         /\ entry[c] \in batch[c] /\ ~Spent(c)
                         /\ \/ faults' = faults + 1
                            \/ faults' = faults /\ Spent(c)' /\ entry'[c] = entry[c]
<1>4. ASSUME Work PROVE \A e \in Events : Affordable(e)'
  <2>1. TAKE e \in Events
  <2> QED
    BY <1>1, <1>4, WorkAffords
<1> USE DEF Plain, Others, Goto, redis, effects, local
<1>5. CASE Crash(c)
  <2>1. Work
    BY <1>3, <1>5 DEF Crash
  <2> QED BY <1>2, <1>4, <2>1
<1>6. CASE Restart(c)
  <2>1. Work
    BY <1>3, <1>6 DEF Restart, IdleEmpty, Spent
  <2> QED BY <1>2, <1>4, <2>1
<1>7. CASE Check(c)
  <2>1. PICK i \in batch[c] : entry' = [entry EXCEPT ![c] = i]
                              /\ pc'[c] \in {"duplicate", "handle"}
    BY <1>3, <1>7 DEF Check
  <2>2. Work
    BY <1>3, <1>7, <2>1 DEF Check, Spent
  <2> QED BY <1>2, <1>4, <2>2
<1>8. CASE Handle(c)
  <2>1. Work
    BY <1>3, <1>8 DEF Handle, Spent
  <2> QED BY <1>2, <1>4, <2>1
<1>9. CASE Publish(c)
  <2>1. Plain(c) /\ entry[c] \in batch[c] /\ ~Spent(c) /\ entry' = entry
    BY <1>3, <1>9 DEF Publish, Replied, Spent, Busy
  <2>2. \/ faults' = faults + 1
        \/ faults' = faults /\ Spent(c)'
    BY <1>3, <1>9 DEF Publish, Replied, Spent
  <2>3. Work
    BY <1>9, <2>1, <2>2 DEF Publish
  <2> QED BY <1>2, <1>4, <2>3
<1>10. CASE MarkProcessed(c)
  <2>1. Work
    BY <1>3, <1>10 DEF MarkProcessed, Replied, Spent
  <2> QED BY <1>2, <1>4, <2>1
<1>11. CASE AckReplyLost(c)
  <2>1. Work
    BY <1>3, <1>11 DEF AckReplyLost, XAck
  <2> QED BY <1>2, <1>4, <2>1
<1>12. CASE CallFails(c)
  <2>1. Work
    BY <1>3, <1>12 DEF CallFails
  <2> QED BY <1>2, <1>4, <2>1
<1>13. CASE Bury(c)
  <2>1. Work
    BY <1>3, <1>13 DEF Bury, Spent
  <2> QED BY <1>2, <1>4, <2>1
<1>14. CASE Recover(c)
  <2>1. IdleEmpty'
    <3> DEFINE page == First({i \in idle : i > cursor[c]}, ClaimBatch)
    <3>1. CASE page = {}
      BY <1>3, <1>14, <3>1 DEF Recover, IdleEmpty
    <3>2. CASE page # {}
      <4>1. pc' = [pc EXCEPT ![c] = "check"] /\ \E page_ : batch' = [batch EXCEPT ![c] = page_]
        BY <1>14, <3>2 DEF Recover
      <4> QED
        BY <1>3, <4>1 DEF IdleEmpty
    <3> QED
      BY <3>1, <3>2
  <2>2. \A e : /\ IsFiniteSet(stolen') /\ OneUnclaimed'
               /\ e \in Events => Affordable(e)'
    BY <1>1, <1>14, ReclaimsArePaidFor
  <2> QED
    BY <2>1, <2>2
<1> HIDE DEF Plain
<1>15. CASE Read(c)
  <2>1. \A e : Plain(c) /\ (e \in Events => Affordable(e)')
    BY <1>1, <1>15, ReadAffords
  <2> QED
    BY <1>2, <2>1
<1>16. CASE Ack(c)
  <2>1. \A e : Plain(c) /\ (e \in Events => Affordable(e)')
    BY <1>1, <1>16, AckAffords
  <2> QED
    BY <1>2, <2>1
<1>17. CASE Resubmit(c)
  <2>1. \A e : Plain(c) /\ (e \in Events => Affordable(e)')
    BY <1>1, <1>17, ResubmitAffords
  <2> QED
    BY <1>2, <2>1
<1> QED
  BY <1>5, <1>6, <1>7, <1>8, <1>9, <1>10, <1>11, <1>12, <1>13, <1>14, <1>15, <1>16,
     <1>17 DEF Step

LEMMA CostNext == CostInv /\ [Next]_vars => CostInv'
<1> SUFFICES ASSUME CostInv, [Next]_vars
             PROVE  CostInv'
  OBVIOUS
<1>1. TypeInv'
  BY TypeNext DEF CostInv
<1>2. ASSUME NEW c \in Consumers, Crash(c) \/ Restart(c) \/ Step(c) PROVE CostInv'
  BY <1>2, CostStep
<1>3. ASSUME NEW d \in Events, Ingest(d) PROVE CostInv'
  <2>1. UNCHANGED <<pc, batch, stolen>>
    BY <1>3 DEF Ingest, local
  <2>2. IsFiniteSet(stolen') /\ IdleEmpty' /\ OneUnclaimed'
    BY <2>1 DEF CostInv, IdleEmpty, OneUnclaimed
  <2>3. \A e \in Events : Affordable(e)'
    BY <1>1, <1>3, IngestAffords
  <2> QED
    BY <1>1, <2>2, <2>3 DEF CostInv
<1>4. ASSUME (\E i \in pending : GrowIdle(i)) \/ UNCHANGED vars PROVE CostInv'
  <2>1. UNCHANGED <<stream, delivered, pending, output, pc, batch, entry, faults, stolen>>
    BY <1>4 DEF GrowIdle, vars, redis, effects, local
  <2>2. IsFiniteSet(stolen') /\ IdleEmpty' /\ OneUnclaimed'
    BY <2>1 DEF CostInv, IdleEmpty, OneUnclaimed
  <2>3. ASSUME NEW e \in Events PROVE Affordable(e)'
    <3>1. Open(e)' = Open(e)
      BY <2>1 DEF Open, Claims, Claim, Stolen, Spent, Outstanding, EntriesOf, EventOf
    <3>2. Stolen(e)' = Stolen(e) /\ EntriesOf(e)' = EntriesOf(e)
      BY <2>1 DEF Stolen, EntriesOf, EventOf
    <3>3. Affordable(e)
      BY DEF CostInv
    <3> QED
      BY <2>1, <3>1, <3>2, <3>3 DEF Affordable
  <2> QED
    BY <1>1, <2>2, <2>3 DEF CostInv
<1> QED
  BY <1>2, <1>3, <1>4 DEF Next

LEMMA CostInit == Init => CostInv
<1> SUFFICES ASSUME Init
             PROVE  CostInv
  OBVIOUS
<1>1. TypeInv
  BY TypeInit
<1>2. IsFiniteSet(stolen)
  BY FS_EmptySet DEF Init
<1>3. IdleEmpty /\ OneUnclaimed
  BY DEF Init, IdleEmpty, OneUnclaimed
<1>4. \A e \in Events : Affordable(e)
  BY DEF Init, Affordable, EntriesOf
<1> QED
  BY <1>1, <1>2, <1>3, <1>4 DEF CostInv

LEMMA CostBounds == CostInv => DuplicatesAccounted
<1> SUFFICES ASSUME CostInv, NEW e \in Events
             PROVE  output[e] <= 1 + faults + Cardinality(Stolen(e))
  BY DEF DuplicatesAccounted, Stolen
<1>1. TypeInv /\ IsFiniteSet(stolen) /\ Affordable(e)
  BY DEF CostInv
<1>2. output \in [Events -> Nat] /\ faults \in Nat
  BY <1>1, Assumption DEF TypeInv, TypeOK
<1>3. Cardinality(Open(e)) \in Nat /\ Cardinality(Stolen(e)) \in Nat
  BY <1>1, ClaimsAreFinite
<1> QED
  BY <1>1, <1>2, <1>3 DEF Affordable

(* Results repeat only for a reason: beyond the first, every result of an  *)
(* event is paid for by a fault or by a reclaim from a process at work,    *)
(* for every number of processes, retries and entries per batch.           *)
THEOREM RepeatsArePaidFor == Safety => []DuplicatesAccounted
<1>1. Safety => []CostInv
  BY CostInit, CostNext, PTL DEF Safety
<1> QED
  BY <1>1, CostBounds, PTL
=============================================================================
