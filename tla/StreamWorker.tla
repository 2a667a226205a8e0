---------------------------- MODULE StreamWorker ----------------------------
(***************************************************************************)
(* One stage of the distributed pipeline: the processes of one consumer    *)
(* group reading one Redis stream, as src/runtime/stream_worker.py drives  *)
(* them.  Every Redis call is a step of its own, so another process, a     *)
(* crash or a failing call can come between any two of them.  The domain   *)
(* component behind handle() is a step that succeeds or raises.            *)
(*                                                                         *)
(* Redis itself (streams, consumer groups, XAUTOCLAIM) is external and     *)
(* modelled from how the worker uses it: entries are numbered in the order *)
(* they were added, `delivered' is the group's last-delivered id, and      *)
(* `pending' its pending-entries list.                                     *)
(***************************************************************************)
EXTENDS Integers, Sequences, FiniteSets

CONSTANTS Events,       (* event_ids the upstream stage publishes, once each  *)
          Consumers,    (* worker processes sharing the consumer group        *)
          MaxRetries,   (* retry.max_retries                                  *)
          BatchSize,    (* worker_concurrency.batch_size: XREADGROUP's COUNT  *)
          ClaimBatch,   (* pending_recovery.claim_batch_size: XAUTOCLAIM's    *)
          MaxFaults     (* bound: crashes and failed Redis calls in a run     *)

ASSUME Assumption == /\ MaxRetries \in Nat
                     /\ BatchSize \in Nat \ {0}
                     /\ ClaimBatch \in Nat \ {0}
                     /\ MaxFaults \in Nat

VARIABLES stream,       (* the input stream: every entry ever added           *)
          delivered,    (* entries 1..delivered were handed to some consumer  *)
          pending,      (* delivered entries nobody has acknowledged          *)
          idle,         (* pending entries idle for at least min_idle_time_ms *)
          processed,    (* idempotency keys: the events marked processed      *)
          output,       (* per event, results added to the output stream      *)
          deadLetter,   (* per event, entries added to events.dead_letter     *)
          pc,           (* where each process stands                          *)
          batch,        (* entries a process has fetched and not finished     *)
          entry,        (* the entry a process is working on                  *)
          cursor,       (* where its XAUTOCLAIM scan goes on after the batch  *)
          faults,       (* faults so far                                      *)
          stolen        (* history: <<i, c>> when c reclaimed entry i from a  *)
                        (* process that was alive and still held it           *)

redis == <<stream, delivered, pending, idle>>
effects == <<processed, output, deadLetter>>
local == <<batch, entry, cursor>>
vars == <<redis, effects, pc, local, faults, stolen>>

(* A message as it travels: next_retry() keeps the event_id. *)
Message == [event : Events, retry : 0..MaxRetries]

PC == {"down", "recover", "read", "check", "duplicate", "handle", "publish",
       "mark", "ack", "failed", "superseded", "buried"}

(* The scan has reached the end of the pending list: leave recover_pending. *)
ScanOver == -1

TypeOK == /\ stream \in Seq(Message)
          /\ delivered \in 0..Len(stream)
          /\ pending \subseteq 1..delivered
          /\ idle \subseteq pending
          /\ processed \subseteq Events
          /\ output \in [Events -> Nat]
          /\ deadLetter \in [Events -> Nat]
          /\ pc \in [Consumers -> PC]
          /\ batch \in [Consumers -> SUBSET (1..delivered)]
          /\ entry \in [Consumers -> 0..delivered]
          /\ cursor \in [Consumers -> Nat \cup {ScanOver}]
          /\ faults \in 0..MaxFaults
          /\ stolen \subseteq (1..delivered) \X Consumers

Init == /\ stream = <<>>
        /\ delivered = 0
        /\ pending = {}
        /\ idle = {}
        /\ processed = {}
        /\ output = [e \in Events |-> 0]
        /\ deadLetter = [e \in Events |-> 0]
        /\ pc = [c \in Consumers |-> "recover"]
        /\ batch = [c \in Consumers |-> {}]
        /\ entry = [c \in Consumers |-> 0]
        /\ cursor = [c \in Consumers |-> 0]
        /\ faults = 0
        /\ stolen = {}

-----------------------------------------------------------------------------
(* Helpers *)

EventOf(i) == stream[i].event
RetryOf(i) == stream[i].retry
EntriesOf(e) == {i \in 1..Len(stream) : EventOf(i) = e}

(* The n smallest members of S: a COUNT argument. *)
First(S, n) == {i \in S : Cardinality({j \in S : j <= i}) <= n}

(* The process moves on to the next step. *)
Goto(c, step) == pc' = [pc EXCEPT ![c] = step]

(* A Redis call inside _process_entry's try block was applied: the reply   *)
(* arrives, or it is lost and the exception leads to _handle_failure.      *)
Replied(c, step) == \/ /\ Goto(c, step)
                       /\ UNCHANGED faults
                    \/ /\ faults < MaxFaults
                       /\ faults' = faults + 1
                       /\ Goto(c, "failed")

(* The entry in hand is done with: the for loop takes the next one, or the *)
(* batch is over and the process goes back to where it fetched it.         *)
AfterBatch(c) == IF cursor[c] = ScanOver THEN "read" ELSE "recover"

Finish(c) ==
    LET rest == batch[c] \ {entry[c]}
    IN  /\ batch' = [batch EXCEPT ![c] = rest]
        /\ entry' = [entry EXCEPT ![c] = 0]
        /\ Goto(c, IF rest = {} THEN AfterBatch(c) ELSE "check")
        /\ UNCHANGED cursor

XAck(i) == /\ pending' = pending \ {i}
           /\ idle' = idle \ {i}
           /\ UNCHANGED <<stream, delivered>>

-----------------------------------------------------------------------------
(* The environment *)

(* The upstream stage publishes an event: a fresh event_id, no retries. *)
Ingest(e) ==
    /\ EntriesOf(e) = {}
    /\ stream' = Append(stream, [event |-> e, retry |-> 0])
    /\ UNCHANGED <<delivered, pending, idle, effects, pc, local, faults, stolen>>

(* A pending entry has been idle for min_idle_time_ms, whether its holder  *)
(* died or is merely slow: a batch of slow handle() calls lasts that long. *)
GrowIdle(i) ==
    /\ i \in pending \ idle
    /\ idle' = idle \cup {i}
    /\ UNCHANGED <<stream, delivered, pending, effects, pc, local, faults, stolen>>

(* The process dies; what it had fetched stays pending. *)
Crash(c) ==
    /\ pc[c] # "down"
    /\ faults < MaxFaults
    /\ faults' = faults + 1
    /\ Goto(c, "down")
    /\ batch' = [batch EXCEPT ![c] = {}]
    /\ entry' = [entry EXCEPT ![c] = 0]
    /\ cursor' = [cursor EXCEPT ![c] = 0]
    /\ UNCHANGED <<redis, effects, stolen>>

(* A new process takes its place (under a new consumer name) and enters    *)
(* run_forever.                                                            *)
Restart(c) ==
    /\ pc[c] = "down"
    /\ Goto(c, "recover")
    /\ UNCHANGED <<redis, effects, local, faults, stolen>>

-----------------------------------------------------------------------------
(* Fetching *)

(* One turn of recover_pending's loop: XAUTOCLAIM takes over the first     *)
(* idle entries after the cursor.  The loop ends when a page is empty, or  *)
(* when Redis says that nothing follows it.                                *)
Recover(c) ==
    LET page == First({i \in idle : i > cursor[c]}, ClaimBatch)
    IN  /\ pc[c] = "recover"
        /\ \/ /\ page = {}
              /\ cursor' = [cursor EXCEPT ![c] = 0]
              /\ Goto(c, "read")
              /\ UNCHANGED <<idle, batch, stolen>>
           \/ \E last \in page :
                 /\ \A i \in page : i <= last
                 /\ idle' = idle \ page
                 /\ batch' = [batch EXCEPT ![c] = page]
                 /\ cursor' = [cursor EXCEPT ![c] =
                        IF \E j \in pending : j > last THEN last ELSE ScanOver]
                 /\ stolen' = stolen \cup
                        {p \in page \X {c} : \E d \in Consumers \ {c} : p[1] \in batch[d]}
                 /\ Goto(c, "check")
        /\ UNCHANGED <<stream, delivered, pending, effects, entry, faults>>

(* Mutant: XREADGROUP with NOACK, nothing enters the pending list. *)
ReadNoAck(c) ==
    LET fetched == First((delivered + 1)..Len(stream), BatchSize)
    IN  /\ pc[c] = "read"
        /\ fetched # {}
        /\ delivered' = delivered + Cardinality(fetched)
        /\ batch' = [batch EXCEPT ![c] = fetched]
        /\ Goto(c, "check")
        /\ UNCHANGED <<stream, pending, idle, effects, entry, cursor, faults, stolen>>

(* run_once: XREADGROUP delivers the next entries of the stream, if any,   *)
(* and adds them to the pending list.                                      *)
Read(c) ==
    LET fetched == First((delivered + 1)..Len(stream), BatchSize)
    IN  /\ pc[c] = "read"
        /\ cursor' = [cursor EXCEPT ![c] = 0]
        /\ \/ /\ fetched = {}
              /\ Goto(c, "recover")
              /\ UNCHANGED <<delivered, pending, batch>>
           \/ \E last \in fetched :
                 /\ \A i \in fetched : i <= last
                 /\ delivered' = last
                 /\ pending' = pending \cup fetched
                 /\ batch' = [batch EXCEPT ![c] = fetched]
                 /\ Goto(c, "check")
        /\ UNCHANGED <<stream, idle, effects, entry, faults, stolen>>

-----------------------------------------------------------------------------
(* _process_entry *)

(* The first remaining entry of the batch is looked up: already processed? *)
Check(c) ==
    /\ pc[c] = "check"
    /\ \E i \in batch[c] :
          /\ \A j \in batch[c] : i <= j
          /\ entry' = [entry EXCEPT ![c] = i]
          /\ Goto(c, IF EventOf(i) \in processed THEN "duplicate" ELSE "handle")
    /\ UNCHANGED <<redis, effects, batch, cursor, faults, stolen>>

(* handle() returns a result to publish, or raises. *)
Handle(c) ==
    /\ pc[c] = "handle"
    /\ Goto(c, "publish") \/ Goto(c, "failed")
    /\ UNCHANGED <<redis, effects, local, faults, stolen>>

(* Mutant: a failed XADD is swallowed and the event marked all the same. *)
PublishSwallowed(c) ==
    /\ pc[c] = "publish"
    /\ \/ output' = [output EXCEPT ![EventOf(entry[c])] = @ + 1]
       \/ UNCHANGED output
    /\ Goto(c, "mark")
    /\ UNCHANGED <<redis, processed, deadLetter, local, faults, stolen>>

Publish(c) ==
    /\ pc[c] = "publish"
    /\ output' = [output EXCEPT ![EventOf(entry[c])] = @ + 1]
    /\ Replied(c, "mark")
    /\ UNCHANGED <<redis, processed, deadLetter, local, stolen>>

MarkProcessed(c) ==
    /\ pc[c] = "mark"
    /\ processed' = processed \cup {EventOf(entry[c])}
    /\ Replied(c, "ack")
    /\ UNCHANGED <<redis, output, deadLetter, local, stolen>>

(* Mutant: the duplicate branch returns without XACK. *)
AckUnlessDuplicate(c) ==
    /\ pc[c] \in {"ack", "duplicate", "superseded", "buried"}
    /\ IF pc[c] = "duplicate" THEN UNCHANGED redis ELSE XAck(entry[c])
    /\ Finish(c)
    /\ UNCHANGED <<effects, faults, stolen>>

(* XACK of an entry that was processed, found to be a duplicate, replaced  *)
(* by its retry, or dead-lettered.                                         *)
Ack(c) ==
    /\ pc[c] \in {"ack", "duplicate", "superseded", "buried"}
    /\ XAck(entry[c])
    /\ Finish(c)
    /\ UNCHANGED <<effects, faults, stolen>>

(* The XACK inside the try block was applied, but its reply was lost. *)
AckReplyLost(c) ==
    /\ pc[c] = "ack"
    /\ faults < MaxFaults
    /\ faults' = faults + 1
    /\ XAck(entry[c])
    /\ Goto(c, "failed")
    /\ UNCHANGED <<effects, local, stolen>>

(* A Redis call inside the try block fails before it is applied.  A call   *)
(* that fails anywhere else ends the process: see Crash.                   *)
CallFails(c) ==
    /\ pc[c] \in {"publish", "mark", "ack"}
    /\ faults < MaxFaults
    /\ faults' = faults + 1
    /\ Goto(c, "failed")
    /\ UNCHANGED <<redis, effects, local, stolen>>

(* Mutant: retries have no limit. *)
ResubmitForever(c) ==
    /\ pc[c] = "failed"
    /\ stream' = Append(stream, [event |-> EventOf(entry[c]),
                                 retry |-> RetryOf(entry[c]) + 1])
    /\ Goto(c, "superseded")
    /\ UNCHANGED <<delivered, pending, idle, effects, local, faults, stolen>>

(* Mutant: the original is not acknowledged when a copy replaces it. *)
ResubmitWithoutAck(c) ==
    /\ pc[c] = "failed"
    /\ RetryOf(entry[c]) < MaxRetries
    /\ stream' = Append(stream, [event |-> EventOf(entry[c]),
                                 retry |-> RetryOf(entry[c]) + 1])
    /\ Finish(c)
    /\ UNCHANGED <<delivered, pending, idle, effects, faults, stolen>>

(* _handle_failure: a copy with the next retry_count goes to the end of    *)
(* the same stream while retries remain ...                                *)
Resubmit(c) ==
    /\ pc[c] = "failed"
    /\ RetryOf(entry[c]) < MaxRetries
    /\ stream' = Append(stream, [event |-> EventOf(entry[c]),
                                 retry |-> RetryOf(entry[c]) + 1])
    /\ Goto(c, "superseded")
    /\ UNCHANGED <<delivered, pending, idle, effects, local, faults, stolen>>

(* Mutant: off by one, the last retry is not sent. *)
BuryEarly(c) ==
    /\ pc[c] = "failed"
    /\ RetryOf(entry[c]) + 1 >= MaxRetries
    /\ deadLetter' = [deadLetter EXCEPT ![EventOf(entry[c])] = @ + 1]
    /\ Goto(c, "buried")
    /\ UNCHANGED <<redis, processed, output, local, faults, stolen>>

(* ... and the message goes to the dead-letter stream when none is left.   *)
Bury(c) ==
    /\ pc[c] = "failed"
    /\ RetryOf(entry[c]) >= MaxRetries
    /\ deadLetter' = [deadLetter EXCEPT ![EventOf(entry[c])] = @ + 1]
    /\ Goto(c, "buried")
    /\ UNCHANGED <<redis, processed, output, local, faults, stolen>>

-----------------------------------------------------------------------------
(* The code of a live process, fault-free or not. *)
Step(c) == \/ Recover(c) \/ Read(c) \/ Check(c) \/ Handle(c) \/ Publish(c)
           \/ MarkProcessed(c) \/ Ack(c) \/ AckReplyLost(c) \/ CallFails(c)
           \/ Resubmit(c) \/ Bury(c)

Next == \/ \E e \in Events : Ingest(e)
        \/ \E i \in pending : GrowIdle(i)
        \/ \E c \in Consumers : Crash(c) \/ Restart(c) \/ Step(c)

(* A live process keeps running, time passes, and a dead process is        *)
(* replaced.  Nothing is assumed of handle(): it may fail every time.      *)
Fairness == /\ \A c \in Consumers : WF_vars(Step(c)) /\ WF_vars(Restart(c))
            /\ WF_vars(\E i \in pending : GrowIdle(i))

Safety == Init /\ [][Next]_vars
Spec == Safety /\ Fairness
-----------------------------------------------------------------------------
(* Properties *)

(* Entries of e that Redis will still deliver, or deliver again. *)
Outstanding(e) == {i \in EntriesOf(e) : i > delivered \/ i \in pending}

(* An entry some process is about to acknowledge because a copy replaces it. *)
BeingReplaced(i) == \E c \in Consumers : pc[c] = "superseded" /\ entry[c] = i

(* "A worker crash must not silently lose an event" (stream_worker.py,     *)
(* module docstring), nor does a failed Redis call or another process      *)
(* reclaiming the entry: at every moment an accepted event is processed,   *)
(* dead-lettered, or has an entry that Redis still holds for the group and *)
(* that nobody is about to acknowledge in favour of a copy.                *)
NoEventLost ==
    \A e \in Events : EntriesOf(e) # {} =>
        \/ e \in processed
        \/ deadLetter[e] > 0
        \/ \E i \in Outstanding(e) : ~BeingReplaced(i)

(* An event reaches the dead-letter stream only once every retry was sent: *)
(* an entry with each retry_count up to max_retries is in the stream,      *)
(* however crashes and reclaims multiplied the copies.                     *)
DeadLetterAfterEveryRetry ==
    \A e \in Events : deadLetter[e] > 0 =>
        \A r \in 0..MaxRetries : \E i \in EntriesOf(e) : RetryOf(i) = r

(* Effects repeat only for a reason: beyond the first, each result an      *)
(* event produces is paid for by a fault or by a reclaim from a process    *)
(* that was still at work.  In particular a single worker without faults   *)
(* publishes exactly one result, whatever handle() does.                   *)
DuplicatesAccounted ==
    \A e \in Events :
        output[e] <= 1 + faults + Cardinality({p \in stolen : EventOf(p[1]) = e})

(* Everything delivered is acknowledged in the end: no entry stays in the  *)
(* pending list for good, so no copy of an event is reprocessed for ever.  *)
PendingDrains == <>[](pending = {} /\ delivered = Len(stream))

(* The stage implements the abstract one: accepted events settle, marked   *)
(* events were published first, and no outcome is taken back.              *)
Ledger == INSTANCE AtLeastOnce
            WITH accepted  <- {e \in Events : EntriesOf(e) # {}},
                 produced  <- {e \in Events : output[e] > 0},
                 completed <- processed,
                 givenUp   <- {e \in Events : deadLetter[e] > 0}
ImplementsAtLeastOnce == Ledger!Spec

(* dead_letter.py calls a dead-lettered message "permanently-failed"; then *)
(* no event would be both processed and dead-lettered.                     *)
DeadLetterIsFinal == \A e \in Events : deadLetter[e] > 0 => e \notin processed
=============================================================================
