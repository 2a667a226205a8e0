---------------------------- MODULE AtLeastOnce ----------------------------
(***************************************************************************)
(* What a stage of the pipeline promises its neighbours, with no stream,   *)
(* no consumer group and no process in sight: an event that was accepted   *)
(* is eventually completed or given up, it is completed only after its     *)
(* result was produced, and nothing is ever taken back.                    *)
(* StreamWorker is shown to implement it.                                  *)
(***************************************************************************)
CONSTANTS Events        (* the event_ids the upstream stage may publish *)

VARIABLES accepted,     (* events that reached the input stream        *)
          produced,     (* events whose result reached the next stream *)
          completed,    (* events marked processed                     *)
          givenUp       (* events on the dead-letter stream            *)

vars == <<accepted, produced, completed, givenUp>>

Init == /\ accepted = {}
        /\ produced = {}
        /\ completed = {}
        /\ givenUp = {}

Accept(e) == /\ accepted' = accepted \cup {e}
             /\ UNCHANGED <<produced, completed, givenUp>>

\* A result may be produced again: delivery is at least once.
Produce(e) == /\ e \in accepted
              /\ produced' = produced \cup {e}
              /\ UNCHANGED <<accepted, completed, givenUp>>

Complete(e) == /\ e \in produced
               /\ completed' = completed \cup {e}
               /\ UNCHANGED <<accepted, produced, givenUp>>

GiveUp(e) == /\ e \in accepted
             /\ givenUp' = givenUp \cup {e}
             /\ UNCHANGED <<accepted, produced, completed>>

Settle(e) == /\ e \notin completed \cup givenUp
             /\ Complete(e) \/ GiveUp(e)

Next == \E e \in Events : Accept(e) \/ Produce(e) \/ Complete(e) \/ GiveUp(e)

Safety == Init /\ [][Next]_vars

Spec == Safety /\ \A e \in Events : WF_vars(Settle(e))
=============================================================================
