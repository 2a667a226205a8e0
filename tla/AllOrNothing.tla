---------------------------- MODULE AllOrNothing ----------------------------
(***************************************************************************)
(* What the defense engine promises about a source, with no retry, no      *)
(* rollback and no executor in sight: an action takes its whole effect in  *)
(* one step or none at all, and only a restart undoes anything.            *)
(***************************************************************************)
CONSTANTS Sources,          (* the simulated sources                      *)
          Actions,          (* what can be done to one                    *)
          Fresh,            (* the state of a source nothing was done to  *)
          Effect(_, _)      (* the whole effect of an action on a state   *)

VARIABLE state              (* the state of each source                   *)

Init == state = [s \in Sources |-> Fresh]

Take(s, a) == state' = [state EXCEPT ![s] = Effect(a, @)]

Forget == state' = [s \in Sources |-> Fresh]

Next == Forget \/ \E s \in Sources, a \in Actions : Take(s, a)

Spec == Init /\ [][Next]_state
=============================================================================
