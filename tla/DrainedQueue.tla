---------------------------- MODULE DrainedQueue ----------------------------
(***************************************************************************)
(* What a queue of updates promises to those who push to it: its only      *)
(* consumer sleeps while there is nothing to do, wakes up, takes every     *)
(* update, and does not go to rest while one is left. How the consumer     *)
(* learns that it has to wake up is not said here.                         *)
(***************************************************************************)
EXTENDS Naturals

VARIABLES
    waiting,    \* the number of updates in the queue
    draining    \* whether the consumer is taking updates

vars == <<waiting, draining>>

(* Updates may be pushed before the consumer exists.                       *)
Init ==
    /\ waiting \in Nat
    /\ draining = FALSE

Push ==
    /\ waiting' = waiting + 1
    /\ UNCHANGED draining

Wake ==
    /\ ~draining
    /\ draining' = TRUE
    /\ UNCHANGED waiting

Take ==
    /\ draining
    /\ waiting > 0
    /\ waiting' = waiting - 1
    /\ UNCHANGED draining

Rest ==
    /\ draining
    /\ waiting = 0
    /\ draining' = FALSE
    /\ UNCHANGED waiting

Next == Push \/ Wake \/ Take \/ Rest

(* The consumer does not sleep for ever beside an update, and does not     *)
(* stop in the middle.                                                     *)
Promise ==
    /\ WF_vars(waiting > 0 /\ Wake)
    /\ WF_vars(Take)
    /\ WF_vars(Rest)

Safety == Init /\ [][Next]_vars

Spec == Safety /\ Promise
=============================================================================
