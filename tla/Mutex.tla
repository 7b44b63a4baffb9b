------------------------------- MODULE Mutex -------------------------------
(***************************************************************************)
(* What a lock promises: at most one thread at a time is between a lock    *)
(* and the unlock that follows it.                                         *)
(***************************************************************************)
CONSTANT Thread

VARIABLE inside   \* the threads in the section

Init == inside = {}

Enter(t) == inside = {} /\ inside' = {t}

Leave(t) == inside = {t} /\ inside' = {}

Spec == Init /\ [][\E t \in Thread : Enter(t) \/ Leave(t)]_inside

=============================================================================
