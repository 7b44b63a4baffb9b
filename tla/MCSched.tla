------------------------------ MODULE MCSched ------------------------------
(* Instances of Sched for TLC.                                             *)
EXTENDS Sched, TLC

CONSTANTS k0, t1, t2, t3, K, u1, u2

MCThread4 == {k0, t1, t2, t3}
MCTask3 == {K, u1, u2}

\* What src/ does today: kmain spawns the threads and the tasks, and threads
\* may be killed by it.
CallsOfKmain ==
  [s \in Service |-> IF s \in {"exec_thread", "exec_elf", "kill"}
                     THEN {k0} ELSE {}]

\* Every thread uses every service.
CallsOfAll == [s \in Service |-> Thread]

Others == Permutations(Thread \ {k0}) \cup Permutations(Task \ {K})
=============================================================================
