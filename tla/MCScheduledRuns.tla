----------------------------- MODULE MCScheduledRuns -----------------------------
(***************************************************************************)
(* Two messages of one event and one of another, received by workers whose *)
(* calls pass the queue and the limit of all runs. One of the former and   *)
(* the latter are of a limited type.                                       *)
(***************************************************************************)
EXTENDS ScheduledRuns, TLC

CONSTANTS m1, m2, m3, k1, k2, queue, type, running

SharedKey == [m \in Messages |-> IF m = m3 THEN k2 ELSE k1]

MCCapacity == [l \in Limiters |-> IF l = type THEN 1 ELSE 2]

MCPath ==
  [c \in Calls |-> <<queue, NoLimit, IF c[2] = m1 THEN NoLimit ELSE type, running>>]

\* A call's path depends on its message only, and no definition picks a worker.
WorkerSymmetry == Permutations(Workers)

==============================================================================
