------------------------------- MODULE MCScheduler -------------------------------
EXTENDS Scheduler, TLC
CONSTANTS c1, c2, c3, c4, queue, running, source, type
MCCapacity == (queue :> 3) @@ (running :> 2) @@ (source :> 1) @@ (type :> 1)
\* Two events of the limited source, one of them and another of the limited
\* type, and one of neither.
MCPath ==
  LET via(s, t) == <<queue, s, t, running>>
  IN  [c \in Calls |-> CASE c = c1 -> via(source, type)
                         [] c = c2 -> via(source, NoLimit)
                         [] c = c3 -> via(NoLimit, type)
                         [] OTHER  -> via(NoLimit, NoLimit)]
==============================================================================
