--------------------------- MODULE MCLimitedReplies ---------------------------
(***************************************************************************)
(* Agents without a limit, called directly, through a hook that returns    *)
(* next(ctx) and through one that relays, and agents with a middleware     *)
(* that stops a reply after one iteration, one model call or never.        *)
(***************************************************************************)
EXTENDS LimitedReplies

Agent(h, m, iterations, calls, max, f) ==
  [hooks |-> h, middleware |-> m,
   policy |-> [iterations |-> iterations, calls |-> calls], maxIters |-> max,
   faults |-> f]

MCAgents == {Agent("none", "none", 0, 0, 1, {"yield", "cancel"}),
             Agent("direct", "none", 0, 0, 1, {"yield", "cancel"}),
             Agent("relay", "none", 0, 0, 1, {"yield"}),
             Agent("relay", "loop", 1, 0, 3, {}),
             Agent("relay", "loop", 0, 1, 3, {}),
             Agent("relay", "loop", 0, 0, 1, {"cancel"}),
             Agent("relay", "budget", 0, 0, 3, {"cancel"})}

==============================================================================
