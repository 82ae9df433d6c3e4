-------------------------------- MODULE ToolCalls --------------------------------
(***************************************************************************)
(* What the team manager and the acting hooks have in common: the tool     *)
(* calls, and the sessions of the agents that make them.                   *)
(***************************************************************************)
EXTENDS Naturals

CONSTANTS
  Leaders,   \* sessions of the agents the application creates, with TeamRoleLeader
  Calls,     \* tool calls, numbered in the order they are made; one that creates
             \* a team, or builds a worker, also stands for the id of the team, or
             \* for the session of the worker
  None       \* no name, no team, no creation, nothing drained, no caller

ASSUME CallsAssumption    == Calls \subseteq Nat
ASSUME SessionsAssumption == Leaders \cap Calls = {} /\ None \notin Leaders \cup Calls

Sessions == Leaders \cup Calls

==============================================================================
