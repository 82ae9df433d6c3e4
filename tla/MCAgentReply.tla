----------------------------- MODULE MCAgentReply -----------------------------
(* The instances of AgentReply that TLC checks. *)
EXTENDS AgentReply
==============================================================================
