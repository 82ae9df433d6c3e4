--------------------------- MODULE ToolCallLifecycle ---------------------------
(***************************************************************************)
(* What the agent promises about one tool call, whatever the order of      *)
(* model turns, confirmations, external results, batches and errors: the   *)
(* phases a call goes through, and that it runs at most once, only while   *)
(* its result is open and only with a permission nobody has taken back.    *)
(***************************************************************************)
EXTENDS Naturals

CONSTANT Call     \* the tool calls

VARIABLES
  phase,          \* phase[c]
  permits,        \* calls that may run
  runs            \* runs[c]: how many times the tool of c has run

vars == <<phase, permits, runs>>

Phase == {"unborn",     \* not produced yet
          "proposed",   \* announced by the model
          "asking",     \* put to the user
          "granted",    \* the user said yes
          "refused",    \* the user said no
          "open",       \* its result block is open
          "outside",    \* handed to an external executor
          "closed"}     \* it has its result

Init ==
  /\ phase = [c \in Call |-> "unborn"]
  /\ permits = {}
  /\ runs = [c \in Call |-> 0]

Become(c, p) == phase' = [phase EXCEPT ![c] = p]

\* One model turn announces several calls.
Propose(S) ==
  /\ \A c \in S : phase[c] = "unborn"
  /\ phase' = [c \in Call |-> IF c \in S THEN "proposed" ELSE phase[c]]
  /\ UNCHANGED <<permits, runs>>

Ask(c) ==
  /\ phase[c] = "proposed" /\ Become(c, "asking")
  /\ UNCHANGED <<permits, runs>>

\* The user may change their mind until the result is open; a yes that comes
\* later changes nothing, a no takes the permission back even when it is not
\* heard.
SayYes(c) ==
  /\ phase[c] \notin {"unborn", "proposed"}
  /\ Become(c, IF phase[c] \in {"asking", "refused"} THEN "granted" ELSE phase[c])
  /\ permits' = permits \cup {c}
  /\ UNCHANGED runs

SayNo(c) ==
  /\ \/ phase[c] \in {"asking", "granted"} /\ Become(c, "refused")
     \/ UNCHANGED phase
  /\ permits' = permits \ {c}
  /\ UNCHANGED runs

\* The result opens: with a permission, or to report an error or a refusal.
Open(c) ==
  /\ phase[c] \in {"proposed", "granted"}
  /\ \E p \in {"open", "outside", "closed"} : Become(c, p)
  /\ permits' \in {permits, permits \cup {c}}
  /\ UNCHANGED runs

Run(c) ==
  /\ phase[c] = "open" /\ c \in permits /\ runs[c] = 0
  /\ runs' = [runs EXCEPT ![c] = 1]
  /\ Become(c, "open") \/ Become(c, "closed")
  /\ UNCHANGED permits

Close(c) ==
  /\ phase[c] \in {"open", "outside"} /\ Become(c, "closed")
  /\ UNCHANGED <<permits, runs>>

Next ==
  \/ \E S \in SUBSET Call : Propose(S)
  \/ \E c \in Call : \/ Ask(c) \/ SayYes(c) \/ SayNo(c) \/ Open(c)
                     \/ Run(c) \/ Close(c)

Spec == Init /\ [][Next]_vars
==============================================================================
