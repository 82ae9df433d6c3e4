------------------------------ MODULE LoopRuntime ------------------------------
(***************************************************************************)
(* pkg/loop/runtime: the loop context a Runtime keeps in the agent's       *)
(* state, the budget of its policy, and the record of each run.  Every     *)
(* operation holds Runtime.mu; who calls them, and when, is the subject    *)
(* of LimitedReplies.                                                      *)
(***************************************************************************)
EXTENDS Naturals

CONSTANTS
  Replies,     \* ids of replies
  NoReply      \* no run was recorded

ASSUME NoReplyAssumption == NoReply \notin Replies

VARIABLES
  policy,      \* spec.Policy; a limit of 0 is no limit
  loop,        \* LoopContext: Iteration, ModelCalls, StopReason
  lastRun,     \* whose is the last entry of LoopContext.Runs
  record       \* the last entry each reply has in Runs

loopVars == <<policy, loop, lastRun, record>>

\* A stop reason is "none" (empty: the run goes on), "completed", "waiting_user",
\* "max_iterations", "budget_exceeded" or "verifier_failed".
Fresh == [iteration |-> 0, calls |-> 0, reason |-> "none"]

LoopInit(p) ==
  /\ policy = p
  /\ loop = Fresh
  /\ lastRun = NoReply
  /\ record = [r \in Replies |-> Fresh]

\* exceededLocked of a loop context.
ExceededBy(l) ==
  \/ policy.iterations > 0 /\ l.iteration >= policy.iterations
  \/ policy.calls > 0 /\ l.calls >= policy.calls

\* exceededAgent
LoopExceeded == ExceededBy(loop)

\* Mutant: the counters of the previous run stay.
StartRunKeepsCounters(r) ==
  /\ loop' = [loop EXCEPT !.reason = "none"]
  /\ lastRun' = r
  /\ record' = [record EXCEPT ![r] = Fresh]
  /\ UNCHANGED policy

\* startRun: the counters and the stop reason start again, and a run is
\* appended to Runs.
StartRun(r) ==
  /\ loop' = Fresh
  /\ lastRun' = r
  /\ record' = [record EXCEPT ![r] = Fresh]
  /\ UNCHANGED policy

\* stopRun: the counters go into the last run, whosever it is.
StopRun(reason) ==
  LET stop == IF reason = "none" THEN "completed" ELSE reason IN
  /\ loop' = [loop EXCEPT !.reason = stop]
  /\ record' = IF lastRun = NoReply THEN record
               ELSE [record EXCEPT ![lastRun] = [loop EXCEPT !.reason = stop]]
  /\ UNCHANGED <<policy, lastRun>>

\* beginReasoning
BeginReasoning ==
  LET next == [loop EXCEPT !.iteration = @ + 1] IN
  /\ loop' = IF ExceededBy(next) THEN [next EXCEPT !.reason = "budget_exceeded"]
                                 ELSE next
  /\ UNCHANGED <<policy, lastRun, record>>

\* updateLoopContext: the end of a model call, an event that stops the reply.
CountModelCall ==
  /\ loop' = [loop EXCEPT !.calls = @ + 1]
  /\ UNCHANGED <<policy, lastRun, record>>

SetReason(reason) ==
  /\ loop' = [loop EXCEPT !.reason = reason]
  /\ UNCHANGED <<policy, lastRun, record>>

\* verifyAfterReply with the verdict of the verifier, an error counting as a
\* failure: the reason it leaves, for the caller to stop the run with.
AfterVerification(passed) == IF passed THEN loop.reason ELSE "verifier_failed"

RecordVerification(passed) == SetReason(AfterVerification(passed))

==============================================================================
