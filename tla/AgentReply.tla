------------------------------ MODULE AgentReply ------------------------------
(***************************************************************************)
(* The reply flow of pkg/agent: Agent.Reply / ReplyStream / Observe, the   *)
(* reasoning-acting loop, the life of every tool call and the compaction   *)
(* of the context while a reply runs.                                      *)
(*                                                                         *)
(* Messages are numbered in the order they are appended to state.Context;  *)
(* the number of an assistant message is also its reply ID.  The context   *)
(* holds the messages first..last.  Tool calls are numbered in the order   *)
(* the model produces them, so the order of the calls of one message is    *)
(* the order of their numbers.                                             *)
(*                                                                         *)
(* The loop works on a pointer to the assistant message.  Compaction       *)
(* replaces state.Context by clones, after which the pointer designates a  *)
(* message the context no longer holds: mem["context"] is what the context *)
(* says of each call, mem["orphan"] what such a detached message says, and *)
(* `at' tells which of the two the pointer designates.                     *)
(***************************************************************************)
EXTENDS Naturals, FiniteSets

CONSTANTS
  MaxIters,      \* ReActConfig.MaxIters
  Compaction,    \* may the context be compacted (ContextConfig.MaxTokens > 0)
  Faults,        \* may emit, the model, the engine or compression fail
  Kinds,         \* the kinds of tools the model calls
  TurnCalls,     \* bound: tool calls in one model response
  CallBound,     \* bound: tool calls over the whole behaviour
  MsgBound       \* bound: messages over the whole behaviour

ASSUME MaxItersAssumption   == MaxIters \in Nat \ {0}   \* ReActConfig.Validate
ASSUME SwitchesAssumption   == Compaction \in BOOLEAN /\ Faults \in BOOLEAN
ASSUME BoundsAssumption     == TurnCalls \in Nat /\ CallBound \in Nat /\ MsgBound \in Nat

Call == 1..CallBound
Msg  == 1..MsgBound
View == {"context", "orphan"}

\* How the provider describes the tool of a call: concurrency-safe, not
\* concurrency-safe, external, not found, or safe with an input that is not JSON.
Kind == {"safe", "serial", "external", "missing", "garbled"}

\* State of a tool_call block; "none" when the message has no such block.
CallState == {"none", "pending", "asking", "allowed", "submitted", "finished"}

\* State of the tool_result blocks of the call.  "answered": the block left
\* running by the external hand-over, followed by the caller's own result.
ResultState == {"none", "running", "done", "denied", "answered"}

ASSUME KindsAssumption == Kinds \subseteq Kind

Block   == [st : CallState, res : ResultState]
NoBlock == [st |-> "none", res |-> "none"]

VARIABLES
  first, last,   \* the context is the messages first..last
  replies,       \* the messages that are assistant messages of this agent
  made,          \* number of tool calls produced so far
  owner,         \* owner[c]: the message (reply) that call c belongs to
  kind,          \* kind[c]: what FindTool answers for call c
  mem, at,       \* the blocks, in the context and in a detached message
  replyID,       \* state.ReplyID
  curIter,       \* state.CurIter
  pc,            \* where the reply flow is; "idle" when Agent.mu is free
  todo,          \* calls the running runActing has still to handle
  batch,         \* toolBatchRunner.batch
  ranBatch,      \* calls of the batch whose goroutine has finished
  after,         \* where the flow goes once the batch is flushed
  ran,           \* history: how many times each call has run
  permitted,     \* history: engine allowed or user confirmed, not rejected since
  asked, sent,   \* history: calls put to the user, calls handed outside
  questions,     \* history: calls put to the user from the context's own message
                 \* that no answer has been applied to since
  turns,         \* history: passes of runReasoning made for each reply
  failed,        \* history: replies an error has ended
  outcome        \* how the last reply ended

conversation == <<first, last, replies>>
calls        == <<made, owner, kind>>
blocks       == <<mem, at>>
loop         == <<replyID, curIter>>
acting       == <<todo, batch, ranBatch, after>>
history      == <<ran, permitted, asked, questions, sent, turns>>
vars == <<conversation, calls, blocks, loop, pc, acting, history, failed, outcome>>

PC == {"idle", "top", "model", "handle", "single", "exec", "flush", "settle",
       "after", "end"}

-------------------------------------------------------------------------------
\* The blocks of the message the loop's assistant pointer designates.
Assistant == mem[at]

\* pendingToolCalls: calls of message m that are pending or allowed and have
\* no result block.
Pending(m, view) ==
  {c \in Call : /\ owner[c] = m
                /\ view[c].st \in {"pending", "allowed"}
                /\ view[c].res = "none"}

\* hasUnresolvedToolWork of message m of the context.
Unresolved(m) ==
  \E c \in Call :
    /\ owner[c] = m
    /\ \/ /\ mem["context"][c].st \notin {"none", "finished"}
          /\ mem["context"][c].res \in {"none", "running"}
       \/ mem["context"][c].res = "running"

\* c is the next call of a list that is handled in order.
IsFirst(c, S) == c \in S /\ \A d \in S : c <= d

\* ApplyEvent on the assistant message: new blocks for the pointer's view.
Apply(new) == mem' = [mem EXCEPT ![at] = new]

\* Mutant: one iteration too many.
MoreIterationsInclusive == curIter <= MaxIters

\* The loop condition of continueReply.
MoreIterations == curIter < MaxIters

\* Whether an emit, a model call, a permission check or a compression succeeds.
Success == IF Faults THEN {TRUE, FALSE} ELSE {TRUE}

\* Every error path of runReply: return err, which ends the reply at once.
Fail ==
  /\ pc' = "idle"
  /\ outcome' = "error"
  /\ failed' = failed \cup {replyID}
  /\ todo' = {} /\ batch' = {} /\ ranBatch' = {} /\ after' = "none"

\* The flow goes on at p, or an error ends the reply.
Continue(ok, p) ==
  IF ok
    THEN pc' = p /\ UNCHANGED <<outcome, failed>>
    ELSE pc' = "idle" /\ outcome' = "error" /\ failed' = failed \cup {replyID}

-------------------------------------------------------------------------------
Init ==
  /\ first = 1 /\ last = 0 /\ replies = {}
  /\ made = 0
  /\ owner = [c \in Call |-> 0]
  /\ kind = [c \in Call |-> "missing"]
  /\ mem = [v \in View |-> [c \in Call |-> NoBlock]]
  /\ at = "context"
  /\ replyID = 0 /\ curIter = 0
  /\ pc = "idle"
  /\ todo = {} /\ batch = {} /\ ranBatch = {} /\ after = "none"
  /\ ran = [c \in Call |-> 0]
  /\ permitted = {} /\ asked = {} /\ questions = {} /\ sent = {}
  /\ turns = [m \in Msg |-> 0]
  /\ failed = {}
  /\ outcome = "none"

-------------------------------------------------------------------------------
(* Input: what a caller hands to Reply, ReplyStream or Observe.            *)

\* Mutant: the answer is read the wrong way round.
ConfirmedSwapped(view, c, yes) ==
  [view EXCEPT ![c].st = IF yes THEN "finished" ELSE "allowed"]

\* applyUserConfirmResults on a message holding call c.
Confirmed(view, c, yes) ==
  [view EXCEPT ![c].st = IF yes THEN "allowed" ELSE "finished"]

\* applyExternalExecutionResults, then the call is marked finished.
Answered(view, c) ==
  [view EXCEPT ![c] = [st |-> IF @.st = "none" THEN "none" ELSE "finished",
                       res |-> "answered"]]

\* resumableAssistant: message m, the last one, is an assistant message of
\* this agent with calls left to handle.
Resumable(m, view) == m \in replies /\ Pending(m, view) # {}

\* runReply once the input is in: resume the last assistant message or
\* append a new one.  n is the last message and view the blocks after input.
StartReply(n, view) ==
  /\ mem' = [mem EXCEPT !["context"] = view]
  /\ at' = "context"
  /\ \/ /\ Resumable(n, view)
        /\ last' = n /\ replyID' = n
        /\ pc' = "top"
        /\ UNCHANGED <<replies, curIter, failed, outcome>>
     \/ /\ ~Resumable(n, view)
        /\ n < MsgBound
        /\ last' = n + 1 /\ replyID' = n + 1
        /\ replies' = replies \cup {n + 1}
        /\ curIter' = 0
        /\ \E ok \in Success :
             IF ok THEN pc' = "top" /\ UNCHANGED <<failed, outcome>>
                   ELSE pc' = "idle" /\ outcome' = "error" /\ failed' = failed \cup {n + 1}
  /\ UNCHANGED <<first, calls, acting>>

ReplyNil ==
  /\ pc = "idle"
  /\ StartReply(last, mem["context"])
  /\ UNCHANGED history

ReplyMessage ==
  /\ pc = "idle"
  /\ last < MsgBound
  /\ StartReply(last + 1, mem["context"])
  /\ UNCHANGED history

\* applyIncomingEvent: the event goes to the last message; ApplyEvent ignores
\* an event whose reply ID is not that message's.
ReplyConfirm(c, yes) ==
  LET heard == owner[c] = last /\ mem["context"][c].st # "none"
      view  == IF heard THEN Confirmed(mem["context"], c, yes) ELSE mem["context"]
  IN /\ pc = "idle" /\ c \in asked
     /\ StartReply(last, view)
     /\ permitted' = IF ~yes THEN permitted \ {c}
                     ELSE IF heard THEN permitted \cup {c} ELSE permitted
     /\ questions' = IF heard THEN questions \ {c} ELSE questions
     /\ UNCHANGED <<ran, asked, sent, turns>>

ReplyExternal(c) ==
  /\ pc = "idle" /\ c \in sent
  /\ StartReply(last, IF owner[c] = last THEN Answered(mem["context"], c)
                                         ELSE mem["context"])
  /\ questions' = IF owner[c] = last THEN questions \ {c} ELSE questions
  /\ UNCHANGED <<ran, permitted, asked, sent, turns>>

\* observeMessage
ObserveMessage ==
  /\ pc = "idle" /\ last < MsgBound
  /\ last' = last + 1
  /\ UNCHANGED <<first, replies, calls, blocks, loop, pc, acting, history, failed, outcome>>

\* observeEvent: the event goes to the message with the event's reply ID; an
\* error, and no change, when the context does not hold it.
ObserveConfirm(c, yes) ==
  /\ pc = "idle" /\ c \in asked
  /\ first <= owner[c]
  /\ mem["context"][c].st # "none"
  /\ mem' = [mem EXCEPT !["context"] = Confirmed(@, c, yes)]
  /\ permitted' = IF yes THEN permitted \cup {c} ELSE permitted \ {c}
  /\ questions' = questions \ {c}
  /\ UNCHANGED <<conversation, calls, at, loop, pc, acting, ran, asked, sent, turns,
                 failed, outcome>>

ObserveExternal(c) ==
  /\ pc = "idle" /\ c \in sent
  /\ first <= owner[c]
  /\ mem' = [mem EXCEPT !["context"] = Answered(@, c)]
  /\ questions' = questions \ {c}
  /\ UNCHANGED <<conversation, calls, at, loop, pc, acting, ran, permitted, asked, sent,
                 turns, failed, outcome>>

-------------------------------------------------------------------------------
(* CompressContext at the top of an iteration and after acting.            *)

\* Mutant: the boundary is not pulled back to unresolved tool work.
ReserveStartsByTokens == (first + 1)..last

\* Where the reserved part may start: never after a message with unresolved
\* tool work, and the last message is always reserved.
ReserveStarts ==
  {k \in (first + 1)..last : \A m \in first..last : Unresolved(m) => k <= m}

\* executeSummary: the reserved messages are replaced by clones; the loop
\* keeps its pointer to the message that was there before.
Compact ==
  /\ Compaction
  /\ \E k \in ReserveStarts : first' = k
  /\ mem' = IF at = "context" THEN [mem EXCEPT !["orphan"] = mem["context"]] ELSE mem
  /\ at' = "orphan"

KeepContext == UNCHANGED <<first, mem, at>>

-------------------------------------------------------------------------------
(* continueReply                                                           *)

\* One iteration begins: compress, then act on pending calls or reason.
Top ==
  /\ pc = "top"
  /\ MoreIterations
  /\ \/ /\ KeepContext \/ Compact
        /\ todo' = Pending(replyID, Assistant)
        /\ pc' = IF todo' = {} THEN "model"
                 ELSE IF Cardinality(todo') = 1 THEN "single" ELSE "handle"
        /\ UNCHANGED <<batch, ranBatch, after, failed, outcome>>
     \/ FALSE \in Success /\ KeepContext /\ Fail
  /\ UNCHANGED <<last, replies, calls, loop, history>>

\* Mutant: the loop's exit is not reached at the bound.
ExceedLate ==
  /\ pc = "top"
  /\ curIter > MaxIters
  /\ pc' = "idle" /\ outcome' = "exceeded"
  /\ UNCHANGED <<conversation, calls, blocks, loop, acting, history, failed>>

\* The loop is over: the reply ends with ExceedMaxIters.
Exceed ==
  /\ pc = "top"
  /\ ~MoreIterations
  /\ pc' = "idle"
  /\ \E ok \in Success : /\ outcome' = IF ok THEN "exceeded" ELSE "error"
                         /\ failed' = IF ok THEN failed ELSE failed \cup {replyID}
  /\ UNCHANGED <<conversation, calls, blocks, loop, acting, history>>

\* runReasoning: the model streams n tool calls into the message.  A failing
\* stream leaves the calls it had announced.
Reason(n, k) ==
  LET new == (made + 1)..(made + n)
      view == [c \in Call |-> IF c \in new THEN [st |-> "pending", res |-> "none"]
                                           ELSE Assistant[c]]
  IN /\ pc = "model"
     /\ made + n <= CallBound
     /\ made' = made + n
     /\ owner' = [c \in Call |-> IF c \in new THEN replyID ELSE owner[c]]
     /\ kind' = [c \in Call |-> IF c \in new THEN k[c - made] ELSE kind[c]]
     /\ Apply(view)
     /\ turns' = [turns EXCEPT ![replyID] = @ + 1]
     /\ \E ok \in Success :
          /\ Continue(ok, IF n = 0 THEN "end" ELSE IF n = 1 THEN "single" ELSE "handle")
          /\ todo' = IF ok THEN new ELSE {}
          /\ after' = IF ok /\ n = 0 THEN "ended" ELSE "none"
     /\ UNCHANGED <<conversation, at, loop, batch, ranBatch, ran, permitted, asked, questions,
                    sent>>

\* runActing is done and nobody is waited for: compress and count the iteration.
AfterActing ==
  /\ pc = "after"
  /\ \/ /\ KeepContext \/ Compact
        /\ curIter' = curIter + 1
        /\ pc' = "top"
        /\ UNCHANGED <<acting, failed, outcome>>
     \/ FALSE \in Success /\ KeepContext /\ UNCHANGED curIter /\ Fail
  /\ UNCHANGED <<last, replies, calls, replyID, history>>

\* ReplyEnd
End ==
  /\ pc = "end"
  /\ pc' = "idle"
  /\ \E ok \in Success : /\ outcome' = IF ok THEN after ELSE "error"
                         /\ failed' = IF ok THEN failed ELSE failed \cup {replyID}
  /\ todo' = {} /\ after' = "none"
  /\ UNCHANGED <<conversation, calls, blocks, loop, batch, ranBatch, history>>

-------------------------------------------------------------------------------
(* runActing: the calls of todo in order, the safe ones batched.           *)

\* The call in hand, once the batch it is not compatible with is flushed.
Handling(c) ==
  /\ pc \in {"handle", "single"}
  /\ IsFirst(c, todo)
  /\ batch = {} \/ kind[c] \in {"safe", "garbled"}

\* Mutant: no call is put to the permission engine.
NeverNeedsCheck(c) == FALSE

\* prepareToolCall asks the engine unless the user has already allowed the call.
NeedsCheck(c) == Assistant[c].st # "allowed"

\* flushBeforeIfNeeded
FlushBefore(c) ==
  /\ pc = "handle"
  /\ IsFirst(c, todo)
  /\ batch # {} /\ kind[c] \notin {"safe", "garbled"}
  /\ pc' = "flush" /\ after' = "handle"
  /\ UNCHANGED <<conversation, calls, blocks, loop, todo, batch, ranBatch, history,
                 failed, outcome>>

\* Call c is handled and needs nobody else: on to the next one.
Handled(c) ==
  /\ pc' = "handle" /\ todo' = todo \ {c}
  /\ UNCHANGED <<batch, ranBatch, after, failed, outcome>>

\* emitToolError: a result block is opened, filled and closed with `how'; an
\* emit that fails leaves it open or closed.
ToolError(c, how) ==
  \/ /\ Apply([Assistant EXCEPT ![c] = [st |-> "finished", res |-> how]])
     /\ Handled(c)
  \/ /\ FALSE \in Success
     /\ \E res \in {"running", how} :
          Apply([Assistant EXCEPT ![c] =
                  [st |-> IF res = how \/ how = "denied" THEN "finished" ELSE @.st,
                   res |-> res]])
     /\ Fail

\* The tool is not found, or the input is not a JSON object.
HandleUncallable(c) ==
  /\ Handling(c) /\ kind[c] \in {"missing", "garbled"}
  /\ ToolError(c, "done")
  /\ UNCHANGED <<conversation, calls, at, loop, history>>

\* CheckPermission returns an error: nothing that is batched runs.
EngineError(c) ==
  /\ Handling(c) /\ kind[c] \notin {"missing", "garbled"}
  /\ NeedsCheck(c)
  /\ FALSE \in Success
  /\ Fail
  /\ UNCHANGED <<conversation, calls, blocks, loop, history>>

HandleDenied(c) ==
  /\ Handling(c) /\ kind[c] \notin {"missing", "garbled"}
  /\ NeedsCheck(c)
  /\ ToolError(c, "denied")
  /\ UNCHANGED <<conversation, calls, at, loop, history>>

\* Mutant: what is batched is forgotten.
WaitWithoutFlush(c) ==
  /\ pc' = "end" /\ after' = "waiting"
  /\ todo' = todo \ {c} /\ batch' = {}
  /\ UNCHANGED <<ranBatch, failed, outcome>>

\* The reply stops to wait for c; what is batched is flushed first.
Wait(c) ==
  /\ pc' = IF batch = {} THEN "end" ELSE "flush"
  /\ after' = "waiting"
  /\ todo' = todo \ {c}
  /\ UNCHANGED <<batch, ranBatch, failed, outcome>>

\* BehaviorAsk: RequireUserConfirm.  Only a question the loop writes to the
\* context's own message is there for its answer to find.
HandleAsk(c) ==
  /\ Handling(c) /\ kind[c] \notin {"missing", "garbled"}
  /\ NeedsCheck(c)
  /\ Apply([Assistant EXCEPT ![c].st = "asking"])
  /\ asked' = asked \cup {c}
  /\ questions' = IF at = "context" THEN questions \cup {c} ELSE questions
  /\ Wait(c) \/ (FALSE \in Success /\ Fail)
  /\ UNCHANGED <<conversation, calls, at, loop, ran, permitted, sent, turns>>

\* BehaviorAllow, by the engine or by the user before: the result block opens.
Permit(c) ==
  /\ Handling(c) /\ kind[c] \notin {"missing", "garbled"}
  /\ permitted' = IF NeedsCheck(c) THEN permitted \cup {c} ELSE permitted

\* An external tool: RequireExternalExecution.
HandleExternal(c) ==
  /\ Permit(c) /\ kind[c] = "external"
  /\ \/ /\ Apply([Assistant EXCEPT ![c] = [st |-> "submitted", res |-> "running"]])
        /\ sent' = sent \cup {c}
        /\ Wait(c)
     \/ /\ FALSE \in Success
        /\ \E st \in {"allowed", "submitted"} :
             /\ Apply([Assistant EXCEPT ![c] = [st |-> st, res |-> "running"]])
             /\ sent' = IF st = "submitted" THEN sent \cup {c} ELSE sent
        /\ Fail
  /\ UNCHANGED <<conversation, calls, at, loop, ran, asked, questions, turns>>

\* Mutant: the batch takes any local tool.
JoinsBatchUnchecked(c) == pc = "handle"

\* A safe tool joins the batch unless it is the only call.
JoinsBatch(c) == kind[c] = "safe" /\ pc = "handle"

\* A local tool: batched, or executed on its own.
HandleLocal(c) ==
  /\ Permit(c) /\ kind[c] # "external"
  /\ Apply([Assistant EXCEPT ![c] = [st |-> "allowed", res |-> "running"]])
  /\ \/ /\ JoinsBatch(c)
        /\ batch' = batch \cup {c} /\ todo' = todo \ {c}
        /\ UNCHANGED <<pc, ranBatch, after, failed, outcome>>
     \/ /\ ~JoinsBatch(c)
        /\ pc' = "exec"
        /\ UNCHANGED <<acting, failed, outcome>>
     \/ FALSE \in Success /\ Fail
  /\ UNCHANGED <<conversation, calls, at, loop, ran, asked, questions, sent, turns>>

\* executeLocalTool: the tool runs, its chunks and its end are emitted.
Exec(c) ==
  /\ pc = "exec" /\ IsFirst(c, todo)
  /\ ran' = [ran EXCEPT ![c] = @ + 1]
  /\ \/ /\ Apply([Assistant EXCEPT ![c] = [st |-> "finished", res |-> "done"]])
        /\ Handled(c)
     \/ /\ FALSE \in Success
        /\ \/ UNCHANGED mem
           \/ Apply([Assistant EXCEPT ![c] = [st |-> "finished", res |-> "done"]])
        /\ Fail
  /\ UNCHANGED <<conversation, calls, at, loop, permitted, asked, questions, sent, turns>>

\* Every call is handled: flush what is batched.
AllHandled ==
  /\ pc = "handle" /\ todo = {}
  /\ IF batch = {} THEN pc' = "after" /\ after' = "none"
                   ELSE pc' = "flush" /\ after' = "after"
  /\ UNCHANGED <<conversation, calls, blocks, loop, todo, batch, ranBatch, history,
                 failed, outcome>>

\* Mutant: a call whose goroutine has finished is started again.
RunBatchedAgain(c) ==
  /\ pc = "flush" /\ c \in batch
  /\ ran' = [ran EXCEPT ![c] = @ + 1]
  /\ ranBatch' = ranBatch \cup {c}
  /\ pc' = IF ranBatch' = batch THEN "settle" ELSE "flush"
  /\ UNCHANGED <<conversation, calls, blocks, loop, todo, batch, after,
                 permitted, asked, questions, sent, turns, failed, outcome>>

\* executeLocalToolBatch: one goroutine per plan, in any order ...
RunBatched(c) ==
  /\ pc = "flush" /\ c \in batch \ ranBatch
  /\ ran' = [ran EXCEPT ![c] = @ + 1]
  /\ ranBatch' = ranBatch \cup {c}
  /\ pc' = IF ranBatch' = batch THEN "settle" ELSE "flush"
  /\ UNCHANGED <<conversation, calls, blocks, loop, todo, batch, after,
                 permitted, asked, questions, sent, turns, failed, outcome>>

\* ... then, all of them back, the results emitted in the order of the calls.
Settle(c) ==
  /\ pc = "settle" /\ IsFirst(c, batch)
  /\ \/ /\ Apply([Assistant EXCEPT ![c] = [st |-> "finished", res |-> "done"]])
        /\ batch' = batch \ {c}
        /\ ranBatch' = ranBatch \ {c}
        /\ pc' = IF batch' # {} THEN "settle"
                 ELSE IF after = "waiting" THEN "end" ELSE after
        /\ UNCHANGED <<todo, after, failed, outcome>>
     \/ /\ FALSE \in Success
        /\ \/ UNCHANGED mem
           \/ Apply([Assistant EXCEPT ![c] = [st |-> "finished", res |-> "done"]])
        /\ Fail
  /\ UNCHANGED <<conversation, calls, at, loop, history>>

-------------------------------------------------------------------------------
Input ==
  \/ ReplyNil
  \/ ReplyMessage
  \/ \E c \in Call, yes \in BOOLEAN : ReplyConfirm(c, yes)
  \/ \E c \in Call : ReplyExternal(c)
  \/ ObserveMessage
  \/ \E c \in Call, yes \in BOOLEAN : ObserveConfirm(c, yes)
  \/ \E c \in Call : ObserveExternal(c)

Act(c) ==
  \/ FlushBefore(c)
  \/ HandleUncallable(c)
  \/ EngineError(c)
  \/ HandleDenied(c)
  \/ HandleAsk(c)
  \/ HandleExternal(c)
  \/ HandleLocal(c)
  \/ Exec(c)
  \/ RunBatched(c)
  \/ Settle(c)

Flow ==
  \/ Top
  \/ Exceed
  \/ \E n \in 0..TurnCalls : \E k \in [1..n -> Kinds] : Reason(n, k)
  \/ \E c \in Call : Act(c)
  \/ AllHandled
  \/ AfterActing
  \/ End

Next == Input \/ Flow

Spec == Init /\ [][Next]_vars

\* The goroutine that runs a reply is scheduled, and models, tools and the
\* consumer of the events return: each step of a running reply is taken.
FairSpec == Spec /\ WF_vars(Flow)

-------------------------------------------------------------------------------
\* Types of every variable.
TypeOK ==
  /\ first \in Nat /\ last \in 0..MsgBound
  /\ replies \subseteq Msg
  /\ made \in 0..CallBound
  /\ owner \in [Call -> 0..MsgBound]
  /\ kind \in [Call -> Kind]
  /\ mem \in [View -> [Call -> Block]]
  /\ at \in View
  /\ replyID \in 0..MsgBound
  /\ curIter \in 0..MaxIters
  /\ pc \in PC
  /\ todo \subseteq Call /\ batch \subseteq Call /\ ranBatch \subseteq Call
  /\ after \in {"none", "handle", "waiting", "after", "ended"}
  /\ ran \in [Call -> Nat]
  /\ permitted \subseteq Call /\ asked \subseteq Call /\ sent \subseteq Call
  /\ questions \subseteq Call
  /\ turns \in [Msg -> Nat]
  /\ failed \subseteq Msg
  /\ outcome \in {"none", "ended", "waiting", "exceeded", "error"}

\* A tool call never runs twice, however confirmations, external results,
\* errors and resumed replies follow one another (pendingToolCalls and the
\* result block prepareToolCall opens before it runs the tool).
RunsAtMostOnce == \A c \in Call : ran[c] <= 1

\* A tool runs only when the engine has allowed the call or the user has
\* confirmed it, and the user has not rejected it since, even where the
\* rejection came too late to be applied (prepareToolCall, applyIncomingEvent).
RunsOnlyPermitted ==
  [][\A c \in Call : ran'[c] > ran[c] => c \in permitted]_vars

\* No call the engine or the batch runner has started is left behind: when
\* the agent is idle an open result belongs to a call handed outside or to
\* a reply that an error ended (toolBatchRunner.flush on every way out).
NothingLeftRunning ==
  pc = "idle" =>
    \A c \in Call : mem["context"][c].res = "running" => c \in sent \/ owner[c] \in failed

\* The model is asked for a next step at most MaxIters times for one reply ID,
\* over all the calls of Reply that resume it (state.CurIter, continueReply):
\* what is counted is passes of runReasoning, each of which may try its
\* provider call again, or the fallback model, within the pass.
IterationBound == \A m \in Msg : turns[m] <= MaxIters

\* A batch never holds a call that may not run beside the others, and a call
\* that must run alone finds every call before it finished
\* (flushBeforeIfNeeded, handle).
SerialRunsAlone ==
  /\ \A c \in batch : kind[c] = "safe"
  /\ pc = "exec" =>
       \A c \in todo, b \in Call :
         /\ IsFirst(c, todo) /\ b < c
         /\ owner[b] = replyID /\ Assistant[b].res = "running"
         => b \in sent \/ replyID \in failed

\* A question the loop has put to the user from the context's own message stands
\* there, unanswered, until an answer is applied to it, whatever replies,
\* failures and compactions come between: the answer finds the call, still
\* asking and without a result (firstUnresolvedToolMessageIndex).  A question
\* asked after a compaction of the same reply is written to the detached
\* message only and is none of these: no answer finds the call, unless the
\* context has it from before.
QuestionsStand ==
  \A c \in questions :
    /\ first <= owner[c]
    /\ mem["context"][c].st = "asking" /\ mem["context"][c].res = "none"

\* Reply returns: whatever the outcome, a reply that began ends.
ReplyEnds == pc # "idle" ~> pc = "idle"

\* Where a call with block b stands in its abstract life; handed outside or not.
PhaseIn(b, outside) ==
  IF b.res = "running" THEN (IF outside THEN "outside" ELSE "open")
  ELSE IF b.res # "none" THEN "closed"
  ELSE CASE b.st = "none"    -> "unborn"
         [] b.st = "pending" -> "proposed"
         [] b.st = "asking"  -> "asking"
         [] b.st = "allowed" -> "granted"
         [] OTHER            -> "refused"

\* What the context says of call c.
PhaseOf(c) == PhaseIn(mem["context"][c], c \in sent)

Lifecycle == INSTANCE ToolCallLifecycle
               WITH phase   <- [c \in Call |-> PhaseOf(c)],
                    permits <- permitted,
                    runs    <- ran

\* The reply flow implements the abstract life of every tool call.
ImplementsLifecycle == Lifecycle!Spec

==============================================================================
