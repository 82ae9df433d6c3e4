---------------------------- MODULE LimitedReplies ----------------------------
(***************************************************************************)
(* The replies of an agent with a middleware that limits them: the loop    *)
(* runtime or the reply budget.  Both watch the events of the reply in the *)
(* goroutine of a reply hook, downstream of the reply (OnReply), and both  *)
(* consult what they have counted upstream of it, when a reasoning pass    *)
(* begins (OnReasoning) and when the model is called (OnModelCall).        *)
(*                                                                         *)
(* A reply has the id of the call that started it.  The runtime has a      *)
(* verifier and does not emit events of its own (WithEventEmission), but   *)
(* for the end of the verification, which it always sends.  Its limits on  *)
(* tool calls and tokens are counted as model calls are and left out, as   *)
(* are the hints that ask the model to wrap up.                            *)
(***************************************************************************)
EXTENDS ReplyStream, LoopRuntime, ReplyBudget, Sequences

CONSTANT Agents   \* the agents to consider, with the bounds on what their callers do

ASSUME RepliesAssumption  == Replies = Callers
ASSUME AgentsAssumption ==
  /\ Agents \subseteq [hooks : Hooks, middleware : {"none", "loop", "budget"},
                       policy : [iterations : Nat, calls : Nat], maxIters : Nat \ {0},
                       faults : SUBSET {"yield", "cancel"}]
  /\ \A a \in Agents : a.middleware # "none" => a.hooks = "relay"   \* its OnReply

VARIABLES
  middleware,   \* which middleware the agent has
  maxIters,     \* its ReActConfig.MaxIters
  faults,       \* bound: may a yield fail, may a caller's context be cancelled
  replyID,      \* state.ReplyID
  curIter,      \* state.CurIter
  pending,      \* the reply whose calls are left to act on, when it is the last message
  phase,        \* how far the reply of each caller has come
  sending,      \* the event it is emitting: its kind, and the reply it names
  barred,       \* was its last model call barred from tools
  todo,         \* what the hook of each caller has still to do for its event
  held,         \* the reply that event names
  local,        \* OnReply: stopReason
  started,      \* OnReply: started
  origin,       \* history: the reply each call started or resumed
  saw,          \* history: the events that stop a reply each call has emitted
  verdicts,     \* history: what the verifier has said of each reply
  made,         \* history: model calls of each call
  spent         \* history: model calls of each reply

replyVars == <<replyID, curIter, pending, phase, sending, barred, origin, saw, made, spent>>
hookVars  == <<todo, held, local, started, verdicts>>
settings  == <<middleware, maxIters, faults>>
limits    == <<loopVars, used>>
limitedVars == <<vars, settings, limits, replyVars, hookVars>>

LimitedInit ==
  /\ \E a \in Agents :
       /\ hooks = a.hooks /\ middleware = a.middleware /\ maxIters = a.maxIters
       /\ faults = a.faults /\ LoopInit(a.policy)
  /\ Init /\ BudgetInit(Callers)
  /\ replyID = NoReply /\ curIter = 0 /\ pending = NoReply
  /\ phase = [c \in Callers |-> "input"]
  /\ sending = [c \in Callers |-> [kind |-> "none", reply |-> NoReply]]
  /\ barred = [c \in Callers |-> FALSE]
  /\ todo = [c \in Callers |-> << >>]
  /\ held = [c \in Callers |-> NoReply]
  /\ local = [c \in Callers |-> "completed"]
  /\ started = [c \in Callers |-> FALSE]
  /\ origin = [c \in Callers |-> NoReply]
  /\ saw = [c \in Callers |-> {}]
  /\ verdicts = [r \in Replies |-> TRUE]
  /\ made = [c \in Callers |-> 0]
  /\ spent = [r \in Replies |-> 0]

-------------------------------------------------------------------------------
(* The reply, upstream of the hook. *)

\* The reply applies an event of this kind and goes on to phase p.
Send(c, kind, p) ==
  /\ Apply(c)
  /\ phase' = [phase EXCEPT ![c] = p]
  /\ sending' = [sending EXCEPT ![c] = [kind |-> kind, reply |-> replyID']]
  /\ saw' = [saw EXCEPT ![c] = @ \cup ({kind} \cap {"asked", "ended", "exceeded"})]
  /\ UNCHANGED <<settings, hookVars>>

\* runReply of a new reply: the input is appended, and ReplyStart emitted.
StartReply(c) ==
  /\ phase[c] = "input"
  /\ replyID' = c /\ curIter' = 0 /\ pending' = NoReply
  /\ origin' = [origin EXCEPT ![c] = c]
  /\ Send(c, "start", "top")
  /\ UNCHANGED <<limits, barred, made, spent>>

\* runReply of a reply that was left with calls to act on: no ReplyStart.
ResumeReply(c) ==
  /\ run[c] = "step" /\ phase[c] = "input" /\ pending # NoReply
  /\ replyID' = pending
  /\ origin' = [origin EXCEPT ![c] = pending]
  /\ phase' = [phase EXCEPT ![c] = "top"]
  /\ UNCHANGED <<vars, settings, limits, hookVars, curIter, pending, sending,
                 barred, saw, made, spent>>

\* OnReasoning of the middleware, then what the pass emits until its model answers.
Reason(c) ==
  /\ phase[c] = "top" /\ curIter < maxIters /\ pending # replyID
  /\ IF middleware = "loop" THEN BeginReasoning ELSE UNCHANGED loopVars
  /\ UNCHANGED <<used, replyID, curIter, pending, origin, barred, made, spent>>
  /\ Send(c, "pass", "model")

\* Mutant: the model is called as if nothing had been used up.
NeverBarred == FALSE

\* exceededAgent, ReplyBudgetControlMiddleware.exceeded
Barred == \/ middleware = "loop" /\ LoopExceeded
          \/ middleware = "budget" /\ BudgetExceeded(replyID)

\* OnModelCall and the call.  reason runs in a goroutine of its own when there
\* are reasoning hooks, and does not wait for the events of the pass to go out.
\* One call a pass: the retries and the fallback model of callModel are left out.
CallModel(c) ==
  /\ phase[c] = "model"
  /\ run[c] = "step" \/ (run[c] = "send" /\ middleware # "none")
  /\ barred' = [barred EXCEPT ![c] = Barred]
  /\ made' = [made EXCEPT ![c] = @ + 1]
  /\ spent' = [spent EXCEPT ![origin[c]] = @ + 1]
  /\ phase' = [phase EXCEPT ![c] = "called"]
  /\ UNCHANGED <<vars, settings, limits, hookVars, replyID, curIter, pending,
                 sending, origin, saw>>

\* The model has answered, with tool calls unless they are barred: ModelCallEnd.
Answer(c) ==
  /\ phase[c] = "called"
  /\ \E tools \in IF barred[c] THEN {FALSE} ELSE BOOLEAN :
       /\ pending' = IF tools THEN replyID ELSE pending
       /\ UNCHANGED <<limits, replyID, curIter, origin, barred, made, spent>>
       /\ Send(c, "called", IF tools THEN "act" ELSE "answered")

\* The reply is about to act on its calls: after a pass, or because it resumes.
Acting(c) ==
  \/ phase[c] = "act"
  \/ phase[c] = "top" /\ curIter < maxIters /\ pending = replyID

\* runActing runs the calls, and the next iteration begins.
Act(c) ==
  /\ Acting(c)
  /\ curIter' = curIter + 1 /\ pending' = NoReply
  /\ UNCHANGED <<limits, replyID, origin, barred, made, spent>>
  /\ Send(c, "pass", "top")

\* runActing puts a call to the user, which leaves it in the message.
Ask(c) ==
  /\ Acting(c)
  /\ UNCHANGED <<limits, replyID, curIter, pending, origin, barred, made, spent>>
  /\ Send(c, "asked", "answered")

\* ReplyEnd
EndReply(c) ==
  /\ phase[c] = "answered"
  /\ UNCHANGED <<limits, replyID, curIter, pending, origin, barred, made, spent>>
  /\ Send(c, "ended", "over")

\* ExceedMaxIters, with no ReplyEnd.
ExceedIters(c) ==
  /\ phase[c] = "top" /\ curIter >= maxIters
  /\ UNCHANGED <<limits, replyID, curIter, pending, origin, barred, made, spent>>
  /\ Send(c, "exceeded", "over")

\* runReply returns: at its end, or at an error on the way.
ReturnReply(c) ==
  /\ End(c, IF phase[c] = "over" THEN "nil" ELSE "error")
  /\ UNCHANGED <<settings, limits, replyVars, hookVars>>

Reply(c) ==
  \/ StartReply(c) \/ ResumeReply(c)
  \/ Reason(c) \/ CallModel(c) \/ Answer(c)
  \/ Act(c) \/ Ask(c)
  \/ EndReply(c) \/ ExceedIters(c)
  \/ ReturnReply(c)

-------------------------------------------------------------------------------
(* The middleware's goroutine, downstream of the reply. *)

\* Runtime.OnReply: what it does with an event, in order; "offer" is out <- event.
LoopWork(kind) ==
  CASE kind = "start"    -> <<"startRun", "offer">>
    [] kind = "called"   -> <<"count", "offer">>
    [] kind = "asked"    -> <<"waiting_user", "offer">>
    [] kind = "exceeded" -> <<"max_iterations", "offer">>
    [] kind = "ended"    -> <<"offer", "verify", "offer", "stopRun">>
    [] OTHER             -> <<"offer">>

\* ReplyBudgetControlMiddleware.OnReply
BudgetWork(kind) ==
  CASE kind \in {"start", "ended"} -> <<"clear", "offer">>
    [] kind = "called"             -> <<"add", "offer">>
    [] OTHER                       -> <<"offer">>

\* The hook takes the event of the reply.
TakeEvent(c) ==
  /\ HookTake(c)
  /\ LET kind == sending[c].kind IN
       todo' = [todo EXCEPT ![c] =
                  CASE middleware = "loop"   -> LoopWork(kind)
                    [] middleware = "budget" -> BudgetWork(kind)
                    [] OTHER                 -> <<"offer">>]
  /\ held' = [held EXCEPT ![c] = sending[c].reply]
  /\ UNCHANGED <<settings, limits, replyVars, local, started, verdicts>>

\* The work before the next send.
Work(c) ==
  LET w == Head(todo[c]) IN
  /\ todo[c] # << >> /\ w # "offer"
  /\ todo' = [todo EXCEPT ![c] = Tail(@)]
  /\ \/ w = "startRun" /\ StartRun(held[c])
        /\ started' = [started EXCEPT ![c] = TRUE]
        /\ UNCHANGED <<used, local, verdicts>>
     \/ w = "count" /\ CountModelCall
        /\ UNCHANGED <<used, local, started, verdicts>>
     \/ w \in {"waiting_user", "max_iterations"} /\ SetReason(w)
        /\ local' = [local EXCEPT ![c] = w]
        /\ UNCHANGED <<used, started, verdicts>>
     \/ /\ w = "verify"
        /\ \E passed \in BOOLEAN :
             LET stop == AfterVerification(passed) IN
             /\ RecordVerification(passed)
             /\ local' = [local EXCEPT ![c] = IF stop = "none" THEN @ ELSE stop]
             /\ verdicts' = [verdicts EXCEPT ![held[c]] = passed]
        /\ UNCHANGED <<used, started>>
     \/ w = "stopRun" /\ StopRun(local[c])
        /\ started' = [started EXCEPT ![c] = FALSE]
        /\ UNCHANGED <<used, local, verdicts>>
     \/ w = "clear" /\ ClearReply(held[c])
        /\ UNCHANGED <<loopVars, local, started, verdicts>>
     \/ w = "add" /\ AddUsage(held[c])
        /\ UNCHANGED <<loopVars, local, started, verdicts>>
  /\ UNCHANGED <<vars, settings, replyVars, held>>

\* out <- event
Offer(c) ==
  /\ todo[c] # << >> /\ Head(todo[c]) = "offer"
  /\ HookOffer(c)
  /\ todo' = [todo EXCEPT ![c] = Tail(@)]
  /\ "yield" \in faults \/ pc' = pc
  /\ UNCHANGED <<settings, limits, replyVars, held, local, started, verdicts>>

\* The events have ended: the run of a reply that got no ReplyEnd is stopped.
EventsEnd(c) ==
  /\ HookDrained(c)
  /\ todo' = [todo EXCEPT ![c] = IF started[c] THEN <<"stopRun">> ELSE << >>]
  /\ UNCHANGED <<settings, limits, replyVars, held, local, started, verdicts>>

\* Back to the range over the events, or out of the goroutine.
WorkDone(c) ==
  /\ todo[c] = << >>
  /\ HookBack(c) \/ HookDone(c)
  /\ UNCHANGED <<settings, limits, replyVars, hookVars>>

Hook(c) == TakeEvent(c) \/ Work(c) \/ Offer(c) \/ EventsEnd(c) \/ WorkDone(c)

-------------------------------------------------------------------------------
\* The steps of ReplyStream that concern neither the reply nor the hook.
Aside == UNCHANGED <<settings, limits, replyVars, hookVars>>

Caller(c) == (Observe(c) \/ RangeEnds(c) \/ Emit(c)) /\ Aside

\* What the environment does: a call, and the end of its context.
Environment(c) == ((\E o \in Op : Lock(c, o)) \/ ("cancel" \in faults /\ Cancel(c))) /\ Aside

\* A step of the goroutines of one call.
Goroutine(c) == Caller(c) \/ Reply(c) \/ Hook(c)

LimitedNext == \E c \in Callers : Environment(c) \/ Goroutine(c)

LimitedSpec == LimitedInit /\ [][LimitedNext]_limitedVars

\* The goroutines of a call are scheduled; the model, the tools, the verifier and
\* yield return.
Fairness == \A c \in Callers : WF_limitedVars(Goroutine(c))

FairSpec == LimitedSpec /\ Fairness

-------------------------------------------------------------------------------
\* No call of reply r has failed; a call that fails may lose the end of its
\* model call, and what the call used with it.
Unbroken(r) == \A c \in Callers : origin[c] = r => outcome[c] # "error"

\* A limit stops a reply although it is counted in another goroutine than the
\* one it stops: a run makes at most one model call more than its policy allows,
\* over all the calls that resume it, and one call at most one more than its
\* budget (OnReply, OnReasoning, OnModelCall of the two middlewares).
RunsBounded ==
  /\ middleware = "loop" =>
       \A r \in Replies : Unbroken(r) =>
         /\ policy.iterations > 0 => spent[r] <= policy.iterations + 1
         /\ policy.calls > 0 => spent[r] <= policy.calls + 1
  /\ middleware = "budget" => \A c \in Callers : made[c] <= Budget + 1

\* Call c ran the whole of a reply of its own.
WholeReply(c) ==
  /\ result[c] = "nil" /\ origin[c] = c
  /\ \A d \in Callers \ {c} : origin[d] # c

\* What the runtime has recorded of a reply is what the reply did: the model
\* calls, and why it stopped (startRun, stopRun and the cases of OnReply).
RunRecordTrue ==
  middleware = "loop" =>
    \A c \in Callers : WholeReply(c) =>
      /\ record[c].calls = made[c]
      /\ record[c].reason = "verifier_failed" <=> "ended" \in saw[c] /\ ~verdicts[c]
      /\ record[c].reason = "waiting_user" <=> "asked" \in saw[c] /\ verdicts[c]
      /\ record[c].reason = "max_iterations" <=> "exceeded" \in saw[c]
      /\ record[c].reason = "budget_exceeded" => ExceededBy(record[c])

==============================================================================
