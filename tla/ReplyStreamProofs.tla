--------------------------- MODULE ReplyStreamProofs ---------------------------
(***************************************************************************)
(* The replies of one agent are serialized but for one case: a yield that  *)
(* fails abandons a reply whose goroutine still runs.  Where no yield of a *)
(* limited agent fails, its runs are bounded and their records are true.   *)
(*                                                                         *)
(* The invariant of a limited agent is a conjunction, each part of which   *)
(* rests on those before it: one reply at a time (AloneOK) and the ids it  *)
(* goes by (IdsOK), what its hook has left to do (WorkOK), how far the     *)
(* reply can be ahead of its hook (FlowOK), whose the last run is (RunOK), *)
(* what has been counted of it (CountOK, BudgetOK), the events that stop   *)
(* it (SawOK) and what its record says (RecordOK).                         *)
(***************************************************************************)
EXTENDS LimitedReplies, TLAPS

\* Every caller inside the flow holds the lock, a reply runs only while its
\* caller is inside or has abandoned it, and the goroutine is done when the
\* channel is closed, as it is before a hook leaves its range over the events.
LockOK ==
  /\ \A c \in Callers : pc[c] \in {"observe", "inline", "range"} => mu = c
  /\ \A c \in Callers : Running(c) => pc[c] \in {"inline", "range"} \/ Abandoned(c)
  /\ \A c \in Callers : closed[c] => run[c] = "done"
  /\ \A c \in Callers : hop[c] \in {"last", "done"} => closed[c]
  /\ \A c \in Callers : pc[c] = "idle" => run[c] = "none"
  /\ \A c \in Callers : pc[c] = "range" => hooks # "none"

\* The channel errs holds what the reply returned before the events are closed, so
\* that a call that returns nil is one whose reply returned nil.
ErrorsOK ==
  \A c \in Callers :
    /\ run[c] = "errs" => outcome[c] # "none"
    /\ run[c] = "close" \/ closed[c] => errs[c] = outcome[c] /\ outcome[c] # "none"
    /\ op[c] # "Observe" /\ result[c] = "nil" => run[c] = "done" /\ outcome[c] = "nil"
    /\ pc[c] # "returned" => result[c] = "none"
    /\ pc[c] = "observe" => op[c] = "Observe"

LEMMA TypeInit == Init => TypeOK
BY DEF Init, TypeOK, Op, Result, Hooks

LEMMA TypeNext == TypeOK /\ [Next]_vars => TypeOK'
<1>. SUFFICES ASSUME TypeOK, [Next]_vars PROVE TypeOK'
  OBVIOUS
<1>. USE DEF TypeOK
<1>1. ASSUME NEW c \in Callers, NEW o \in Op, Lock(c, o)  PROVE TypeOK'
  BY <1>1 DEF Lock
<1>2. ASSUME NEW c \in Callers, Observe(c)  PROVE TypeOK'
  BY <1>2 DEF Observe, Return, Result
<1>3. ASSUME NEW c \in Callers, Cancel(c)  PROVE TypeOK'
  BY <1>3 DEF Cancel
<1>4. ASSUME NEW c \in Callers, Apply(c)  PROVE TypeOK'
  BY <1>4 DEF Apply
<1>11. ASSUME NEW c \in Callers, NEW r \in {"nil", "error"}, End(c, r)  PROVE TypeOK'
  <2>1. r \in Result /\ Finish(c, r) /\ UNCHANGED <<hooks, op, errs, closed, hop>>
    BY <1>11 DEF End, Result
  <2>2. CASE pc[c] = "inline"
    BY <2>1, <2>2, ZenonT(60) DEF Finish, Return
  <2>3. CASE pc[c] # "inline"
    BY <2>1, <2>3 DEF Finish, Return
  <2>. QED  BY <2>2, <2>3
<1>12. ASSUME NEW c \in Callers, Relay(c)  PROVE TypeOK'
  <2>1. CASE HookTake(c)
    BY <2>1 DEF HookTake, HopTo
  <2>2. CASE HookOffer(c)
    BY <2>2, ZenonT(60) DEF HookOffer, Return, Result
  <2>3. CASE HookBack(c) \/ HookDrained(c) \/ HookDone(c)
    BY <2>3 DEF HookBack, HookDrained, HookDone, HopTo
  <2>. QED  BY <1>12, <2>1, <2>2, <2>3 DEF Relay
<1>5. ASSUME NEW c \in Callers, EmitInline(c)  PROVE TypeOK'
  <2>1. CASE run' = [run EXCEPT ![c] = "step"] /\ UNCHANGED <<mu, pc, outcome, cancelled, result>>
    BY <1>5, <2>1 DEF EmitInline
  <2>2. CASE Finish(c, "error")
    <3>1. Return(c, "error") /\ "error" \in Result
      BY <1>5, <2>2 DEF EmitInline, Finish, Result
    <3>. QED  BY <1>5, <2>2, <3>1 DEF EmitInline, Finish, Return
  <2>. QED  BY <1>5, <2>1, <2>2 DEF EmitInline
<1>6. ASSUME NEW c \in Callers, Deliver(c)  PROVE TypeOK'
  BY <1>6, ZenonT(60) DEF Deliver, Return, Result
<1>7. ASSUME NEW c \in Callers, EmitCancelled(c)  PROVE TypeOK'
  BY <1>7 DEF EmitCancelled, Finish, Return, Result
<1>8. ASSUME NEW c \in Callers, PutErr(c) \/ Close(c)  PROVE TypeOK'
  <2>1. CASE PutErr(c)
    BY <2>1 DEF PutErr
  <2>2. CASE Close(c)
    BY <2>2 DEF Close
  <2>. QED  BY <1>8, <2>1, <2>2
<1>9. ASSUME NEW c \in Callers, RangeEnds(c)  PROVE TypeOK'
  BY <1>9 DEF RangeEnds, Return, Result
<1>10. CASE UNCHANGED vars
  BY <1>10 DEF vars
<1>. QED
  BY <1>1, <1>2, <1>3, <1>4, <1>5, <1>6, <1>7, <1>8, <1>9, <1>10, <1>11, <1>12
     DEF Next, Emit

LEMMA LockInit == Init => LockOK
BY DEF Init, LockOK, Running

LEMMA LockNext ==
  ASSUME TypeOK, LockOK, [Next]_vars
  PROVE  LockOK'
<1>. USE NoCallerAssumption DEF TypeOK, LockOK, Running, Abandoned
<1>1. ASSUME NEW c \in Callers, NEW o \in Op, Lock(c, o)  PROVE LockOK'
  BY <1>1 DEF Lock
<1>2. ASSUME NEW c \in Callers, Observe(c)  PROVE LockOK'
  BY <1>2 DEF Observe, Return
<1>3. ASSUME NEW c \in Callers, Cancel(c)  PROVE LockOK'
  BY <1>3 DEF Cancel
<1>4. ASSUME NEW c \in Callers, Apply(c)  PROVE LockOK'
  BY <1>4 DEF Apply
<1>11. ASSUME NEW c \in Callers, NEW r \in {"nil", "error"}, End(c, r)  PROVE LockOK'
  BY <1>11 DEF End, Finish, Return
<1>12. ASSUME NEW c \in Callers, Relay(c)  PROVE LockOK'
  <2>1. CASE HookTake(c)
    BY <2>1 DEF HookTake, HopTo
  <2>2. CASE HookOffer(c)
    BY <2>2 DEF HookOffer, Return
  <2>3. CASE HookBack(c) \/ HookDrained(c) \/ HookDone(c)
    BY <2>3 DEF HookBack, HookDrained, HookDone, HopTo
  <2>. QED  BY <1>12, <2>1, <2>2, <2>3 DEF Relay
<1>5. ASSUME NEW c \in Callers, EmitInline(c)  PROVE LockOK'
  BY <1>5 DEF EmitInline, Finish, Return
<1>6. ASSUME NEW c \in Callers, Deliver(c)  PROVE LockOK'
  BY <1>6 DEF Deliver, Return
<1>7. ASSUME NEW c \in Callers, EmitCancelled(c)  PROVE LockOK'
  BY <1>7 DEF EmitCancelled, Finish, Return
<1>8. ASSUME NEW c \in Callers, PutErr(c) \/ Close(c)  PROVE LockOK'
  BY <1>8 DEF PutErr, Close
<1>9. ASSUME NEW c \in Callers, RangeEnds(c)  PROVE LockOK'
  BY <1>9 DEF RangeEnds, Return
<1>10. CASE UNCHANGED vars
  BY <1>10 DEF vars
<1>. QED
  BY <1>1, <1>2, <1>3, <1>4, <1>5, <1>6, <1>7, <1>8, <1>9, <1>10, <1>11, <1>12
     DEF Next, Emit

LEMMA ErrorsInit == Init => ErrorsOK
BY DEF Init, ErrorsOK

LEMMA ErrorsNext ==
  ASSUME TypeOK, LockOK, ErrorsOK, [Next]_vars
  PROVE  ErrorsOK'
<1>. USE DEF TypeOK, ErrorsOK
<1>1. ASSUME NEW c \in Callers, NEW o \in Op, Lock(c, o)  PROVE ErrorsOK'
  BY <1>1 DEF Lock, LockOK
<1>2. ASSUME NEW c \in Callers, Observe(c)  PROVE ErrorsOK'
  BY <1>2 DEF Observe, Return
<1>3. ASSUME NEW c \in Callers, Cancel(c) \/ Apply(c)  PROVE ErrorsOK'
  BY <1>3 DEF Cancel, Apply, LockOK
<1>4. ASSUME NEW c \in Callers, NEW r \in {"nil", "error"}, End(c, r)  PROVE ErrorsOK'
  BY <1>4 DEF End, Finish, Return, LockOK
<1>5. ASSUME NEW c \in Callers, EmitInline(c)  PROVE ErrorsOK'
  BY <1>5 DEF EmitInline, Finish, Return, LockOK
<1>6. ASSUME NEW c \in Callers, Deliver(c)  PROVE ErrorsOK'
  BY <1>6 DEF Deliver, Return, LockOK
<1>7. ASSUME NEW c \in Callers, EmitCancelled(c)  PROVE ErrorsOK'
  BY <1>7 DEF EmitCancelled, Finish, Return, LockOK
<1>8. ASSUME NEW c \in Callers, PutErr(c) \/ Close(c)  PROVE ErrorsOK'
  BY <1>8 DEF PutErr, Close, LockOK
<1>9. ASSUME NEW c \in Callers, RangeEnds(c)  PROVE ErrorsOK'
  <2>1. closed[c] /\ run[c] = "done" /\ errs[c] = outcome[c] /\ outcome[c] # "none"
    BY <1>9 DEF RangeEnds, LockOK
  <2>. QED  BY <1>9, <2>1 DEF RangeEnds, Return
<1>10. ASSUME NEW c \in Callers, Relay(c)  PROVE ErrorsOK'
  <2>1. CASE HookTake(c)
    BY <2>1 DEF HookTake, HopTo, LockOK
  <2>2. CASE HookOffer(c)
    BY <2>2 DEF HookOffer, Return
  <2>3. CASE HookBack(c) \/ HookDrained(c) \/ HookDone(c)
    BY <2>3 DEF HookBack, HookDrained, HookDone, HopTo
  <2>. QED  BY <1>10, <2>1, <2>2, <2>3 DEF Relay
<1>11. CASE UNCHANGED vars
  BY <1>11 DEF vars
<1>. QED
  BY <1>1, <1>2, <1>3, <1>4, <1>5, <1>6, <1>7, <1>8, <1>9, <1>10, <1>11 DEF Next, Emit

LEMMA Invariant == Spec => [](TypeOK /\ LockOK /\ ErrorsOK)
<1>1. Init => TypeOK /\ LockOK /\ ErrorsOK
  BY TypeInit, LockInit, ErrorsInit
<1>2. TypeOK /\ LockOK /\ ErrorsOK /\ [Next]_vars => (TypeOK /\ LockOK /\ ErrorsOK)'
  BY TypeNext, LockNext, ErrorsNext
<1>. QED  BY <1>1, <1>2, PTL DEF Spec

\* Callers, hooks, goroutines and results stay in their sets.
THEOREM TypeCorrect == Spec => []TypeOK
BY Invariant, PTL

\* Agent.mu serializes the replies and observations of any number of callers, but
\* for the replies a failed yield has abandoned (ReplyStream, replyEventStream).
THEOREM SerializedUnlessAbandoned == Spec => []Serialized
<1>1. TypeOK /\ LockOK => Serialized
  BY DEF LockOK, Serialized, Running
<1>. QED  BY <1>1, Invariant, PTL

\* A reply that failed is not reported as a success, whichever goroutines ran it
\* and relayed its events (errs and its default case in replyEventStream).
THEOREM ErrorsAreReported == Spec => []NoLostError
<1>1. ErrorsOK => NoLostError
  BY DEF ErrorsOK, NoLostError
<1>. QED  BY <1>1, Invariant, PTL

-------------------------------------------------------------------------------
(* Limited replies are replies. *)

LEMMA LimitedStep == LimitedNext => [Next]_vars
<1>1. ASSUME NEW c \in Callers, Environment(c)  PROVE Next
  BY <1>1 DEF Environment, Next
<1>2. ASSUME NEW c \in Callers, Caller(c)  PROVE Next
  BY <1>2 DEF Caller, Next
<1>3. ASSUME NEW c \in Callers, Reply(c)  PROVE [Next]_vars
  <2>1. CASE ResumeReply(c) \/ CallModel(c)
    BY <2>1 DEF ResumeReply, CallModel
  <2>2. CASE ReturnReply(c)
    <3>1. PICK r \in {"nil", "error"} : End(c, r)
      BY <2>2 DEF ReturnReply
    <3>. QED  BY <3>1 DEF Next
  <2>3. CASE \/ StartReply(c) \/ Reason(c) \/ Answer(c) \/ Act(c) \/ Ask(c)
             \/ EndReply(c) \/ ExceedIters(c)
    <3>1. Apply(c)
      BY <2>3 DEF StartReply, Reason, Answer, Act, Ask, EndReply, ExceedIters, Send
    <3>. QED  BY <3>1 DEF Next
  <2>. QED  BY <1>3, <2>1, <2>2, <2>3 DEF Reply
<1>4. ASSUME NEW c \in Callers, Hook(c)  PROVE [Next]_vars
  <2>1. CASE Work(c)
    BY <2>1 DEF Work
  <2>2. CASE TakeEvent(c) \/ Offer(c) \/ EventsEnd(c) \/ WorkDone(c)
    <3>1. Relay(c)
      BY <2>2 DEF TakeEvent, Offer, EventsEnd, WorkDone, Relay
    <3>. QED  BY <3>1 DEF Next
  <2>. QED  BY <1>4, <2>1, <2>2 DEF Hook
<1>. QED
  BY <1>1, <1>2, <1>3, <1>4 DEF LimitedNext, Goroutine

\* The replies of an agent with a middleware that limits them are replies as
\* their callers see them: every step of the reply, of its hook and of its caller
\* is a step of ReplyStream or concerns only what the middleware keeps.
THEOREM LimitedRepliesAreReplies == LimitedSpec => Spec
<1>1. LimitedInit => Init
  BY DEF LimitedInit
<1>2. [LimitedNext]_limitedVars => [Next]_vars
  BY LimitedStep DEF limitedVars, vars
<1>. QED  BY <1>1, <1>2, PTL DEF LimitedSpec, Spec

-------------------------------------------------------------------------------
(* What the replies and the middleware keep. *)

Kinds   == {"none", "start", "pass", "called", "asked", "exceeded", "ended"}
Phases  == {"input", "top", "model", "called", "act", "answered", "over"}
Reasons == {"none", "completed", "waiting_user", "max_iterations", "budget_exceeded",
            "verifier_failed"}
Counters == [iteration : Nat, calls : Nat, reason : Reasons]

\* The work of the middleware for an event, and what can be left of it.
EventWork(kind) == IF middleware = "loop" THEN LoopWork(kind) ELSE BudgetWork(kind)

Left(kind) ==
  IF middleware = "loop" /\ kind = "ended"
    THEN {<<"offer", "verify", "offer", "stopRun">>, <<"verify", "offer", "stopRun">>,
          <<"offer", "stopRun">>, <<"stopRun">>, << >>}
    ELSE {EventWork(kind), <<"offer">>, << >>}

LimitedTypes ==
  /\ middleware \in {"none", "loop", "budget"}
  /\ middleware # "none" => hooks = "relay"
  /\ policy \in [iterations : Nat, calls : Nat]
  /\ loop \in Counters /\ lastRun \in Replies \cup {NoReply}
  /\ record \in [Replies -> Counters]
  /\ used \in [Callers -> Nat]
  /\ replyID \in Replies \cup {NoReply} /\ pending \in Replies \cup {NoReply}
  /\ phase \in [Callers -> Phases]
  /\ sending \in [Callers -> [kind : Kinds, reply : Replies \cup {NoReply}]]
  /\ barred \in [Callers -> BOOLEAN]
  /\ todo = [c \in Callers |-> todo[c]]
  /\ held \in [Callers -> Replies \cup {NoReply}]
  /\ local \in [Callers -> Reasons \ {"none"}]
  /\ started \in [Callers -> BOOLEAN]
  /\ origin \in [Callers -> Replies \cup {NoReply}]
  /\ saw \in [Callers -> SUBSET {"asked", "ended", "exceeded"}]
  /\ verdicts \in [Replies -> BOOLEAN]
  /\ made \in [Callers -> Nat] /\ spent \in [Replies -> Nat]

\* A reply is named after the call that starts it.
USE RepliesAssumption

LEMMA LimitedTypesInit == LimitedInit => LimitedTypes
<1>. SUFFICES ASSUME LimitedInit PROVE LimitedTypes
  OBVIOUS
<1>1. PICK a \in Agents :
        /\ hooks = a.hooks /\ middleware = a.middleware /\ maxIters = a.maxIters
        /\ faults = a.faults /\ LoopInit(a.policy)
  BY DEF LimitedInit
<1>2. /\ a.middleware \in {"none", "loop", "budget"} /\ a.policy \in [iterations : Nat, calls : Nat]
      /\ a.middleware # "none" => a.hooks = "relay"
  BY AgentsAssumption
<1>3. Fresh \in Counters
  BY DEF Fresh, Counters, Reasons
<1>4. used \in [Callers -> Nat]
  BY DEF LimitedInit, BudgetInit
<1>. QED
  BY <1>1, <1>2, <1>3, <1>4
     DEF LimitedInit, LimitedTypes, LoopInit, Kinds, Phases, Reasons

\* What the operations of the runtime make of the loop context.
LEMMA LoopCounts ==
  ASSUME loop \in Counters
  PROVE  /\ \A r \in Replies : StartRun(r) =>
              /\ loop' = Fresh /\ lastRun' = r /\ policy' = policy
              /\ record' = [record EXCEPT ![r] = Fresh]
         /\ BeginReasoning =>
              /\ loop'.iteration = loop.iteration + 1 /\ loop'.calls = loop.calls
              /\ loop'.reason \in {loop.reason, "budget_exceeded"}
              /\ loop'.reason # loop.reason => ExceededBy(loop')
              /\ UNCHANGED <<policy, lastRun, record>>
         /\ CountModelCall =>
              /\ loop'.iteration = loop.iteration /\ loop'.calls = loop.calls + 1
              /\ loop'.reason = loop.reason /\ UNCHANGED <<policy, lastRun, record>>
         /\ \A w \in Reasons : SetReason(w) =>
              /\ loop'.iteration = loop.iteration /\ loop'.calls = loop.calls
              /\ loop'.reason = w /\ UNCHANGED <<policy, lastRun, record>>
         /\ \A w \in Reasons \ {"none"} : StopRun(w) =>
              /\ loop'.iteration = loop.iteration /\ loop'.calls = loop.calls
              /\ loop'.reason = w /\ UNCHANGED <<policy, lastRun>>
              /\ record' = IF lastRun = NoReply THEN record ELSE [record EXCEPT ![lastRun] = loop']
         /\ \/ \E r \in Replies : StartRun(r)
            \/ BeginReasoning \/ CountModelCall \/ (\E w \in Reasons : SetReason(w))
            \/ (\E w \in Reasons \ {"none"} : StopRun(w))
            => loop' \in Counters
<1>. USE DEF Counters, Reasons
<1>1. ASSUME NEW r \in Replies, StartRun(r)
      PROVE  /\ loop' = Fresh /\ lastRun' = r /\ policy' = policy
             /\ record' = [record EXCEPT ![r] = Fresh] /\ loop' \in Counters
  BY <1>1 DEF StartRun, Fresh
<1>2. ASSUME BeginReasoning
      PROVE  /\ loop'.iteration = loop.iteration + 1 /\ loop'.calls = loop.calls
             /\ loop'.reason \in {loop.reason, "budget_exceeded"}
             /\ loop'.reason # loop.reason => ExceededBy(loop')
             /\ UNCHANGED <<policy, lastRun, record>> /\ loop' \in Counters
  <2>. DEFINE next == [loop EXCEPT !.iteration = @ + 1]
  <2>1. next.iteration = loop.iteration + 1 /\ next.calls = loop.calls /\ next.reason = loop.reason
        /\ next \in Counters
    <3>1. loop.iteration \in Nat
      OBVIOUS
    <3>. QED  BY <3>1
  <2>2. CASE ExceededBy(next)
    <3>1. loop' = [next EXCEPT !.reason = "budget_exceeded"]
            /\ UNCHANGED <<policy, lastRun, record>>
      BY <1>2, <2>2 DEF BeginReasoning
    <3>. HIDE DEF next
    <3>2. loop'.iteration = next.iteration /\ loop'.calls = next.calls
          /\ loop'.reason = "budget_exceeded" /\ loop' \in Counters
      BY <2>1, <3>1
    <3>3. ExceededBy(loop')
      BY <2>2, <3>2 DEF ExceededBy
    <3>. QED  BY <2>1, <3>1, <3>2, <3>3
  <2>3. CASE ~ExceededBy(next)
    <3>1. loop' = next /\ UNCHANGED <<policy, lastRun, record>>
      BY <1>2, <2>3 DEF BeginReasoning
    <3>. QED  BY <2>1, <3>1
  <2>. QED  BY <2>2, <2>3
<1>3. ASSUME CountModelCall
      PROVE  /\ loop'.iteration = loop.iteration /\ loop'.calls = loop.calls + 1
             /\ loop'.reason = loop.reason /\ UNCHANGED <<policy, lastRun, record>>
             /\ loop' \in Counters
  <2>1. loop.calls \in Nat
    OBVIOUS
  <2>. QED  BY <1>3, <2>1 DEF CountModelCall
<1>4. ASSUME NEW w \in Reasons, SetReason(w)
      PROVE  /\ loop'.iteration = loop.iteration /\ loop'.calls = loop.calls
             /\ loop'.reason = w /\ UNCHANGED <<policy, lastRun, record>> /\ loop' \in Counters
  BY <1>4 DEF SetReason
<1>5. ASSUME NEW w \in Reasons \ {"none"}, StopRun(w)
      PROVE  /\ loop'.iteration = loop.iteration /\ loop'.calls = loop.calls
             /\ loop'.reason = w /\ UNCHANGED <<policy, lastRun>>
             /\ record' = IF lastRun = NoReply THEN record ELSE [record EXCEPT ![lastRun] = loop']
             /\ loop' \in Counters
  BY <1>5 DEF StopRun
<1>. QED
  BY <1>1, <1>2, <1>3, <1>4, <1>5

\* The kind of middleware and of hooks stay.
LEMMA SettingsStay ==
  ASSUME [LimitedNext]_limitedVars
  PROVE  UNCHANGED <<hooks, middleware, maxIters, faults>>
<1>1. UNCHANGED hooks
  <2>1. [Next]_vars
    BY LimitedStep DEF limitedVars, vars
  <2>. QED
    BY <2>1 DEF Next, vars, Lock, Observe, Return, Cancel, Apply, End, Finish, Emit, EmitInline,
                Deliver, EmitCancelled, PutErr, Close, Relay, HookTake, HookOffer, HookBack,
                HookDrained, HookDone, HopTo, RangeEnds
<1>2. UNCHANGED settings
  BY ZenonT(60) DEF LimitedNext, limitedVars, Environment, Goroutine, Caller, Aside, Reply, Hook,
         StartReply, ResumeReply, Reason, CallModel, Answer, Act, Ask, EndReply, ExceedIters,
         ReturnReply, Send, TakeEvent, Work, Offer, EventsEnd, WorkDone
<1>. QED  BY <1>1, <1>2 DEF settings

LEMMA LimitedTypesNext ==
  ASSUME LimitedTypes, [LimitedNext]_limitedVars
  PROVE  LimitedTypes'
<1>0. UNCHANGED <<hooks, middleware, maxIters, faults>>
  BY SettingsStay
<1>. USE <1>0 DEF LimitedTypes
<1>1. ASSUME NEW c \in Callers, Environment(c) \/ Caller(c) \/ ReturnReply(c)  PROVE LimitedTypes'
  BY <1>1 DEF Environment, Caller, ReturnReply, Aside, limits, loopVars, replyVars, hookVars
<1>2. ASSUME NEW c \in Callers, StartReply(c)  PROVE LimitedTypes'
  BY <1>2 DEF StartReply, Send, limits, loopVars, hookVars, Kinds, Phases
<1>3. ASSUME NEW c \in Callers, ResumeReply(c)  PROVE LimitedTypes'
  BY <1>3 DEF ResumeReply, limits, loopVars, hookVars, Phases
<1>4. ASSUME NEW c \in Callers, Reason(c)  PROVE LimitedTypes'
  <2>1. loop' \in Counters /\ UNCHANGED <<policy, lastRun, record>>
    <3>1. CASE BeginReasoning
      BY <3>1, LoopCounts
    <3>2. CASE UNCHANGED loopVars
      BY <3>2 DEF loopVars
    <3>. QED  BY <1>4, <3>1, <3>2 DEF Reason
  <2>. QED  BY <1>4, <2>1 DEF Reason, Send, hookVars, Kinds, Phases
<1>5. ASSUME NEW c \in Callers, CallModel(c)  PROVE LimitedTypes'
  <2>1. Barred \in BOOLEAN
    BY DEF Barred, LoopExceeded, ExceededBy, BudgetExceeded
  <2>2. made' \in [Callers -> Nat] /\ barred' \in [Callers -> BOOLEAN]
    BY <1>5, <2>1 DEF CallModel
  <2>3. spent' \in [Replies -> Nat]
    <3>. DEFINE r == origin[c]
    <3>1. spent' = [spent EXCEPT ![r] = @ + 1] /\ spent \in [Replies -> Nat]
      BY <1>5 DEF CallModel
    <3>. HIDE DEF r
    <3>2. CASE r \in Replies
      BY <3>1, <3>2
    <3>3. CASE r \notin Replies
      BY <3>1, <3>3, ZenonT(60)
    <3>. QED  BY <3>2, <3>3
  <2>. QED  BY <1>5, <2>2, <2>3 DEF CallModel, limits, loopVars, hookVars, Phases
<1>6. ASSUME NEW c \in Callers, Answer(c)  PROVE LimitedTypes'
  <2>1. PICK tools \in BOOLEAN :
          /\ pending' = IF tools THEN replyID ELSE pending
          /\ UNCHANGED <<limits, replyID, curIter, origin, barred, made, spent>>
          /\ Send(c, "called", IF tools THEN "act" ELSE "answered")
    BY <1>6 DEF Answer
  <2>. QED  BY <2>1 DEF Send, limits, loopVars, hookVars, Kinds, Phases
<1>7. ASSUME NEW c \in Callers, Act(c) \/ Ask(c) \/ EndReply(c) \/ ExceedIters(c)
      PROVE  LimitedTypes'
  <2>1. CASE Act(c)
    BY <2>1 DEF Act, Send, limits, loopVars, hookVars, Kinds, Phases
  <2>2. CASE Ask(c)
    BY <2>2 DEF Ask, Send, limits, loopVars, hookVars, Kinds, Phases
  <2>3. CASE EndReply(c)
    BY <2>3 DEF EndReply, Send, limits, loopVars, hookVars, Kinds, Phases
  <2>4. CASE ExceedIters(c)
    BY <2>4 DEF ExceedIters, Send, limits, loopVars, hookVars, Kinds, Phases
  <2>. QED  BY <1>7, <2>1, <2>2, <2>3, <2>4
<1>8. ASSUME NEW c \in Callers, TakeEvent(c)  PROVE LimitedTypes'
  BY <1>8 DEF TakeEvent, limits, loopVars, replyVars
<1>9. ASSUME NEW c \in Callers, Work(c)  PROVE LimitedTypes'
  <2>. DEFINE w == Head(todo[c])
  <2>0. UNCHANGED <<replyVars, held>> /\ todo' = [d \in Callers |-> todo'[d]]
    <3>1. todo' = [todo EXCEPT ![c] = Tail(@)]
      BY <1>9 DEF Work
    <3>. QED  BY <1>9, <3>1 DEF Work
  <2>1. CASE w = "startRun" /\ StartRun(held[c]) /\ started' = [started EXCEPT ![c] = TRUE]
             /\ UNCHANGED <<used, local, verdicts>>
    <3>1. Fresh \in Counters
      BY DEF Fresh, Counters, Reasons
    <3>2. loop' = Fresh /\ lastRun' = held[c] /\ UNCHANGED policy
          /\ record' = [record EXCEPT ![held[c]] = Fresh]
      BY <2>1 DEF StartRun
    <3>. QED  BY <2>0, <2>1, <3>1, <3>2 DEF replyVars
  <2>2. CASE w = "count" /\ CountModelCall /\ UNCHANGED <<used, local, started, verdicts>>
    <3>1. loop' \in Counters /\ UNCHANGED <<policy, lastRun, record>>
      BY <2>2, LoopCounts
    <3>. QED  BY <2>0, <2>2, <3>1 DEF replyVars
  <2>3. CASE w \in {"waiting_user", "max_iterations"} /\ SetReason(w)
             /\ local' = [local EXCEPT ![c] = w] /\ UNCHANGED <<used, started, verdicts>>
    <3>1. w \in Reasons \ {"none"}
      BY <2>3 DEF Reasons
    <3>2. loop' \in Counters /\ UNCHANGED <<policy, lastRun, record>>
      BY <2>3, <3>1, LoopCounts
    <3>. QED  BY <2>0, <2>3, <3>1, <3>2 DEF replyVars
  <2>4. ASSUME NEW passed \in BOOLEAN, RecordVerification(passed),
               local' = [local EXCEPT ![c] = IF AfterVerification(passed) = "none" THEN @
                                             ELSE AfterVerification(passed)],
               verdicts' = [verdicts EXCEPT ![held[c]] = passed], UNCHANGED <<used, started>>
        PROVE  LimitedTypes'
    <3>1. AfterVerification(passed) \in Reasons
      BY DEF AfterVerification, Counters, Reasons
    <3>2. loop' \in Counters /\ UNCHANGED <<policy, lastRun, record>>
      BY <2>4, <3>1, LoopCounts DEF RecordVerification
    <3>3. local' \in [Callers -> Reasons \ {"none"}]
      BY <2>4, <3>1
    <3>. QED  BY <2>0, <2>4, <3>2, <3>3 DEF replyVars
  <2>5. CASE w = "stopRun" /\ StopRun(local[c]) /\ started' = [started EXCEPT ![c] = FALSE]
             /\ UNCHANGED <<used, local, verdicts>>
    <3>1. /\ loop' \in Counters /\ UNCHANGED <<policy, lastRun>>
          /\ record' = IF lastRun = NoReply THEN record ELSE [record EXCEPT ![lastRun] = loop']
      BY <2>5, LoopCounts
    <3>. QED  BY <2>0, <2>5, <3>1 DEF replyVars
  <2>6. CASE (ClearReply(held[c]) \/ AddUsage(held[c]))
             /\ UNCHANGED <<loopVars, local, started, verdicts>>
    <3>1. used' \in [Callers -> Nat]
      BY <2>6 DEF ClearReply, AddUsage
    <3>. QED  BY <2>0, <2>6, <3>1 DEF loopVars, replyVars
  <2>. QED  BY <1>9, <2>1, <2>2, <2>3, <2>4, <2>5, <2>6 DEF Work
<1>10. ASSUME NEW c \in Callers, Offer(c) \/ EventsEnd(c) \/ WorkDone(c)  PROVE LimitedTypes'
  BY <1>10, ZenonT(60) DEF Offer, EventsEnd, WorkDone, limits, loopVars, replyVars, hookVars
<1>11. CASE UNCHANGED limitedVars
  BY <1>11 DEF limitedVars, limits, loopVars, replyVars, hookVars
<1>. QED
  BY <1>1, <1>2, <1>3, <1>4, <1>5, <1>6, <1>7, <1>8, <1>9, <1>10, <1>11
     DEF LimitedNext, Goroutine, Reply, Hook

-------------------------------------------------------------------------------
(* One reply at a time, with the hook that watches it. *)

\* The agent has a middleware, and the yields of its callers succeed.
Calm == middleware # "none" /\ "yield" \notin faults

\* c is in a reply: it has started or resumed one and has not returned.
Live(c) == pc[c] = "range" /\ phase[c] # "input"

\* A reply and its hook run while their caller waits for the events.
AloneOK ==
  Calm =>
    \A c \in Callers :
      /\ pc[c] # "inline"
      /\ run[c] \notin {"none", "done"} \/ hop[c] \in {"wait", "hold", "last"} => pc[c] = "range"
      /\ run[c] \in {"none", "step", "send"} => outcome[c] = "none"
      /\ pc[c] \in {"idle", "observe"} => run[c] = "none" /\ hop[c] = "off"
      /\ pc[c] = "range" => hop[c] # "off" /\ run[c] # "none" /\ op[c] # "Observe"
      /\ phase[c] # "input" => pc[c] \in {"range", "returned"} /\ op[c] # "Observe"
      /\ pc[c] = "returned" => \/ run[c] = "none" /\ hop[c] = "off"
                               \/ run[c] = "done" /\ hop[c] = "done"

LEMMA AloneInit == LimitedInit => AloneOK
<1>. SUFFICES ASSUME LimitedInit PROVE AloneOK
  OBVIOUS
<1>1. /\ pc = [c \in Callers |-> "idle"] /\ run = [c \in Callers |-> "none"]
      /\ outcome = [c \in Callers |-> "none"]
      /\ hop = [c \in Callers |-> "off"] /\ phase = [c \in Callers |-> "input"]
  BY DEF LimitedInit, Init
<1>. QED  BY <1>1 DEF AloneOK

LEMMA AloneNext ==
  ASSUME TypeOK, LockOK, LimitedTypes, AloneOK, [LimitedNext]_limitedVars
  PROVE  AloneOK'
<1>. SUFFICES ASSUME Calm' PROVE AloneOK'
  BY DEF AloneOK
<1>0. Calm /\ hooks = "relay" /\ UNCHANGED <<hooks, middleware, maxIters, faults>>
  BY SettingsStay DEF Calm, LimitedTypes
<1>. USE <1>0 DEF AloneOK, TypeOK, LimitedTypes
<1>1. ASSUME NEW c \in Callers, NEW o \in Op, Lock(c, o), Aside  PROVE AloneOK'
  BY <1>1 DEF Lock, Aside, replyVars
<1>2. ASSUME NEW c \in Callers, Observe(c) \/ Cancel(c), Aside  PROVE AloneOK'
  BY <1>2 DEF Observe, Cancel, Return, Aside, replyVars
<1>3. ASSUME NEW c \in Callers, RangeEnds(c), Aside  PROVE AloneOK'
  BY <1>3 DEF RangeEnds, Return, Aside, replyVars, LockOK
<1>4. ASSUME NEW c \in Callers, Emit(c), Aside  PROVE AloneOK'
  <2>1. EmitCancelled(c) \/ PutErr(c) \/ Close(c)
    BY <1>4 DEF Emit, EmitInline, Deliver
  <2>. QED  BY <1>4, <2>1 DEF EmitCancelled, Finish, PutErr, Close, Aside, replyVars
<1>5. ASSUME NEW c \in Callers, ReturnReply(c)  PROVE AloneOK'
  BY <1>5 DEF ReturnReply, End, Finish, replyVars
<1>6. ASSUME NEW c \in Callers,
             Apply(c) \/ (run[c] \in {"step", "send"} /\ UNCHANGED vars),
             NEW p, phase' = [phase EXCEPT ![c] = p]
      PROVE  AloneOK'
  BY <1>6 DEF Apply, vars
<1>7. ASSUME NEW c \in Callers, Hook(c)  PROVE AloneOK'
  <2>1. CASE TakeEvent(c)
    BY <2>1 DEF TakeEvent, HookTake, HopTo, replyVars
  <2>2. CASE Offer(c)
    BY <2>2, SMTT(60) DEF Offer, HookOffer, Return, Calm, replyVars
  <2>3. CASE EventsEnd(c)
    BY <2>3 DEF EventsEnd, HookDrained, HopTo, replyVars, LockOK
  <2>5. CASE WorkDone(c)
    BY <2>5, SMTT(60) DEF WorkDone, HookBack, HookDone, HopTo, replyVars, LockOK
  <2>4. CASE Work(c)
    BY <2>4 DEF Work, vars, replyVars
  <2>. QED  BY <1>7, <2>1, <2>2, <2>3, <2>4, <2>5 DEF Hook
<1>8. CASE UNCHANGED limitedVars
  BY <1>8 DEF limitedVars, vars, replyVars
<1>9. ASSUME NEW c \in Callers, Reply(c)  PROVE AloneOK'
  <2>1. CASE StartReply(c)
    BY <2>1, <1>6 DEF StartReply, Send
  <2>2. CASE ResumeReply(c)
    BY <2>2, <1>6 DEF ResumeReply
  <2>3. CASE Reason(c)
    BY <2>3, <1>6 DEF Reason, Send
  <2>4. CASE CallModel(c)
    BY <2>4, <1>6 DEF CallModel
  <2>5. CASE Answer(c)
    <3>1. Apply(c) /\ \E p \in {"act", "answered"} : phase' = [phase EXCEPT ![c] = p]
      BY <2>5 DEF Answer, Send
    <3>. QED  BY <3>1, <1>6, ZenonT(60)
  <2>6. CASE Act(c) \/ Ask(c) \/ EndReply(c) \/ ExceedIters(c)
    BY <2>6, <1>6, SMTT(60) DEF Act, Ask, EndReply, ExceedIters, Send
  <2>. QED  BY <1>9, <1>5, <2>1, <2>2, <2>3, <2>4, <2>5, <2>6 DEF Reply
<1>. QED
  BY <1>1, <1>2, <1>3, <1>4, <1>7, <1>8, <1>9
     DEF LimitedNext, Goroutine, Environment, Caller

\* No two replies are live.
LEMMA OneInRange == LockOK => \A c, d \in Callers : pc[c] = "range" /\ pc[d] = "range" => c = d
BY DEF LockOK

\* The reply and the hook of a call that is not in range do not move.
LEMMA MovesInRange ==
  ASSUME AloneOK, Calm, NEW c \in Callers,
         run[c] \in {"step", "send", "errs", "close"} \/ hop[c] \in {"wait", "hold", "last"}
  PROVE  pc[c] = "range"
BY DEF AloneOK

\* A live call is of the current reply, which a call of that name has started, and
\* its events and the event its hook has in hand name that reply.
IdsOK ==
  Calm =>
    /\ pending \in {NoReply, replyID}
    /\ replyID # NoReply => origin[replyID] = replyID
    /\ \A c \in Callers :
         /\ phase[c] = "input" <=> origin[c] = NoReply
         /\ origin[c] # NoReply => origin[origin[c]] = origin[c]
         /\ sending[c].kind = "start" => origin[c] = c
         /\ run[c] = "send" => sending[c].kind # "none"
         /\ sending[c].kind # "none" \/ hop[c] = "hold" => phase[c] # "input"
         /\ Live(c) => /\ origin[c] = replyID
                       /\ sending[c].kind # "none" => sending[c].reply = replyID
                       /\ hop[c] = "hold" => held[c] = replyID

LEMMA IdsInit == LimitedInit => IdsOK
<1>. SUFFICES ASSUME LimitedInit PROVE IdsOK
  OBVIOUS
<1>1. /\ pc = [c \in Callers |-> "idle"] /\ run = [c \in Callers |-> "none"]
      /\ hop = [c \in Callers |-> "off"]
      /\ phase = [c \in Callers |-> "input"] /\ origin = [c \in Callers |-> NoReply]
      /\ sending = [c \in Callers |-> [kind |-> "none", reply |-> NoReply]]
      /\ pending = NoReply /\ replyID = NoReply
  BY DEF LimitedInit, Init
<1>. QED  BY <1>1 DEF IdsOK, Live

LEMMA IdsNext ==
  ASSUME TypeOK, LockOK, LimitedTypes, AloneOK, IdsOK, [LimitedNext]_limitedVars
  PROVE  IdsOK'
<1>. SUFFICES ASSUME Calm' PROVE IdsOK'
  BY DEF IdsOK
<1>0. Calm /\ hooks = "relay" /\ UNCHANGED <<hooks, middleware, maxIters, faults>>
  BY SettingsStay DEF Calm, LimitedTypes
<1>a. \A c, d \in Callers : pc[c] = "range" /\ pc[d] = "range" => c = d
  BY OneInRange
<1>. USE <1>0, NoReplyAssumption DEF IdsOK, TypeOK, LimitedTypes, Live
<1>1. ASSUME NEW c \in Callers, Environment(c)  PROVE IdsOK'
  <2>1. CASE \E o \in Op : Lock(c, o) /\ Aside
    BY <2>1 DEF Lock, Aside, replyVars, hookVars, AloneOK
  <2>2. CASE Cancel(c) /\ Aside
    BY <2>2 DEF Cancel, Aside, replyVars, hookVars
  <2>. QED  BY <1>1, <2>1, <2>2 DEF Environment
<1>2. ASSUME NEW c \in Callers, Caller(c)  PROVE IdsOK'
  <2>1. CASE (Observe(c) \/ RangeEnds(c)) /\ Aside
    BY <2>1 DEF Observe, RangeEnds, Return, Aside, replyVars, hookVars
  <2>2. CASE Emit(c) /\ Aside
    <3>1. EmitCancelled(c) \/ PutErr(c) \/ Close(c)
      BY <2>2 DEF Emit, EmitInline, Deliver, AloneOK
    <3>. QED  BY <2>2, <3>1 DEF EmitCancelled, Finish, PutErr, Close, Aside, replyVars, hookVars,
                 AloneOK
  <2>. QED  BY <1>2, <2>1, <2>2 DEF Caller
<1>3. ASSUME NEW c \in Callers, StartReply(c)  PROVE IdsOK'
  <2>1. pc[c] = "range" /\ hop[c] # "hold"
    BY <1>3, MovesInRange DEF StartReply, Send, Apply
  <2>. QED  BY <1>3, <1>a, <2>1 DEF StartReply, Send, Apply, hookVars
<1>4. ASSUME NEW c \in Callers, ResumeReply(c)  PROVE IdsOK'
  BY <1>4, <1>a, MovesInRange DEF ResumeReply, vars, hookVars
<1>5. ASSUME NEW c \in Callers, NEW kind \in Kinds \ {"none", "start"},
             NEW p \in Phases \ {"input"}, Send(c, kind, p), phase[c] # "input",
             pending' \in {pending, replyID, NoReply}, UNCHANGED <<replyID, origin>>
      PROVE  IdsOK'
  BY <1>5, <1>a, MovesInRange DEF Send, Apply, hookVars
<1>6. ASSUME NEW c \in Callers, CallModel(c)  PROVE IdsOK'
  BY <1>6 DEF CallModel, vars, hookVars
<1>7. ASSUME NEW c \in Callers, ReturnReply(c)  PROVE IdsOK'
  BY <1>7 DEF ReturnReply, End, Finish, AloneOK, replyVars, hookVars
<1>8. ASSUME NEW c \in Callers, Reply(c)  PROVE IdsOK'
  <2>1. CASE Reason(c)
    BY <2>1, <1>5 DEF Reason, Kinds, Phases
  <2>2. CASE Answer(c)
    <3>1. PICK tools \in BOOLEAN :
            /\ pending' = IF tools THEN replyID ELSE pending
            /\ UNCHANGED <<limits, replyID, curIter, origin, barred, made, spent>>
            /\ Send(c, "called", IF tools THEN "act" ELSE "answered")
      BY <2>2 DEF Answer
    <3>. QED  BY <2>2, <3>1, <1>5 DEF Answer, Kinds, Phases
  <2>3. CASE Act(c)
    BY <2>3, <1>5 DEF Act, Acting, Kinds, Phases
  <2>4. CASE Ask(c)
    BY <2>4, <1>5 DEF Ask, Acting, Kinds, Phases
  <2>5. CASE EndReply(c)
    BY <2>5, <1>5 DEF EndReply, Kinds, Phases
  <2>6. CASE ExceedIters(c)
    BY <2>6, <1>5 DEF ExceedIters, Kinds, Phases
  <2>. QED  BY <1>8, <1>3, <1>4, <1>6, <1>7, <2>1, <2>2, <2>3, <2>4, <2>5, <2>6 DEF Reply
<1>9. ASSUME NEW c \in Callers, Hook(c)  PROVE IdsOK'
  <2>1. CASE TakeEvent(c)
    <3>1. pc[c] = "range" /\ sending[c].kind # "none"
            /\ held' = [held EXCEPT ![c] = sending[c].reply]
      BY <2>1, MovesInRange DEF TakeEvent, HookTake, HopTo
    <3>. QED  BY <2>1, <3>1 DEF TakeEvent, HookTake, HopTo, replyVars
  <2>2. CASE Offer(c)
    BY <2>2 DEF Offer, HookOffer, Calm, replyVars
  <2>3. CASE EventsEnd(c)
    BY <2>3 DEF EventsEnd, HookDrained, HopTo, replyVars
  <2>4. CASE WorkDone(c)
    BY <2>4, SMTT(60) DEF WorkDone, HookBack, HookDone, HopTo, replyVars, hookVars
  <2>5. CASE Work(c)
    BY <2>5 DEF Work, vars, replyVars
  <2>. QED  BY <1>9, <2>1, <2>2, <2>3, <2>4, <2>5 DEF Hook
<1>10. CASE UNCHANGED limitedVars
  BY <1>10 DEF limitedVars, vars, replyVars, hookVars
<1>. QED
  BY <1>1, <1>2, <1>8, <1>9, <1>10 DEF LimitedNext, Goroutine

-------------------------------------------------------------------------------
(* The work of the hook. *)

\* The hook of c is about to do w.
Doing(c, w) == todo[c] # << >> /\ Head(todo[c]) = w

\* The words that are no sends, and the kind of event each is done for.
WordFor(w, kind) ==
  \/ kind = "start" /\ w = IF middleware = "loop" THEN "startRun" ELSE "clear"
  \/ kind = "called" /\ w = IF middleware = "loop" THEN "count" ELSE "add"
  \/ kind = "asked" /\ middleware = "loop" /\ w = "waiting_user"
  \/ kind = "exceeded" /\ middleware = "loop" /\ w = "max_iterations"
  \/ kind = "ended" /\ w \in IF middleware = "loop" THEN {"verify", "stopRun"} ELSE {"clear"}

LEMMA Tails ==
  /\ \A a : <<a>> # << >> /\ Head(<<a>>) = a /\ Tail(<<a>>) = << >>
  /\ \A a, b : <<a, b>> # << >> /\ Head(<<a, b>>) = a /\ Tail(<<a, b>>) = <<b>>
  /\ \A a, b, c : <<a, b, c>> # << >> /\ Head(<<a, b, c>>) = a /\ Tail(<<a, b, c>>) = <<b, c>>
  /\ \A a, b, c, d : /\ <<a, b, c, d>> # << >> /\ Head(<<a, b, c, d>>) = a
                     /\ Tail(<<a, b, c, d>>) = <<b, c, d>>
OBVIOUS

\* What the hook does first with an event.
LEMMA FirstWords ==
  ASSUME middleware \in {"loop", "budget"}, NEW kind \in Kinds
  PROVE  /\ EventWork(kind) # << >>
         /\ middleware = "loop" => Head(EventWork(kind)) =
              CASE kind = "start"    -> "startRun"
                [] kind = "called"   -> "count"
                [] kind = "asked"    -> "waiting_user"
                [] kind = "exceeded" -> "max_iterations"
                [] OTHER             -> "offer"
         /\ middleware = "budget" => Head(EventWork(kind)) =
              CASE kind \in {"start", "ended"} -> "clear"
                [] kind = "called"             -> "add"
                [] OTHER                       -> "offer"
BY Tails DEF EventWork, LoopWork, BudgetWork, Kinds

\* What is left of the work for an event when its next word is done: it is a send,
\* or the verification and the end of the run.
LEMMA LeftNext ==
  ASSUME middleware \in {"loop", "budget"}, NEW kind \in Kinds, NEW s \in Left(kind), s # << >>
  PROVE  /\ Tail(s) \in Left(kind)
         /\ Head(s) = "offer" \/ WordFor(Head(s), kind)
         /\ Head(s) # "offer" /\ kind # "ended" => Tail(s) = <<"offer">>
         /\ Head(s) = "offer" /\ kind # "ended" => Tail(s) = << >>
         /\ Head(s) = "verify" => Tail(s) = <<"offer", "stopRun">>
         /\ Head(s) = "stopRun" => Tail(s) = << >>
         /\ Tail(s) # << >> /\ Head(Tail(s)) # "offer" =>
              Head(s) = "offer" /\ Head(Tail(s)) \in {"verify", "stopRun"}
<1>1. CASE middleware = "loop" /\ kind = "ended"
  <2>. USE <1>1, Tails DEF Left, WordFor
  <2>1. CASE s = <<"offer", "verify", "offer", "stopRun">>
    BY <2>1
  <2>2. CASE s = <<"verify", "offer", "stopRun">>
    BY <2>2
  <2>3. CASE s = <<"offer", "stopRun">>
    BY <2>3
  <2>4. CASE s = <<"stopRun">>
    BY <2>4
  <2>. QED  BY <2>1, <2>2, <2>3, <2>4
<1>2. CASE ~(middleware = "loop" /\ kind = "ended")
  <2>1. s \in {EventWork(kind), <<"offer">>}
    BY <1>2 DEF Left
  <2>2. \/ EventWork(kind) = <<"offer">>
        \/ \E w : WordFor(w, kind) /\ w \notin {"offer", "verify", "stopRun"}
                    /\ EventWork(kind) = <<w, "offer">>
    BY <1>2 DEF EventWork, LoopWork, BudgetWork, Kinds, WordFor
  <2>3. CASE s = <<"offer">>
    BY <1>2, <2>3, Tails DEF Left
  <2>4. ASSUME NEW w, WordFor(w, kind), w \notin {"offer", "verify", "stopRun"}, s = <<w, "offer">>
        PROVE  /\ Tail(s) = <<"offer">> /\ Head(s) = w /\ Tail(s) # << >> /\ Head(Tail(s)) = "offer"
               /\ <<"offer">> \in Left(kind)
    BY <1>2, <2>4, Tails DEF Left
  <2>5. kind = "ended" => middleware = "budget"
    BY <1>2
  <2>. QED  BY <2>1, <2>2, <2>3, <2>4, <2>5, Tails, ZenonT(60) DEF WordFor
<1>. QED  BY <1>1, <1>2

LEMMA LeftEnds ==
  ASSUME middleware \in {"loop", "budget"}, NEW kind \in Kinds
  PROVE  EventWork(kind) \in Left(kind) /\ << >> \in Left(kind)
<1>1. CASE middleware = "loop" /\ kind = "ended"
  BY <1>1 DEF EventWork, LoopWork, Left
<1>2. CASE ~(middleware = "loop" /\ kind = "ended")
  BY <1>2 DEF Left
<1>. QED  BY <1>1, <1>2

LEMMA Words ==
  ASSUME middleware \in {"loop", "budget"}, NEW kind \in Kinds
  PROVE  /\ WordFor("startRun", kind) => kind = "start" /\ middleware = "loop"
         /\ WordFor("count", kind) => kind = "called" /\ middleware = "loop"
         /\ WordFor("waiting_user", kind) => kind = "asked" /\ middleware = "loop"
         /\ WordFor("max_iterations", kind) => kind = "exceeded" /\ middleware = "loop"
         /\ WordFor("verify", kind) \/ WordFor("stopRun", kind) =>
              kind = "ended" /\ middleware = "loop"
         /\ WordFor("clear", kind) => kind \in {"start", "ended"} /\ middleware = "budget"
         /\ WordFor("add", kind) => kind = "called" /\ middleware = "budget"
BY DEF WordFor

\* The words that an event's work can go on with.
LEMMA LeftWords ==
  ASSUME middleware \in {"loop", "budget"}, NEW kind \in Kinds, NEW s \in Left(kind), s # << >>
  PROVE  /\ Head(s) = "startRun" => kind = "start" /\ middleware = "loop"
         /\ Head(s) = "count" => kind = "called" /\ middleware = "loop"
         /\ Head(s) = "waiting_user" => kind = "asked" /\ middleware = "loop"
         /\ Head(s) = "max_iterations" => kind = "exceeded" /\ middleware = "loop"
         /\ Head(s) \in {"verify", "stopRun"} => kind = "ended" /\ middleware = "loop"
         /\ Head(s) = "clear" => kind \in {"start", "ended"} /\ middleware = "budget"
         /\ Head(s) = "add" => kind = "called" /\ middleware = "budget"
BY LeftNext, Words

\* The hook has work while it holds an event, and at the end what stops the run of
\* a reply that its call has started.
WorkOK ==
  Calm =>
    \A c \in Callers :
      /\ \E kind \in Kinds : todo[c] \in Left(kind)
      /\ hop[c] \in {"off", "wait", "done"} => todo[c] = << >>
      /\ hop[c] = "last" => todo[c] \in {<<"stopRun">>, << >>}
      /\ hop[c] = "last" /\ started[c] => todo[c] = <<"stopRun">>
      /\ hop[c] = "done" => ~started[c]
      /\ started[c] => middleware = "loop" /\ origin[c] = c
      /\ Doing(c, "startRun") => origin[c] = c

LEMMA WorkInit == LimitedInit => WorkOK
<1>. SUFFICES ASSUME LimitedInit PROVE WorkOK
  OBVIOUS
<1>1. /\ todo = [c \in Callers |-> << >>] /\ started = [c \in Callers |-> FALSE]
      /\ hop = [c \in Callers |-> "off"]
  BY DEF LimitedInit, Init
<1>2. Calm => << >> \in Left("none") /\ "none" \in Kinds
  BY LimitedTypesInit, LeftEnds DEF Calm, Kinds, LimitedTypes
<1>. QED  BY <1>1, <1>2 DEF WorkOK, Doing

LEMMA WorkNext ==
  ASSUME TypeOK, LockOK, LimitedTypes, AloneOK, IdsOK, WorkOK, [LimitedNext]_limitedVars
  PROVE  WorkOK'
<1>. SUFFICES ASSUME Calm' PROVE WorkOK'
  BY DEF WorkOK
<1>0. /\ Calm /\ hooks = "relay" /\ UNCHANGED <<hooks, middleware, maxIters, faults>>
      /\ middleware \in {"loop", "budget"}
  BY SettingsStay DEF Calm, LimitedTypes
<1>b. \A kind : Left(kind)' = Left(kind)
  BY <1>0 DEF Left, EventWork, LoopWork, BudgetWork
<1>. USE <1>0, <1>b DEF WorkOK, TypeOK, LimitedTypes, Doing
<1>1. ASSUME NEW c \in Callers, Environment(c)  PROVE WorkOK'
  <2>1. CASE \E o \in Op : Lock(c, o) /\ Aside
    BY <2>1 DEF Lock, Aside, replyVars, hookVars, AloneOK
  <2>2. CASE Cancel(c) /\ Aside
    BY <2>2 DEF Cancel, Aside, replyVars, hookVars
  <2>. QED  BY <1>1, <2>1, <2>2 DEF Environment
<1>2. ASSUME NEW c \in Callers, Caller(c)  PROVE WorkOK'
  <2>1. CASE (Observe(c) \/ RangeEnds(c)) /\ Aside
    BY <2>1 DEF Observe, RangeEnds, Return, Aside, replyVars, hookVars
  <2>2. CASE Emit(c) /\ Aside
    <3>1. EmitCancelled(c) \/ PutErr(c) \/ Close(c)
      BY <2>2 DEF Emit, EmitInline, Deliver, AloneOK
    <3>. QED  BY <2>2, <3>1, ZenonT(60) DEF EmitCancelled, Finish, PutErr, Close, Aside, replyVars,
                 hookVars, AloneOK
  <2>. QED  BY <1>2, <2>1, <2>2 DEF Caller
<1>3. ASSUME NEW c \in Callers, Reply(c)  PROVE WorkOK'
  <2>1. /\ UNCHANGED <<hop, todo, started>>
        /\ \A d \in Callers : origin'[d] = origin[d] \/ phase[d] = "input"
    BY <1>3, ZenonT(60) DEF Reply, StartReply, ResumeReply, Reason, CallModel, Answer, Act, Ask,
                EndReply, ExceedIters, ReturnReply, Send, Apply, End, Finish, vars, replyVars,
                hookVars
  <2>2. \A d \in Callers : phase[d] = "input" => origin[d] # d
    BY NoReplyAssumption DEF IdsOK
  <2>. QED  BY <2>1, <2>2
<1>4. ASSUME NEW c \in Callers, TakeEvent(c)  PROVE WorkOK'
  <2>. DEFINE k == sending[c].kind
  <2>1. k \in Kinds /\ todo' = [todo EXCEPT ![c] = EventWork(k)]
    BY <1>4 DEF TakeEvent, EventWork
  <2>2. EventWork(k) \in Left(k)
    BY <2>1, LeftEnds
  <2>3. k = "start" => origin[c] = c
    BY DEF IdsOK
  <2>4. EventWork(k) # << >> /\ Head(EventWork(k)) = "startRun" => k = "start"
    BY <2>1, <2>2, LeftWords
  <2>. HIDE DEF k
  <2>5. hop' = [hop EXCEPT ![c] = "hold"] /\ UNCHANGED <<started, origin>>
    BY <1>4 DEF TakeEvent, HookTake, HopTo, replyVars
  <2>. QED  BY <2>1, <2>2, <2>3, <2>4, <2>5
<1>5. ASSUME NEW c \in Callers, todo[c] # << >>, todo' = [todo EXCEPT ![c] = Tail(@)],
             \/ started' = started
             \/ Head(todo[c]) = "startRun" /\ started' = [started EXCEPT ![c] = TRUE]
             \/ Head(todo[c]) = "stopRun" /\ started' = [started EXCEPT ![c] = FALSE],
             Head(todo[c]) = "stopRun" => started' = [started EXCEPT ![c] = FALSE],
             UNCHANGED <<hop, origin>>
      PROVE  WorkOK'
  <2>1. PICK kind \in Kinds : todo[c] \in Left(kind)
    OBVIOUS
  <2>2. /\ Tail(todo[c]) \in Left(kind)
        /\ Tail(todo[c]) # << >> => Head(Tail(todo[c])) # "startRun"
        /\ Head(todo[c]) = "stopRun" => Tail(todo[c]) = << >>
        /\ Head(todo[c]) = "startRun" => middleware = "loop"
    <3>. HIDE DEF WorkOK, TypeOK, LimitedTypes, Doing
    <3>. QED  BY <1>5, <2>1, LeftNext, LeftWords
  <2>3. hop[c] = "last" => Head(todo[c]) = "stopRun"
    BY <1>5, Tails
  <2>4. hop[c] \notin {"off", "wait", "done"}
    BY <1>5
  <2>5. Head(todo[c]) = "startRun" => origin[c] = c
    BY <1>5
  <2>6. /\ todo'[c] = Tail(todo[c])
        /\ \A d \in Callers \ {c} : todo'[d] = todo[d] /\ started'[d] = started[d]
    BY <1>5
  <2>7. started'[c] => started[c] \/ Head(todo[c]) = "startRun"
    BY <1>5
  <2>8. hop[c] = "last" => Tail(todo[c]) = << >> /\ ~started'[c]
    BY <1>5, <2>2, <2>3
  <2>9. ASSUME NEW d \in Callers
        PROVE  /\ \E knd \in Kinds : todo'[d] \in Left(knd)
               /\ hop[d] \in {"off", "wait", "done"} => todo'[d] = << >>
               /\ hop[d] = "last" => todo'[d] \in {<<"stopRun">>, << >>}
               /\ hop[d] = "last" /\ started'[d] => todo'[d] = <<"stopRun">>
               /\ hop[d] = "done" => ~started'[d]
               /\ started'[d] => middleware = "loop" /\ origin[d] = d
               /\ todo'[d] # << >> /\ Head(todo'[d]) = "startRun" => origin[d] = d
    <3>1. CASE d = c
      BY <2>1, <2>2, <2>4, <2>5, <2>6, <2>7, <2>8, <3>1, ZenonT(60)
    <3>2. CASE d # c
      BY <2>6, <3>2
    <3>. QED  BY <3>1, <3>2
  <2>. QED  BY <1>5, <2>9
<1>6. ASSUME NEW c \in Callers, Work(c)  PROVE WorkOK'
  <2>1. UNCHANGED <<hop, origin>>
    BY <1>6 DEF Work, vars, replyVars
  <2>2. /\ todo[c] # << >> /\ todo' = [todo EXCEPT ![c] = Tail(@)]
        /\ \/ started' = started /\ Head(todo[c]) # "stopRun"
           \/ Head(todo[c]) = "startRun" /\ started' = [started EXCEPT ![c] = TRUE]
           \/ Head(todo[c]) = "stopRun" /\ started' = [started EXCEPT ![c] = FALSE]
    BY <1>6 DEF Work
  <2>. QED  BY <2>1, <2>2, <1>5
<1>7. ASSUME NEW c \in Callers, Offer(c)  PROVE WorkOK'
  BY <1>7, <1>5 DEF Offer, HookOffer, replyVars
<1>8. ASSUME NEW c \in Callers, EventsEnd(c)  PROVE WorkOK'
  <2>1. <<"stopRun">> \in Left("ended") \/ ~started[c]
    BY DEF Left
  <2>2. << >> \in Left("none") /\ {"none", "ended"} \subseteq Kinds
    BY LeftEnds DEF Kinds
  <2>3. <<"stopRun">> # << >> /\ Head(<<"stopRun">>) = "stopRun"
    BY Tails
  <2>. QED  BY <1>8, <2>1, <2>2, <2>3 DEF EventsEnd, HookDrained, HopTo, replyVars
<1>9. ASSUME NEW c \in Callers, WorkDone(c)  PROVE WorkOK'
  <2>1. <<"stopRun">> # << >>
    BY Tails
  <2>2. hop[c] = "last" => ~started[c]
    BY <1>9, <2>1 DEF WorkDone
  <2>3. CASE HookBack(c)
    BY <1>9, <2>3 DEF WorkDone, HookBack, HopTo, replyVars, hookVars
  <2>4. CASE HookDone(c)
    BY <1>9, <2>2, <2>4 DEF WorkDone, HookDone, HopTo, replyVars, hookVars
  <2>. QED  BY <1>9, <2>3, <2>4 DEF WorkDone
<1>10. CASE UNCHANGED limitedVars
  BY <1>10 DEF limitedVars, vars, replyVars, hookVars
<1>. QED
  BY <1>1, <1>2, <1>3, <1>4, <1>6, <1>7, <1>8, <1>9, <1>10 DEF LimitedNext, Goroutine, Hook

-------------------------------------------------------------------------------
(* What the steps of one call leave alone. *)

Unmoved(d) ==
  UNCHANGED <<pc[d], run[d], hop[d], outcome[d], phase[d], sending[d], todo[d], held[d], local[d],
              started[d], origin[d], saw[d], made[d]>>

\* A step of the reply of c is one of the only live call, of which it moves neither
\* the hook nor its work.
LEMMA ReplyFrame ==
  ASSUME TypeOK, LockOK, LimitedTypes, AloneOK, Calm, NEW c \in Callers, Reply(c)
  PROVE  /\ pc[c] = "range" /\ run[c] \in {"step", "send"} /\ UNCHANGED <<hop, hookVars>>
         /\ \A d \in Callers \ {c} : pc[d] # "range" /\ Unmoved(d)
         /\ UNCHANGED pc
<1>1. pc[c] = "range" /\ run[c] \in {"step", "send"}
  BY MovesInRange DEF Reply, StartReply, ResumeReply, Reason, CallModel, Answer, Act, Ask, EndReply,
         ExceedIters, ReturnReply, Send, Apply, End
<1>2. \A d \in Callers \ {c} : pc[d] # "range"
  BY <1>1, OneInRange
<1>. USE <1>1 DEF TypeOK, LimitedTypes, Unmoved
<1>3. CASE ReturnReply(c)
  BY <1>1, <1>2, <1>3 DEF ReturnReply, End, Finish, replyVars, hookVars
<1>4. CASE CallModel(c) \/ ResumeReply(c)
  BY <1>1, <1>2, <1>4 DEF CallModel, ResumeReply, vars, hookVars
<1>5. CASE StartReply(c)
  BY <1>1, <1>2, <1>5 DEF StartReply, Send, Apply, hookVars
<1>6. ASSUME NEW kind, NEW p, Send(c, kind, p), UNCHANGED <<origin, made>>
      PROVE  /\ UNCHANGED <<pc, hop, hookVars>>
             /\ \A d \in Callers \ {c} : Unmoved(d)
  BY <1>1, <1>6 DEF Send, Apply, hookVars
<1>7. CASE Answer(c)
  BY <1>1, <1>2, <1>6, <1>7 DEF Answer
<1>8. CASE Reason(c)
  BY <1>1, <1>2, <1>6, <1>8 DEF Reason
<1>9. CASE Act(c) \/ Ask(c) \/ EndReply(c) \/ ExceedIters(c)
  BY <1>1, <1>2, <1>6, <1>9 DEF Act, Ask, EndReply, ExceedIters
<1>. QED  BY <1>3, <1>4, <1>5, <1>7, <1>8, <1>9 DEF Reply

\* A step of the hook of c moves nothing of a reply but that its event is taken.
LEMMA HookFrame ==
  ASSUME TypeOK, LockOK, LimitedTypes, AloneOK, WorkOK, Calm, NEW c \in Callers, Hook(c)
  PROVE  /\ pc[c] = "range" /\ UNCHANGED <<pc, outcome, replyVars>>
         /\ \A d \in Callers \ {c} : pc[d] # "range" /\ Unmoved(d)
<1>1. pc[c] = "range" /\ UNCHANGED <<pc, outcome, replyVars>>
  <2>1. CASE TakeEvent(c)
    BY <2>1, MovesInRange DEF TakeEvent, HookTake, HopTo
  <2>2. CASE Work(c)
    <3>1. hop[c] \in {"hold", "last"}
      BY <2>2 DEF Work, WorkOK, TypeOK
    <3>. QED  BY <2>2, <3>1, MovesInRange DEF Work, vars
  <2>3. CASE Offer(c)
    BY <2>3 DEF Offer, HookOffer, Calm
  <2>4. CASE EventsEnd(c)
    BY <2>4, MovesInRange DEF EventsEnd, HookDrained, HopTo
  <2>5. CASE WorkDone(c)
    BY <2>5, MovesInRange DEF WorkDone, HookBack, HookDone, HopTo
  <2>. QED  BY <2>1, <2>2, <2>3, <2>4, <2>5 DEF Hook
<1>2. \A d \in Callers \ {c} : pc[d] # "range"
  BY <1>1, OneInRange
<1>3. \A d \in Callers \ {c} : UNCHANGED <<run[d], hop[d], todo[d], held[d], local[d], started[d]>>
  <2>. USE DEF TypeOK, LimitedTypes
  <2>1. CASE TakeEvent(c)
    BY <2>1 DEF TakeEvent, HookTake, HopTo
  <2>2. CASE Work(c)
    BY <2>2 DEF Work, vars
  <2>3. CASE Offer(c)
    BY <2>3 DEF Offer, HookOffer
  <2>4. CASE EventsEnd(c)
    BY <2>4 DEF EventsEnd, HookDrained, HopTo
  <2>5. CASE WorkDone(c)
    BY <2>5 DEF WorkDone, HookBack, HookDone, HopTo, hookVars
  <2>. QED  BY <2>1, <2>2, <2>3, <2>4, <2>5 DEF Hook
<1>. QED  BY <1>1, <1>2, <1>3 DEF Unmoved, replyVars

\* A step of the caller of c, or of its environment, changes nothing that the reply
\* and its hook keep: the call is not live yet, or no longer, or fails, or its reply
\* has returned.
LEMMA CallerFrame ==
  ASSUME TypeOK, LockOK, LimitedTypes, AloneOK, Calm, NEW c \in Callers,
         Environment(c) \/ Caller(c)
  PROVE  /\ UNCHANGED <<settings, limits, replyVars, hookVars>>
         /\ \A d \in Callers \ {c} : Unmoved(d)
         /\ \/ UNCHANGED <<pc[c], run[c], hop[c], outcome[c]>>
            \/ Live(c) /\ ~Live(c)' /\ pc'[c] = "returned"
                 /\ UNCHANGED <<run[c], hop[c], outcome[c]>>
            \/ ~Live(c) /\ ~Live(c)' /\ UNCHANGED outcome[c]
            \/ outcome'[c] = "error" /\ UNCHANGED pc[c]
            \/ /\ UNCHANGED <<pc[c], hop[c], outcome[c]>>
               /\ run[c] \in {"errs", "close"} /\ run'[c] \in {"close", "done"}
<1>. USE LimitedTypes DEF TypeOK, LimitedTypes
<1>0. hooks = "relay"
  BY DEF Calm
<1>1. Aside
  BY DEF Environment, Caller
<1>2. UNCHANGED <<settings, limits, replyVars, hookVars>>
  BY <1>1 DEF Aside
<1>3. CASE Environment(c)
  <2>1. CASE \E o \in Op : Lock(c, o)
    BY <1>2, <2>1 DEF Lock, Live, AloneOK, Unmoved, replyVars, hookVars
  <2>2. CASE Cancel(c)
    BY <1>2, <2>2 DEF Cancel, Unmoved, replyVars, hookVars
  <2>. QED  BY <1>3, <2>1, <2>2 DEF Environment
<1>4. CASE Observe(c)
  BY <1>2, <1>4 DEF Observe, Return, Live, AloneOK, Unmoved, replyVars, hookVars
<1>5. CASE RangeEnds(c)
  BY <1>2, <1>5 DEF RangeEnds, Return, Live, Unmoved, replyVars, hookVars
<1>6. CASE EmitCancelled(c)
  BY <1>2, <1>6 DEF EmitCancelled, Finish, Unmoved, replyVars, hookVars
<1>7. CASE PutErr(c) \/ Close(c)
  BY <1>2, <1>7 DEF PutErr, Close, Unmoved, replyVars, hookVars
<1>. QED  BY <1>0, <1>3, <1>4, <1>5, <1>6, <1>7 DEF Caller, Emit, EmitInline, Deliver, AloneOK

-------------------------------------------------------------------------------
(* How far a reply and its hook can be apart. *)

\* The reply of c goes on, after an event of one of these kinds, which the hook has
\* taken; or it has an event of this kind to hand over, while the hook may be at the
\* one before, of one of these kinds.
AtStep(c, kinds) ==
  run[c] = "step" /\ sending[c].kind \in kinds /\ todo[c] \in Left(sending[c].kind)

AtSend(c, kind, kinds) ==
  run[c] = "send" /\ sending[c].kind = kind /\ \E k \in kinds : todo[c] \in Left(k)

FlowOf(c) ==
  /\ phase[c] = "top" =>
       \/ AtStep(c, {"none", "start", "pass"})
       \/ AtSend(c, "start", {"none"}) \/ AtSend(c, "pass", {"none", "called"})
  /\ phase[c] \in {"model", "called"} =>
       AtStep(c, {"pass"}) \/ AtSend(c, "pass", {"none", "start", "pass"})
  /\ phase[c] = "act" => AtStep(c, {"called"}) \/ AtSend(c, "called", {"pass"})
  /\ phase[c] = "answered" =>
       \/ AtStep(c, {"called", "asked"})
       \/ AtSend(c, "called", {"pass"}) \/ AtSend(c, "asked", {"none", "called"})
  /\ phase[c] = "over" =>
       \/ /\ run[c] # "send" /\ sending[c].kind \in {"ended", "exceeded"}
          /\ hop[c] = "hold" => todo[c] \in Left(sending[c].kind)
       \/ AtSend(c, "ended", {"called", "asked"})
       \/ AtSend(c, "exceeded", {"none", "start", "pass"})
  /\ phase[c] # "over" => run[c] \in {"step", "send"}
  /\ \/ phase[c] = "top" /\ sending[c].kind # "none"
     \/ phase[c] \in {"model", "called"}
     => pending # replyID

FlowOK == Calm => \A c \in Callers : Live(c) /\ outcome[c] # "error" => FlowOf(c)

LEMMA FlowInit == LimitedInit => FlowOK
<1>. SUFFICES ASSUME LimitedInit PROVE FlowOK
  OBVIOUS
<1>1. pc = [c \in Callers |-> "idle"]
  BY DEF LimitedInit, Init
<1>. QED  BY <1>1 DEF FlowOK, Live

\* While the reply goes on, its hook has not left the range over the events.
LEMMA HookFollows ==
  ASSUME LockOK, AloneOK, WorkOK, TypeOK, Calm, NEW c \in Callers, run[c] \in {"step", "send"}
  PROVE  pc[c] = "range" /\ outcome[c] = "none" /\ hop[c] \in {"wait", "hold"}
           /\ (hop[c] = "wait" => todo[c] = << >>)
BY DEF LockOK, AloneOK, WorkOK, TypeOK

LEMMA FlowNext ==
  ASSUME TypeOK, LockOK, LimitedTypes, AloneOK, IdsOK, WorkOK, FlowOK, [LimitedNext]_limitedVars
  PROVE  FlowOK'
<1>. SUFFICES ASSUME Calm' PROVE FlowOK'
  BY DEF FlowOK
<1>0. /\ Calm /\ hooks = "relay" /\ UNCHANGED <<hooks, middleware, maxIters, faults>>
      /\ middleware \in {"loop", "budget"}
  BY SettingsStay DEF Calm, LimitedTypes
<1>b. \A kind : Left(kind)' = Left(kind)
  BY <1>0 DEF Left, EventWork, LoopWork, BudgetWork
<1>c. \A kind \in Kinds : << >> \in Left(kind)
  BY <1>0, LeftEnds
<1>. USE <1>0, <1>b DEF TypeOK, LimitedTypes, Live, FlowOK, AtStep, AtSend
\* Only the reply of c moves.
<1>1. ASSUME NEW c \in Callers, Reply(c),
             pc[c] = "range" /\ phase'[c] # "input" /\ outcome'[c] # "error" => FlowOf(c)'
      PROVE  FlowOK'
  <2>1. \A d \in Callers \ {c} : pc[d] # "range" /\ Unmoved(d)
    BY <1>1, ReplyFrame
  <2>. QED  BY <1>1, <2>1, ReplyFrame DEF Unmoved
<1>2. ASSUME NEW c \in Callers, StartReply(c)  PROVE FlowOK'
  <2>1. hop[c] = "wait" /\ todo[c] = << >> /\ pc[c] = "range"
    BY <1>2, HookFollows DEF StartReply, Send, Apply, IdsOK
  <2>2. "none" \in Kinds
    BY DEF Kinds
  <2>3. FlowOf(c)'
    BY <1>2, <1>c, <2>1, <2>2, NoReplyAssumption DEF StartReply, Send, Apply, FlowOf, hookVars
  <2>. QED  BY <1>1, <1>2, <2>3 DEF Reply
<1>3. ASSUME NEW c \in Callers, ResumeReply(c)  PROVE FlowOK'
  <2>1. hop[c] = "wait" /\ todo[c] = << >> /\ pc[c] = "range" /\ sending[c].kind = "none"
    BY <1>3, HookFollows DEF ResumeReply, IdsOK
  <2>2. "none" \in Kinds
    BY DEF Kinds
  <2>3. FlowOf(c)'
    BY <1>3, <1>c, <2>1, <2>2 DEF ResumeReply, FlowOf, vars, hookVars
  <2>. QED  BY <1>1, <1>3, <2>3 DEF Reply
<1>4. ASSUME NEW c \in Callers, Reply(c), run[c] \in {"step", "send"}, phase[c] # "input"
      PROVE  pc[c] = "range" /\ FlowOf(c)
  BY <1>4, HookFollows
<1>5. ASSUME NEW c \in Callers, Reason(c)  PROVE FlowOK'
  <2>1. FlowOf(c)'
    BY <1>4, <1>5, ZenonT(60) DEF Reply, Reason, Send, Apply, FlowOf, hookVars
  <2>. QED  BY <1>1, <1>5, <2>1 DEF Reply
<1>6. ASSUME NEW c \in Callers, CallModel(c)  PROVE FlowOK'
  <2>1. FlowOf(c)'
    BY <1>4, <1>6, ZenonT(60) DEF Reply, CallModel, FlowOf, vars, hookVars
  <2>. QED  BY <1>1, <1>6, <2>1 DEF Reply
<1>7. ASSUME NEW c \in Callers, Answer(c)  PROVE FlowOK'
  <2>1. PICK tools \in BOOLEAN :
          /\ pending' = IF tools THEN replyID ELSE pending
          /\ UNCHANGED <<limits, replyID, curIter, origin, barred, made, spent>>
          /\ Send(c, "called", IF tools THEN "act" ELSE "answered")
    BY <1>7 DEF Answer
  <2>2. FlowOf(c)'
    BY <1>4, <1>7, <2>1, ZenonT(60) DEF Reply, Answer, Send, Apply, FlowOf, hookVars
  <2>. QED  BY <1>1, <1>7, <2>2 DEF Reply
<1>8. ASSUME NEW c \in Callers, Act(c)  PROVE FlowOK'
  <2>1. FlowOf(c) /\ replyID # NoReply
    BY <1>4, <1>8, ZenonT(60) DEF Reply, Act, Acting, Send, Apply, IdsOK
  <2>2. FlowOf(c)'
    BY <1>8, <2>1 DEF Act, Acting, Send, Apply, FlowOf, hookVars
  <2>. QED  BY <1>1, <1>8, <2>2 DEF Reply
<1>9. ASSUME NEW c \in Callers, Ask(c)  PROVE FlowOK'
  <2>1. FlowOf(c)'
    BY <1>4, <1>9, ZenonT(60) DEF Reply, Ask, Acting, Send, Apply, FlowOf, hookVars
  <2>. QED  BY <1>1, <1>9, <2>1 DEF Reply
<1>10. ASSUME NEW c \in Callers, EndReply(c)  PROVE FlowOK'
  <2>1. FlowOf(c)'
    BY <1>4, <1>10, ZenonT(60) DEF Reply, EndReply, Send, Apply, FlowOf, hookVars
  <2>. QED  BY <1>1, <1>10, <2>1 DEF Reply
<1>11. ASSUME NEW c \in Callers, ExceedIters(c)  PROVE FlowOK'
  <2>1. FlowOf(c)'
    BY <1>4, <1>11, ZenonT(60) DEF Reply, ExceedIters, Send, Apply, FlowOf, hookVars
  <2>. QED  BY <1>1, <1>11, <2>1 DEF Reply
<1>12. ASSUME NEW c \in Callers, ReturnReply(c)  PROVE FlowOK'
  <2>1. phase[c] # "input" /\ outcome'[c] # "error" => FlowOf(c)'
    <3>1. SUFFICES ASSUME phase[c] = "over", run'[c] # "send" PROVE FlowOf(c)'
      BY <1>12 DEF ReturnReply, End, Finish, AloneOK
    <3>. QED
      BY <1>4, <1>12, <3>1 DEF Reply, ReturnReply, End, FlowOf, replyVars, hookVars
  <2>. QED  BY <1>1, <1>12, <2>1 DEF Reply, ReturnReply, replyVars
\* Only the caller and the environment of c move.
<1>13. ASSUME NEW c \in Callers, Environment(c) \/ Caller(c)  PROVE FlowOK'
  <2>1. /\ UNCHANGED <<phase, sending, todo, pending, replyID>>
        /\ \A d \in Callers \ {c} : Unmoved(d)
    BY <1>13, CallerFrame DEF replyVars, hookVars
  <2>3. ASSUME NEW d \in Callers, pc'[d] = "range", phase[d] # "input", outcome'[d] # "error"
        PROVE  FlowOf(d)'
    <3>1. CASE UNCHANGED <<pc[d], run[d], hop[d], outcome[d]>>
      BY <2>1, <2>3, <3>1 DEF FlowOf
    <3>2. CASE /\ UNCHANGED <<pc[d], hop[d], outcome[d]>>
               /\ run[d] \in {"errs", "close"} /\ run'[d] \in {"close", "done"}
      BY <2>1, <2>3, <3>2 DEF FlowOf
    <3>. QED  BY <1>13, <2>1, <2>3, <3>1, <3>2, CallerFrame DEF Unmoved
  <2>. QED  BY <2>1, <2>3
\* Only the hook of c moves.
<1>14. ASSUME NEW c \in Callers, Hook(c)  PROVE FlowOK'
  <2>1. /\ UNCHANGED <<pc, phase, sending, pending, replyID, outcome>> /\ pc[c] = "range"
        /\ \A d \in Callers \ {c} : pc[d] # "range"
    BY <1>14, HookFrame DEF replyVars
  <2>2. SUFFICES ASSUME phase[c] # "input", outcome[c] # "error", FlowOf(c)  PROVE FlowOf(c)'
    BY <2>1
  <2>3. CASE TakeEvent(c)
    <3>1. run[c] = "send" /\ run'[c] = "step" /\ todo'[c] = EventWork(sending[c].kind)
      BY <2>3 DEF TakeEvent, HookTake, EventWork
    <3>2. todo'[c] \in Left(sending[c].kind)
      BY <3>1, LeftEnds
    <3>. QED  BY <2>1, <2>2, <3>1, <3>2 DEF FlowOf
  <2>4. ASSUME todo[c] # << >>, todo' = [todo EXCEPT ![c] = Tail(@)], UNCHANGED <<run, hop>>
        PROVE  FlowOf(c)'
    <3>1. todo'[c] = Tail(todo[c])
      BY <2>4
    <3>2. \A kind \in Kinds : todo[c] \in Left(kind) => todo'[c] \in Left(kind)
      BY <2>4, <3>1, LeftNext
    <3>. QED  BY <2>1, <2>2, <2>4, <3>2 DEF FlowOf, Kinds
  <2>5. CASE Work(c)
    BY <2>4, <2>5 DEF Work, vars
  <2>6. CASE Offer(c)
    BY <2>4, <2>6 DEF Offer, HookOffer
  <2>7. CASE EventsEnd(c)
    <3>1. run[c] = "done" /\ hop'[c] = "last" /\ UNCHANGED run
      BY <2>7 DEF EventsEnd, HookDrained, HopTo, LockOK
    <3>. QED  BY <2>1, <2>2, <3>1 DEF FlowOf
  <2>8. CASE WorkDone(c)
    <3>1. hop'[c] # "hold" /\ UNCHANGED <<run, todo>>
      BY <2>8 DEF WorkDone, HookBack, HookDone, HopTo, hookVars
    <3>. QED  BY <2>1, <2>2, <3>1 DEF FlowOf
  <2>. QED  BY <1>14, <2>3, <2>5, <2>6, <2>7, <2>8 DEF Hook
<1>15. CASE UNCHANGED limitedVars
  BY <1>15 DEF limitedVars, vars, replyVars, hookVars, FlowOf
<1>. QED
  BY <1>2, <1>3, <1>5, <1>6, <1>7, <1>8, <1>9, <1>10, <1>11, <1>12, <1>13, <1>14, <1>15
     DEF LimitedNext, Goroutine, Reply

-------------------------------------------------------------------------------
(* The budget of one call. *)

\* What the hook of c has still to do about the reply's start, and about its last
\* model call.
ClearDue(c) == (run[c] = "send" /\ sending[c].kind = "start") \/ Doing(c, "clear")
CountDue(c) == \/ phase[c] = "called"
               \/ run[c] = "send" /\ sending[c].kind = "called"
               \/ Doing(c, "count") \/ Doing(c, "add")

\* The reply of c may go on to another model call.
MayCall(c) == phase[c] \in {"top", "model", "act"} \/ (phase[c] = "called" /\ ~barred[c])

\* A call that may make another model call has not made more than its budget allows,
\* and what it has made is counted but for one call on its way.
BudgetOf(c) ==
  /\ MayCall(c) => made[c] <= Budget
  /\ phase[c] \in {"top", "model", "called", "act"} =>
       \/ ClearDue(c) /\ made[c] = IF phase[c] = "called" THEN 1 ELSE 0
       \/ ~ClearDue(c) /\ CountDue(c) /\ made[c] <= used[replyID] + 1
       \/ ~ClearDue(c) /\ made[c] <= used[replyID]

BudgetOK ==
  Calm /\ middleware = "budget" =>
    \A c \in Callers :
      /\ made[c] <= Budget + 1
      /\ phase[c] = "input" => made[c] = 0
      /\ Live(c) /\ outcome[c] # "error" => BudgetOf(c)

LEMMA BudgetInitial == LimitedInit => BudgetOK
<1>. SUFFICES ASSUME LimitedInit PROVE BudgetOK
  OBVIOUS
<1>1. pc = [c \in Callers |-> "idle"] /\ made = [c \in Callers |-> 0] /\ Budget \in Nat
  BY BudgetAssumption DEF LimitedInit, Init
<1>2. \A c \in Callers : made[c] = 0 /\ pc[c] = "idle"
  BY <1>1
<1>3. 0 <= Budget + 1
  BY <1>1
<1>. QED  BY <1>2, <1>3 DEF BudgetOK, Live

\* What a reply and its hook may be at, as far as the counting goes.
LEMMA FlowCounts ==
  ASSUME middleware \in {"loop", "budget"}, NEW c \in Callers, phase[c] \in Phases \ {"input"},
         FlowOf(c)
  PROVE  /\ phase[c] \in {"model", "called"} => sending[c].kind = "pass"
         /\ phase[c] = "act" => sending[c].kind = "called"
         /\ phase[c] = "answered" => sending[c].kind \in {"called", "asked"}
         /\ Doing(c, "count") \/ Doing(c, "add") =>
              \/ phase[c] = "top" /\ run[c] = "send" /\ sending[c].kind = "pass"
              \/ phase[c] \in {"act", "answered"} /\ run[c] = "step" /\ sending[c].kind = "called"
              \/ phase[c] = "answered" /\ run[c] = "send" /\ sending[c].kind = "asked"
              \/ phase[c] = "over"
         /\ Doing(c, "clear") \/ Doing(c, "startRun") =>
              \/ phase[c] = "top" /\ run[c] = "step" /\ sending[c].kind = "start"
              \/ phase[c] \in {"model", "called"} /\ run[c] = "send"
              \/ phase[c] = "over"
<1>1. \A kind \in Kinds : todo[c] \in Left(kind) =>
        /\ Doing(c, "count") \/ Doing(c, "add") => kind = "called"
        /\ Doing(c, "clear") \/ Doing(c, "startRun") => kind \in {"start", "ended"}
  BY LeftWords DEF Doing
<1>. USE DEF FlowOf, AtStep, AtSend, Kinds
<1>2. phase[c] \in {"model", "called"} => sending[c].kind = "pass"
  OBVIOUS
<1>3. phase[c] = "act" => sending[c].kind = "called"
  OBVIOUS
<1>4. phase[c] = "answered" => sending[c].kind \in {"called", "asked"}
  OBVIOUS
<1>5. ASSUME Doing(c, "count") \/ Doing(c, "add")
      PROVE  \/ phase[c] = "top" /\ run[c] = "send" /\ sending[c].kind = "pass"
             \/ phase[c] \in {"act", "answered"} /\ run[c] = "step" /\ sending[c].kind = "called"
             \/ phase[c] = "answered" /\ run[c] = "send" /\ sending[c].kind = "asked"
             \/ phase[c] = "over"
  <2>1. \A kind \in Kinds : todo[c] \in Left(kind) => kind = "called"
    BY <1>1, <1>5, SMTT(60)
  <2>. QED  BY <2>1, SMTT(60) DEF Phases
<1>6. ASSUME Doing(c, "clear") \/ Doing(c, "startRun")
      PROVE  \/ phase[c] = "top" /\ run[c] = "step" /\ sending[c].kind = "start"
             \/ phase[c] \in {"model", "called"} /\ run[c] = "send"
             \/ phase[c] = "over"
  <2>1. \A kind \in Kinds : todo[c] \in Left(kind) => kind \in {"start", "ended"}
    BY <1>1, <1>6, SMTT(60)
  <2>. QED  BY <2>1, SMTT(60) DEF Phases
<1>. QED  BY <1>2, <1>3, <1>4, <1>5, <1>6

LEMMA BudgetNext ==
  ASSUME TypeOK, LockOK, LimitedTypes, AloneOK, IdsOK, WorkOK, FlowOK, BudgetOK,
         [LimitedNext]_limitedVars
  PROVE  BudgetOK'
<1>. SUFFICES ASSUME Calm', middleware' = "budget" PROVE BudgetOK'
  BY DEF BudgetOK
<1>0. /\ Calm /\ hooks = "relay" /\ UNCHANGED <<hooks, middleware, maxIters, faults>>
      /\ middleware = "budget"
  BY SettingsStay DEF Calm, LimitedTypes
<1>b. Budget \in Nat /\ Budget >= 1
  BY BudgetAssumption
<1>. USE <1>0, <1>b DEF TypeOK, LimitedTypes, Live, BudgetOK
<1>1. ASSUME NEW c \in Callers, Environment(c) \/ Caller(c)  PROVE BudgetOK'
  <2>1. /\ UNCHANGED <<phase, sending, todo, replyID, used, made, barred>>
        /\ \A d \in Callers \ {c} : Unmoved(d)
    BY <1>1, CallerFrame DEF limits, replyVars, hookVars
  <2>2. ASSUME NEW d \in Callers, Live(d)', outcome'[d] # "error"
        PROVE  BudgetOf(d)'
    <3>1. CASE UNCHANGED <<pc[d], run[d], hop[d], outcome[d]>>
      <4>1. BudgetOf(d)
        BY <2>1, <2>2, <3>1
      <4>. QED  BY <2>1, <3>1, <4>1 DEF BudgetOf, ClearDue, CountDue, MayCall, Doing
    <3>2. CASE /\ d = c /\ UNCHANGED <<pc[d], hop[d], outcome[d]>>
               /\ run[d] \in {"errs", "close"}
      <4>1. phase[d] = "over"
        BY <2>1, <2>2, <3>2, ZenonT(60) DEF FlowOK, FlowOf
      <4>. QED  BY <2>1, <4>1 DEF BudgetOf, MayCall
    <3>. QED  BY <1>1, <2>1, <2>2, <3>1, <3>2, CallerFrame DEF Unmoved
  <2>. QED  BY <2>1, <2>2
<1>2. ASSUME NEW c \in Callers, Reply(c), made'[c] <= Budget + 1,
             phase'[c] = "input" => made'[c] = 0,
             phase'[c] # "input" /\ outcome'[c] # "error" => BudgetOf(c)'
      PROVE  BudgetOK'
  <2>1. \A d \in Callers \ {c} : pc'[d] # "range" /\ made'[d] = made[d] /\ phase'[d] = phase[d]
    BY <1>2, ReplyFrame DEF Unmoved
  <2>. QED  BY <1>2, <2>1
<1>3. ASSUME NEW c \in Callers, Reply(c), phase[c] # "input", run[c] \in {"step", "send"}
      PROVE  /\ pc[c] = "range" /\ FlowOf(c) /\ BudgetOf(c) /\ phase[c] \in Phases \ {"input"}
             /\ origin[c] = replyID /\ replyID \in Callers
  BY <1>3, HookFollows, NoReplyAssumption, SMTT(60) DEF FlowOK, IdsOK
<1>. USE DEF BudgetOf, ClearDue, CountDue, MayCall
<1>4. ASSUME NEW c \in Callers, StartReply(c)  PROVE BudgetOK'
  <2>1. made[c] = 0 /\ UNCHANGED <<made>>
    BY <1>4 DEF StartReply
  <2>2. BudgetOf(c)'
    BY <1>4, <2>1 DEF StartReply, Send, Apply
  <2>. QED  BY <1>2, <1>4, <2>1, <2>2 DEF Reply, StartReply, Send
<1>5. ASSUME NEW c \in Callers, ResumeReply(c)  PROVE BudgetOK'
  <2>1. made[c] = 0 /\ UNCHANGED <<made, used, todo, run, sending>>
          /\ phase' = [phase EXCEPT ![c] = "top"]
    BY <1>5 DEF ResumeReply, vars, limits, hookVars
  <2>2. todo[c] = << >> /\ run[c] = "step"
    BY <1>5, HookFollows DEF ResumeReply, IdsOK
  <2>3. used'[replyID'] \in Nat
    BY <1>5, <2>1 DEF ResumeReply, IdsOK
  <2>4. BudgetOf(c)'
    BY <2>1, <2>2, <2>3 DEF Doing
  <2>. QED  BY <1>2, <1>5, <2>1, <2>4 DEF Reply
<1>6. ASSUME NEW c \in Callers, Reason(c)  PROVE BudgetOK'
  <2>1. /\ phase[c] = "top" /\ run[c] = "step" /\ phase' = [phase EXCEPT ![c] = "model"]
        /\ run' = [run EXCEPT ![c] = "send"] /\ sending'[c].kind = "pass"
        /\ UNCHANGED <<made, used, todo, replyID>>
    BY <1>6 DEF Reason, Send, Apply, hookVars
  <2>2. ~Doing(c, "count") /\ ~Doing(c, "add") /\ FlowOf(c) /\ BudgetOf(c)
    BY <1>3, <1>6, <2>1, FlowCounts, SMTT(60) DEF Reply
  <2>3. BudgetOf(c)'
    BY <2>1, <2>2 DEF Doing
  <2>. QED  BY <1>2, <1>6, <2>1, <2>3, SMTT(60) DEF Reply
<1>7. ASSUME NEW c \in Callers, CallModel(c)  PROVE BudgetOK'
  <2>1. /\ phase[c] = "model" /\ phase' = [phase EXCEPT ![c] = "called"]
        /\ made' = [made EXCEPT ![c] = @ + 1] /\ barred' = [barred EXCEPT ![c] = Barred]
        /\ run[c] \in {"step", "send"} /\ UNCHANGED <<run, sending, used, todo, replyID>>
    BY <1>7 DEF CallModel, vars, limits, hookVars
  <2>2. ~Doing(c, "count") /\ ~Doing(c, "add") /\ sending[c].kind = "pass" /\ BudgetOf(c)
    BY <1>3, <1>7, <2>1, FlowCounts DEF Reply
  <2>3. \/ ClearDue(c) /\ made[c] = 0
        \/ ~ClearDue(c) /\ made[c] <= used[replyID]
    BY <2>1, <2>2
  <2>4. ~barred'[c] => used[replyID] < Budget
    <3>1. Barred <=> BudgetExceeded(replyID)
      BY DEF Barred
    <3>2. replyID \in Callers
      BY <1>3, <1>7, <2>1 DEF Reply
    <3>. QED  BY <2>1, <3>1, <3>2 DEF BudgetExceeded
  <2>5. made'[c] = made[c] + 1 /\ made[c] <= Budget /\ phase'[c] = "called"
    BY <2>1, <2>2
  <2>6. replyID \in Callers
    BY <1>3, <1>7, <2>1 DEF Reply
  <2>7. BudgetOf(c)'
    <3>1. CASE ClearDue(c) /\ made[c] = 0
      BY <2>1, <2>5, <3>1 DEF Doing
    <3>2. CASE ~ClearDue(c) /\ made[c] <= used[replyID]
      BY <2>1, <2>4, <2>5, <2>6, <3>2 DEF Doing
    <3>. QED  BY <2>3, <3>1, <3>2
  <2>. QED  BY <1>2, <1>7, <2>5, <2>7, SMTT(60) DEF Reply
<1>8. ASSUME NEW c \in Callers, Answer(c)  PROVE BudgetOK'
  <2>1. /\ phase[c] = "called" /\ run[c] = "step" /\ run' = [run EXCEPT ![c] = "send"]
        /\ sending'[c].kind = "called" /\ UNCHANGED <<made, used, todo, replyID, barred>>
    BY <1>8 DEF Answer, Send, Apply, hookVars, limits
  <2>2. \/ phase'[c] = "answered"
        \/ phase'[c] = "act" /\ ~barred[c]
    BY <1>8, ZenonT(60) DEF Answer, Send
  <2>3. BudgetOf(c) /\ ~Doing(c, "clear") /\ sending[c].kind = "pass"
    BY <1>3, <1>8, <2>1, FlowCounts DEF Reply
  <2>4. BudgetOf(c)'
    BY <2>1, <2>2, <2>3 DEF Doing
  <2>. QED  BY <1>2, <1>8, <2>1, <2>2, <2>4 DEF Reply
<1>9. ASSUME NEW c \in Callers, Act(c)  PROVE BudgetOK'
  <2>1. /\ phase[c] \in {"act", "top"} /\ run[c] = "step" /\ run' = [run EXCEPT ![c] = "send"]
        /\ sending'[c].kind = "pass" /\ phase'[c] = "top"
        /\ UNCHANGED <<made, used, todo, replyID, barred>>
    BY <1>9 DEF Act, Acting, Send, Apply, hookVars, limits
  <2>2. BudgetOf(c) /\ FlowOf(c) /\ (phase[c] = "top" => pending = replyID)
    BY <1>3, <1>9, <2>1 DEF Reply, Act, Acting
  <2>3. ~Doing(c, "clear")
    <3>1. phase[c] = "top" => sending[c].kind = "none"
      BY <2>2 DEF FlowOf
    <3>. QED  BY <1>3, <1>9, <2>1, <2>2, <3>1, FlowCounts DEF Reply
  <2>4. BudgetOf(c)'
    BY <2>1, <2>2, <2>3 DEF Doing
  <2>. QED  BY <1>2, <1>9, <2>1, <2>4 DEF Reply
<1>10. ASSUME NEW c \in Callers, Ask(c) \/ EndReply(c) \/ ExceedIters(c)  PROVE BudgetOK'
  <2>1. phase'[c] \in {"answered", "over"} /\ UNCHANGED made
    BY <1>10 DEF Ask, EndReply, ExceedIters, Send
  <2>. QED  BY <1>2, <1>10, <2>1 DEF Reply
<1>11. ASSUME NEW c \in Callers, ReturnReply(c)  PROVE BudgetOK'
  <2>1. UNCHANGED replyVars /\ (outcome'[c] # "error" => phase[c] = "over")
    BY <1>11 DEF ReturnReply, End, Finish
  <2>. QED  BY <1>2, <1>11, <2>1 DEF Reply, replyVars
<1>12. ASSUME NEW c \in Callers, Hook(c), UNCHANGED <<made, phase, barred, replyID>>,
              phase[c] # "input" /\ outcome[c] # "error" => BudgetOf(c)'
       PROVE  BudgetOK'
  <2>1. UNCHANGED <<pc, outcome>> /\ \A d \in Callers \ {c} : pc[d] # "range"
    BY <1>12, HookFrame
  <2>. QED  BY <1>12, <2>1
<1>13. ASSUME NEW c \in Callers, Hook(c)  PROVE BudgetOK'
  <2>1. pc[c] = "range" /\ UNCHANGED <<made, phase, barred, replyID, sending>>
    BY <1>13, HookFrame DEF replyVars
  <2>2. SUFFICES ASSUME phase[c] # "input", outcome[c] # "error",
                        phase[c] \in {"top", "model", "called", "act"}
                 PROVE  BudgetOf(c)'
    BY <1>12, <1>13, <2>1
  <2>3. /\ BudgetOf(c) /\ FlowOf(c) /\ phase[c] \in Phases \ {"input"} /\ replyID \in Callers
        /\ (hop[c] = "hold" => held[c] = replyID)
    BY <2>1, <2>2, NoReplyAssumption DEF FlowOK, IdsOK, Phases
  <2>4. CASE TakeEvent(c)
    <3>1. /\ run[c] = "send" /\ run'[c] = "step" /\ todo[c] = << >> /\ UNCHANGED used
          /\ todo'[c] = EventWork(sending[c].kind)
      BY <2>4 DEF TakeEvent, HookTake, HopTo, EventWork, WorkOK, limits
    <3>2. /\ sending[c].kind = "start" => Doing(c, "clear")'
          /\ sending[c].kind = "called" => Doing(c, "add")'
          /\ sending[c].kind = "pass" => ~Doing(c, "clear")' /\ ~Doing(c, "add")'
          /\ ~Doing(c, "count")'
          /\ sending[c].kind = "called" => ~Doing(c, "clear")'
      BY <3>1, FirstWords, ZenonT(60) DEF Doing
    <3>3. sending[c].kind \in {"start", "called", "pass"}
      BY <2>2, <2>3, <3>1 DEF FlowOf, AtStep, AtSend
    <3>. QED  BY <2>1, <2>2, <2>3, <3>1, <3>2, <3>3 DEF Doing
  <2>5. ASSUME todo[c] # << >>, todo' = [todo EXCEPT ![c] = Tail(@)], UNCHANGED run
        PROVE  ~Doing(c, "count")' /\ ~Doing(c, "add")' /\ ~Doing(c, "clear")'
    <3>1. PICK kind \in Kinds : todo[c] \in Left(kind)
      BY DEF WorkOK
    <3>2. todo'[c] = Tail(todo[c])
      BY <2>5
    <3>3. Tail(todo[c]) # << >> => Head(Tail(todo[c])) \in {"offer", "verify", "stopRun"}
      BY <2>5, <3>1, LeftNext
    <3>. QED  BY <3>2, <3>3 DEF Doing
  <2>6. CASE Offer(c)
    <3>1. /\ ~Doing(c, "count") /\ ~Doing(c, "add") /\ ~Doing(c, "clear")
          /\ UNCHANGED <<run, used>>
      BY <2>6 DEF Offer, HookOffer, Doing, limits
    <3>2. ~Doing(c, "count")' /\ ~Doing(c, "add")' /\ ~Doing(c, "clear")'
      BY <2>5, <2>6, <3>1 DEF Offer
    <3>. QED  BY <2>1, <2>2, <2>3, <3>1, <3>2
  <2>7. CASE Work(c)
    <3>. DEFINE w == Head(todo[c])
    <3>1. UNCHANGED <<run, hop>> /\ todo[c] # << >> /\ todo' = [todo EXCEPT ![c] = Tail(@)]
      BY <2>7 DEF Work, vars
    <3>2. ~Doing(c, "count")' /\ ~Doing(c, "add")' /\ ~Doing(c, "clear")'
      BY <2>5, <3>1
    <3>3. PICK kind \in Kinds : todo[c] \in Left(kind)
      BY DEF WorkOK
    <3>4. w \in {"clear", "add"}
      BY <2>7, <3>1, <3>3, LeftWords DEF Work
    <3>5. hop[c] = "hold" /\ held[c] = replyID
      BY <2>3, <3>1, <3>4, Tails DEF WorkOK
    <3>6. CASE w = "clear"
      <4>1. used' = [used EXCEPT ![replyID] = 0]
        BY <2>7, <3>5, <3>6 DEF Work, ClearReply
      <4>2. Doing(c, "clear") /\ (run[c] = "send" => sending[c].kind # "start")
        BY <2>2, <2>3, <3>1, <3>6, FlowCounts DEF Doing
      <4>. QED  BY <2>1, <2>2, <2>3, <3>1, <3>2, <4>1, <4>2
    <3>7. CASE w = "add"
      <4>1. used' = [used EXCEPT ![replyID] = @ + 1]
        BY <2>7, <3>5, <3>7 DEF Work, AddUsage
      <4>2. Doing(c, "add") /\ ~Doing(c, "clear")
        BY <3>1, <3>7 DEF Doing
      <4>3. \/ phase[c] = "top" /\ sending[c].kind = "pass"
            \/ phase[c] = "act" /\ run[c] = "step"
        BY <2>2, <2>3, <4>2, FlowCounts
      <4>. QED  BY <2>1, <2>2, <2>3, <3>1, <3>2, <4>1, <4>2, <4>3
    <3>. QED  BY <3>4, <3>6, <3>7
  <2>8. CASE EventsEnd(c)
    <3>1. run[c] = "done"
      BY <2>8 DEF EventsEnd, HookDrained, LockOK
    <3>. QED  BY <2>2, <2>3, <3>1 DEF FlowOf
  <2>9. CASE WorkDone(c)
    BY <2>1, <2>2, <2>3, <2>9 DEF WorkDone, HookBack, HookDone, hookVars, limits, Doing
  <2>. QED  BY <1>13, <2>4, <2>6, <2>7, <2>8, <2>9 DEF Hook
<1>14. CASE UNCHANGED limitedVars
  BY <1>14 DEF limitedVars, vars, limits, replyVars, hookVars, Doing
<1>. QED
  BY <1>1, <1>4, <1>5, <1>6, <1>7, <1>8, <1>9, <1>10, <1>11, <1>13, <1>14
     DEF LimitedNext, Goroutine, Reply

-------------------------------------------------------------------------------
(* The run of a reply. *)

\* The run of the reply of c is still to be started.
StartDue(c) == (run[c] = "send" /\ sending[c].kind = "start") \/ Doing(c, "startRun")

\* The hook of c has still to verify the reply or to stop its run.
Ending(c) == todo[c] \in {<<"offer", "verify", "offer", "stopRun">>,
                          <<"verify", "offer", "stopRun">>, <<"offer", "stopRun">>, <<"stopRun">>}

\* The last run is that of the live reply, unless its start has not been dealt with,
\* and that of the reply which may be resumed.
RunOf(c) ==
  /\ started[c] => lastRun = c
  /\ Ending(c) => lastRun = origin[c]
  /\ lastRun = origin[c] \/ StartDue(c) \/ outcome[c] = "error"

RunOK ==
  Calm /\ middleware = "loop" =>
    /\ pending # NoReply => lastRun = pending
    /\ \A c \in Callers : Live(c) => RunOf(c)

LEMMA RunInit == LimitedInit => RunOK
<1>. SUFFICES ASSUME LimitedInit PROVE RunOK
  OBVIOUS
<1>1. pc = [c \in Callers |-> "idle"] /\ pending = NoReply
  BY DEF LimitedInit, Init
<1>. QED  BY <1>1 DEF RunOK, Live

\* What the hook does next, after a word of its work.
LEMMA WordDone ==
  ASSUME WorkOK, Calm, middleware = "loop", LimitedTypes,
         NEW c \in Callers, todo[c] # << >>, todo' = [todo EXCEPT ![c] = Tail(@)]
  PROVE  /\ \A w : Doing(c, w)' => w \in {"offer", "verify", "stopRun"}
         /\ Ending(c)' => Ending(c)
         /\ Doing(c, "verify") \/ Doing(c, "stopRun") => Ending(c)
         /\ Doing(c, "stopRun") => todo'[c] = << >>
         /\ Doing(c, "verify") => todo'[c] = <<"offer", "stopRun">>
<1>1. PICK kind \in Kinds : todo[c] \in Left(kind)
  BY DEF WorkOK
<1>2. todo'[c] = Tail(todo[c])
  BY DEF LimitedTypes
<1>3. Tail(todo[c]) # << >> => Head(Tail(todo[c])) \in {"offer", "verify", "stopRun"}
  BY <1>1, LeftNext
<1>4. CASE kind = "ended"
  <2>. USE <1>4, <1>2, Tails DEF Ending, Doing
  <2>1. CASE todo[c] = <<"offer", "verify", "offer", "stopRun">>
    BY <2>1
  <2>2. CASE todo[c] = <<"verify", "offer", "stopRun">>
    BY <2>2
  <2>3. CASE todo[c] = <<"offer", "stopRun">>
    BY <2>3
  <2>4. CASE todo[c] = <<"stopRun">>
    BY <2>4
  <2>. QED  BY <1>1, <2>1, <2>2, <2>3, <2>4 DEF Left
<1>5. CASE kind # "ended"
  <2>1. Head(todo[c]) \notin {"verify", "stopRun"}
    BY <1>1, <1>5, LeftWords
  <2>2. todo'[c] \in {<<"offer">>, << >>}
    BY <1>1, <1>2, <1>5, LeftNext
  <2>3. ~Ending(c)'
    BY <2>2, Tails, SMTT(60) DEF Ending
  <2>. QED  BY <1>2, <1>3, <2>1, <2>3 DEF Doing
<1>. QED  BY <1>4, <1>5

\* The work of the runtime, one word at a time.
LEMMA WorkWords ==
  ASSUME WorkOK, IdsOK, AloneOK, TypeOK, Calm, middleware = "loop", LimitedTypes, NEW c \in Callers,
         Work(c)
  PROVE  /\ todo[c] # << >> /\ todo' = [todo EXCEPT ![c] = Tail(@)]
         /\ UNCHANGED <<vars, settings, replyVars, held, used>> /\ pc[c] = "range"
         /\ phase[c] # "input" => hop[c] = "hold" \/ Doing(c, "stopRun")
         /\ \/ Doing(c, "startRun") /\ StartRun(held[c])
               /\ started' = [started EXCEPT ![c] = TRUE] /\ UNCHANGED <<local, verdicts>>
            \/ Doing(c, "count") /\ CountModelCall /\ UNCHANGED <<local, started, verdicts>>
            \/ /\ \E w \in {"waiting_user", "max_iterations"} :
                    Doing(c, w) /\ SetReason(w) /\ local' = [local EXCEPT ![c] = w]
               /\ UNCHANGED <<started, verdicts>>
            \/ /\ Doing(c, "verify")
               /\ \E passed \in BOOLEAN :
                    /\ SetReason(AfterVerification(passed)) /\ AfterVerification(passed) \in Reasons
                    /\ local' = [local EXCEPT ![c] = IF AfterVerification(passed) = "none" THEN @
                                                     ELSE AfterVerification(passed)]
                    /\ verdicts' = [verdicts EXCEPT ![held[c]] = passed]
               /\ UNCHANGED started
            \/ Doing(c, "stopRun") /\ StopRun(local[c])
               /\ started' = [started EXCEPT ![c] = FALSE] /\ UNCHANGED <<local, verdicts>>
<1>1. /\ todo[c] # << >> /\ todo' = [todo EXCEPT ![c] = Tail(@)]
      /\ UNCHANGED <<vars, settings, replyVars, held>>
  BY DEF Work
<1>2. PICK kind \in Kinds : todo[c] \in Left(kind)
  BY DEF WorkOK
<1>3. Head(todo[c]) \notin {"clear", "add"}
  BY <1>1, <1>2, LeftWords
<1>4. UNCHANGED used
  BY <1>3 DEF Work
<1>5. hop[c] \in {"hold", "last"} /\ (hop[c] = "last" => Doing(c, "stopRun"))
  BY <1>1, Tails DEF WorkOK, TypeOK, Doing
<1>6. pc[c] = "range"
  BY <1>5, MovesInRange
<1>7. \A passed \in BOOLEAN : AfterVerification(passed) \in Reasons
  BY DEF AfterVerification, LimitedTypes, Counters, Reasons
<1>. QED  BY <1>1, <1>3, <1>4, <1>5, <1>6, <1>7 DEF Work, Doing, RecordVerification

LEMMA RunNext ==
  ASSUME TypeOK, LockOK, LimitedTypes, AloneOK, IdsOK, WorkOK, FlowOK, RunOK,
         [LimitedNext]_limitedVars
  PROVE  RunOK'
<1>. SUFFICES ASSUME Calm', middleware' = "loop" PROVE RunOK'
  BY DEF RunOK
<1>0. /\ Calm /\ hooks = "relay" /\ UNCHANGED <<hooks, middleware, maxIters, faults>>
      /\ middleware = "loop"
  BY SettingsStay DEF Calm, LimitedTypes
<1>. USE <1>0 DEF TypeOK, LimitedTypes, Live, RunOK
<1>1. ASSUME NEW c \in Callers, Environment(c) \/ Caller(c)  PROVE RunOK'
  <2>1. /\ UNCHANGED <<phase, sending, todo, started, origin, lastRun, pending>>
        /\ \A d \in Callers \ {c} : Unmoved(d)
    BY <1>1, CallerFrame DEF limits, loopVars, replyVars, hookVars
  <2>2. ASSUME NEW d \in Callers, Live(d)'
        PROVE  RunOf(d)'
    <3>1. CASE UNCHANGED <<pc[d], run[d], hop[d], outcome[d]>>
      BY <2>1, <2>2, <3>1 DEF RunOf, Ending, StartDue, Doing
    <3>2. CASE d = c /\ pc[d] = "range" /\ outcome'[d] = "error"
      BY <2>1, <2>2, <3>2 DEF RunOf, Ending
    <3>3. CASE /\ d = c /\ UNCHANGED <<pc[d], hop[d], outcome[d]>>
               /\ run[d] \in {"errs", "close"}
      BY <2>1, <2>2, <3>3 DEF RunOf, Ending, StartDue, Doing
    <3>. QED  BY <1>1, <2>1, <2>2, <3>1, <3>2, <3>3, CallerFrame DEF Unmoved
  <2>. QED  BY <2>1, <2>2
<1>2. ASSUME NEW c \in Callers, Reply(c), pending' # NoReply => lastRun = pending',
             UNCHANGED lastRun, phase'[c] # "input" => RunOf(c)'
      PROVE  RunOK'
  <2>1. \A d \in Callers \ {c} : pc'[d] # "range"
    BY <1>2, ReplyFrame
  <2>. QED  BY <1>2, <2>1
<1>3. ASSUME NEW c \in Callers, Reply(c)
      PROVE  /\ pc[c] = "range" /\ run[c] \in {"step", "send"} /\ outcome[c] = "none"
             /\ (phase[c] # "input" => FlowOf(c) /\ RunOf(c) /\ origin[c] = replyID
                                       /\ phase[c] \in Phases \ {"input"})
  BY <1>3, ReplyFrame, HookFollows, SMTT(60) DEF FlowOK, IdsOK
<1>4. ASSUME NEW c \in Callers, StartReply(c)  PROVE RunOK'
  <2>1. /\ pending' = NoReply /\ origin' = [origin EXCEPT ![c] = c]
        /\ run'[c] = "send" /\ sending'[c].kind = "start" /\ UNCHANGED <<todo, started, lastRun>>
    BY <1>4 DEF StartReply, Send, Apply, limits, loopVars, hookVars
  <2>2. todo[c] = << >> /\ ~started[c]
    BY <1>4, HookFollows, NoReplyAssumption DEF StartReply, Send, Apply, IdsOK, WorkOK
  <2>3. ~Ending(c)'
    BY <2>1, <2>2, Tails DEF Ending
  <2>. QED  BY <1>2, <1>4, <2>1, <2>2, <2>3 DEF Reply, RunOf, StartDue
<1>5. ASSUME NEW c \in Callers, ResumeReply(c)  PROVE RunOK'
  <2>1. /\ pending # NoReply /\ origin' = [origin EXCEPT ![c] = pending]
        /\ UNCHANGED <<todo, started, lastRun, pending>>
    BY <1>5 DEF ResumeReply, limits, loopVars, hookVars
  <2>2. todo[c] = << >> /\ ~started[c]
    BY <1>5, HookFollows, NoReplyAssumption DEF ResumeReply, IdsOK, WorkOK
  <2>. QED  BY <1>2, <1>5, <2>1, <2>2 DEF Reply, RunOf
\* The reply goes on.
<1>6. ASSUME NEW c \in Callers, NEW kind, NEW p, Send(c, kind, p), phase[c] # "input", RunOf(c),
             UNCHANGED <<origin, lastRun>>
      PROVE  RunOf(c)'
  <2>1. run[c] = "step" /\ UNCHANGED <<todo, started, outcome>>
    BY <1>6 DEF Send, Apply, hookVars
  <2>. QED  BY <1>6, <2>1 DEF RunOf, Ending, StartDue, Doing
<1>7. ASSUME NEW c \in Callers, Reason(c)  PROVE RunOK'
  <2>1. UNCHANGED lastRun
    BY <1>7 DEF Reason, BeginReasoning
  <2>. QED  BY <1>2, <1>3, <1>6, <1>7, <2>1 DEF Reply, Reason
<1>8. ASSUME NEW c \in Callers, CallModel(c)  PROVE RunOK'
  <2>1. phase[c] = "model" /\ UNCHANGED <<run, outcome, sending, todo, started, origin, lastRun,
        pending>>
    BY <1>8 DEF CallModel, vars, limits, loopVars, hookVars
  <2>2. RunOf(c)'
    BY <1>3, <1>8, <2>1 DEF Reply, RunOf, Ending, StartDue, Doing
  <2>. QED  BY <1>2, <1>8, <2>1, <2>2 DEF Reply
<1>9. ASSUME NEW c \in Callers, Answer(c)  PROVE RunOK'
  <2>1. /\ phase[c] = "called" /\ run[c] = "step" /\ UNCHANGED <<origin, lastRun>>
        /\ pending' \in {pending, replyID}
    BY <1>9 DEF Answer, Send, Apply, limits, loopVars
  <2>2. RunOf(c) /\ FlowOf(c) /\ origin[c] = replyID /\ outcome[c] = "none"
          /\ phase[c] \in Phases \ {"input"}
    BY <1>3, <1>9, <2>1 DEF Reply
  <2>3. ~StartDue(c)
    BY <2>1, <2>2, FlowCounts DEF StartDue
  <2>4. lastRun = replyID
    BY <2>2, <2>3 DEF RunOf
  <2>5. RunOf(c)'
    BY <1>6, <1>9, <2>1, <2>2 DEF Answer
  <2>. QED  BY <1>2, <1>9, <2>1, <2>4, <2>5 DEF Reply
<1>10. ASSUME NEW c \in Callers, Act(c) \/ Ask(c) \/ EndReply(c) \/ ExceedIters(c)  PROVE RunOK'
  <2>1. pending' \in {pending, NoReply} /\ UNCHANGED <<origin, lastRun>> /\ phase[c] # "input"
    BY <1>10 DEF Act, Ask, EndReply, ExceedIters, Acting, limits, loopVars
  <2>2. RunOf(c)'
    BY <1>3, <1>6, <1>10, <2>1 DEF Reply, Act, Ask, EndReply, ExceedIters
  <2>. QED  BY <1>2, <1>10, <2>1, <2>2 DEF Reply
<1>11. ASSUME NEW c \in Callers, ReturnReply(c)  PROVE RunOK'
  <2>1. /\ run[c] = "step" /\ run'[c] # "send"
        /\ UNCHANGED <<phase, sending, todo, started, origin, lastRun, pending>>
    BY <1>11 DEF ReturnReply, End, Finish, limits, loopVars, replyVars, hookVars
  <2>2. phase[c] # "input" => RunOf(c)'
    BY <1>3, <1>11, <2>1 DEF Reply, RunOf, Ending, StartDue, Doing
  <2>. QED  BY <1>2, <1>11, <2>1, <2>2 DEF Reply
<1>12. ASSUME NEW c \in Callers, Hook(c)  PROVE RunOK'
  <2>1. /\ pc[c] = "range" /\ UNCHANGED <<pc, outcome, replyVars>>
        /\ \A d \in Callers \ {c} : pc[d] # "range"
    BY <1>12, HookFrame
  <2>0. UNCHANGED <<phase, sending, origin, pending, replyID>>
    BY <2>1 DEF replyVars
  <2>2. CASE phase[c] = "input"
    <3>1. \A d \in Callers : ~Live(d)
      BY <2>1, <2>2
    <3>2. UNCHANGED lastRun
      <4>1. CASE Work(c)
        <5>1. Doing(c, "startRun") => phase[c] # "input"
          BY NoReplyAssumption DEF WorkOK, IdsOK
        <5>. QED  BY <2>2, <4>1, <5>1, WorkWords DEF CountModelCall, SetReason, StopRun
      <4>. QED
        BY <1>12, <4>1 DEF Hook, TakeEvent, Offer, EventsEnd, WorkDone, limits, loopVars
    <3>. QED  BY <2>0, <2>1, <3>1, <3>2
  <2>3. CASE phase[c] # "input"
    <3>0. /\ RunOf(c) /\ origin[c] = replyID /\ (hop[c] = "hold" => held[c] = replyID)
          /\ replyID \in Replies
      BY <2>1, <2>3, NoReplyAssumption DEF IdsOK
    <3>1. SUFFICES RunOf(c)' /\ (lastRun' = lastRun \/ lastRun' = replyID)
      BY <2>0, <2>1 DEF IdsOK
    <3>2. CASE TakeEvent(c)
      <4>1. /\ run[c] = "send" /\ outcome[c] = "none" /\ todo[c] = << >>
                 /\ UNCHANGED <<started, lastRun>>
            /\ todo'[c] = EventWork(sending[c].kind) /\ run'[c] = "step"
        BY <3>2 DEF TakeEvent, HookTake, HopTo, EventWork, WorkOK, limits, loopVars, AloneOK
      <4>2. CASE sending[c].kind = "start"
        <5>1. Doing(c, "startRun")'
          <6>1. "start" \in Kinds
            BY DEF Kinds
          <6>2. EventWork("start") # << >> /\ Head(EventWork("start")) = "startRun"
            BY <6>1, FirstWords
          <6>. QED  BY <4>1, <4>2, <6>2 DEF Doing
        <5>2. ~Ending(c)'
          BY <5>1, Tails, SMTT(60) DEF Ending, Doing
        <5>. QED  BY <2>0, <2>1, <3>0, <4>1, <5>1, <5>2 DEF RunOf, StartDue
      <4>3. CASE sending[c].kind # "start"
        BY <2>0, <2>1, <3>0, <4>1, <4>3 DEF RunOf, StartDue, Doing
      <4>. QED  BY <4>2, <4>3
    <3>3. CASE Work(c)
      <4>1. /\ \A w : Doing(c, w)' => w \in {"offer", "verify", "stopRun"}
            /\ Ending(c)' => Ending(c)
        BY <3>3, WorkWords, WordDone
      <4>2. UNCHANGED <<run>>
        BY <3>3 DEF Work, vars
      <4>3. CASE Doing(c, "startRun")
        <5>1. StartRun(held[c]) /\ started' = [started EXCEPT ![c] = TRUE] /\ hop[c] = "hold"
          BY <2>3, <3>3, <4>3, WorkWords DEF Doing
        <5>2. lastRun' = replyID /\ origin[c] = c
          BY <3>0, <4>3, <5>1 DEF StartRun, WorkOK
        <5>. QED  BY <2>0, <3>0, <5>1, <5>2 DEF RunOf
      <4>4. CASE ~Doing(c, "startRun")
        <5>1. UNCHANGED lastRun /\ (started'[c] => started[c])
          BY <3>3, <4>4, WorkWords, ZenonT(60) DEF CountModelCall, SetReason, StopRun
        <5>. QED  BY <2>0, <2>1, <3>0, <4>1, <4>2, <4>4, <5>1 DEF RunOf, StartDue
      <4>. QED  BY <4>3, <4>4
    <3>4. CASE Offer(c)
      <4>1. todo[c] # << >> /\ todo' = [todo EXCEPT ![c] = Tail(@)] /\ Doing(c, "offer")
            /\ UNCHANGED <<run, started, lastRun>>
        BY <3>4 DEF Offer, HookOffer, Doing, limits, loopVars
      <4>2. /\ \A w : Doing(c, w)' => w \in {"offer", "verify", "stopRun"}
            /\ Ending(c)' => Ending(c)
        BY <4>1, WordDone
      <4>. QED  BY <2>0, <2>1, <3>0, <4>1, <4>2 DEF RunOf, StartDue, Doing
    <3>5. CASE EventsEnd(c)
      <4>1. /\ run[c] # "send" /\ todo[c] = << >> /\ UNCHANGED <<started, lastRun>>
            /\ todo'[c] = IF started[c] THEN <<"stopRun">> ELSE << >>
        BY <3>5 DEF EventsEnd, HookDrained, HopTo, LockOK, WorkOK, limits, loopVars
      <4>2. started[c] => origin[c] = c
        BY DEF WorkOK
      <4>3. Ending(c)' => started[c]
        BY <4>1, Tails DEF Ending
      <4>. QED  BY <2>0, <2>1, <3>0, <4>1, <4>2, <4>3 DEF RunOf, StartDue, Doing
    <3>6. CASE WorkDone(c)
      BY <2>0, <2>1, <3>0, <3>6
         DEF WorkDone, HookBack, HookDone, HopTo, hookVars, limits, loopVars, RunOf, StartDue,
             Ending, Doing
    <3>. QED  BY <1>12, <3>2, <3>3, <3>4, <3>5, <3>6 DEF Hook
  <2>. QED  BY <2>2, <2>3
<1>14. CASE UNCHANGED limitedVars
  BY <1>14 DEF limitedVars, vars, limits, loopVars, replyVars, hookVars, RunOf, StartDue, Ending,
     Doing
<1>. QED
  BY <1>1, <1>4, <1>5, <1>7, <1>8, <1>9, <1>10, <1>11, <1>12, <1>14
     DEF LimitedNext, Goroutine, Reply

-------------------------------------------------------------------------------
(* The model calls of a reply. *)

\* Reply r has made at most k model calls more than the policy allows.
Within(r, k) ==
  /\ policy.iterations > 0 => spent[r] <= policy.iterations + k
  /\ policy.calls > 0 => spent[r] <= policy.calls + k

\* What the runtime has counted of the reply of c, once its run has been started: the
\* model calls but one that is on its way, and as many passes but for the first, which
\* may have begun before the run; a reply that may make another call is within the
\* policy.
CountOf(c) ==
  /\ MayCall(c) => Within(replyID, 0)
  /\ StartDue(c) => spent[replyID] = IF phase[c] = "called" THEN 1 ELSE 0
  /\ ~StartDue(c) =>
       /\ spent[replyID] <= loop.iteration + 1
       /\ phase[c] = "model" => spent[replyID] <= loop.iteration
       /\ CountDue(c) => spent[replyID] = loop.calls + 1
       /\ ~CountDue(c) => spent[replyID] = loop.calls

\* The same of the reply which may be resumed.
CountOfPending ==
  /\ Within(pending, 0)
  /\ (\A c \in Callers : ~Live(c)) =>
       spent[pending] = loop.calls /\ spent[pending] <= loop.iteration + 1

CountOK ==
  Calm /\ middleware = "loop" =>
    /\ \A r \in Replies : /\ origin[r] # r => spent[r] = 0
                          /\ Unbroken(r) => Within(r, 1)
    /\ pending # NoReply /\ Unbroken(pending) => CountOfPending
    /\ \A c \in Callers : Live(c) /\ Unbroken(replyID) => CountOf(c)

LEMMA CountInit == LimitedInit => CountOK
<1>. SUFFICES ASSUME LimitedInit PROVE CountOK
  OBVIOUS
<1>1. pc = [c \in Callers |-> "idle"] /\ spent = [r \in Replies |-> 0] /\ pending = NoReply
  BY DEF LimitedInit, Init
<1>2. policy.iterations \in Nat /\ policy.calls \in Nat
  BY LimitedTypesInit DEF LimitedTypes
<1>3. \A r \in Replies : spent[r] = 0 /\ Within(r, 1)
  <2>. SUFFICES ASSUME NEW r \in Replies PROVE spent[r] = 0 /\ Within(r, 1)
    OBVIOUS
  <2>1. spent[r] = 0
    BY <1>1
  <2>2. 0 <= policy.iterations + 1 /\ 0 <= policy.calls + 1
    BY <1>2
  <2>. QED  BY <2>1, <2>2 DEF Within
<1>. QED  BY <1>1, <1>3 DEF CountOK, Live

\* A call keeps its reply, and a reply that is unbroken has always been.
LEMMA OriginStays ==
  ASSUME TypeOK, LockOK, LimitedTypes, AloneOK, IdsOK, WorkOK, Calm, [LimitedNext]_limitedVars
  PROVE  /\ \A d \in Callers : origin[d] # NoReply => origin'[d] = origin[d]
         /\ \A d \in Callers : outcome[d] = "error" => outcome'[d] = "error"
         /\ \A r \in Replies : Unbroken(r)' => Unbroken(r)
<1>1. ASSUME NEW c \in Callers, Reply(c)
      PROVE  /\ \A d \in Callers : origin[d] # NoReply => origin'[d] = origin[d]
             /\ \A d \in Callers : outcome[d] = "error" => outcome'[d] = "error"
  <2>1. /\ \A d \in Callers \ {c} : UNCHANGED <<origin[d], outcome[d]>>
        /\ outcome[c] = "none"
    BY <1>1, ReplyFrame, HookFollows DEF Unmoved
  <2>2. origin[c] # NoReply => origin'[c] = origin[c]
    <3>1. origin'[c] = origin[c] \/ phase[c] = "input"
      BY <1>1 DEF Reply, StartReply, ResumeReply, Reason, CallModel, Answer, Act, Ask, EndReply,
                  ExceedIters, ReturnReply, replyVars
    <3>. QED  BY <3>1 DEF IdsOK
  <2>. QED  BY <2>1, <2>2
<1>2. ASSUME NEW c \in Callers, Hook(c)  PROVE UNCHANGED <<origin, outcome>>
  BY <1>2, HookFrame DEF replyVars
<1>3. ASSUME NEW c \in Callers, Environment(c) \/ Caller(c)
      PROVE  /\ UNCHANGED origin
             /\ \A d \in Callers : outcome[d] = "error" => outcome'[d] = "error"
  BY <1>3, CallerFrame DEF Unmoved, replyVars
<1>4. CASE UNCHANGED limitedVars
  BY <1>4 DEF limitedVars, vars, replyVars, Unbroken
<1>5. /\ \A d \in Callers : origin[d] # NoReply => origin'[d] = origin[d]
      /\ \A d \in Callers : outcome[d] = "error" => outcome'[d] = "error"
  BY <1>1, <1>2, <1>3, <1>4 DEF LimitedNext, Goroutine, limitedVars, vars, replyVars
<1>. QED  BY <1>5, NoReplyAssumption DEF Unbroken

\* What a step can change of the counts that are kept for each reply: the calls of the
\* reply of c.
LEMMA PolicyStays ==
  ASSUME [LimitedNext]_limitedVars
  PROVE  UNCHANGED policy
BY ZenonT(60) DEF LimitedNext, limitedVars, limits, loopVars, Environment, Goroutine, Caller, Aside,
       Reply, Hook, StartReply, ResumeReply, Reason, CallModel, Answer, Act, Ask, EndReply,
       ExceedIters, ReturnReply, TakeEvent, Work, Offer, EventsEnd, WorkDone, StartRun,
       CountModelCall, SetReason, RecordVerification, StopRun, BeginReasoning

LEMMA CountNext ==
  ASSUME TypeOK, LockOK, LimitedTypes, AloneOK, IdsOK, WorkOK, FlowOK, RunOK, CountOK,
         [LimitedNext]_limitedVars
  PROVE  CountOK'
<1>. SUFFICES ASSUME Calm', middleware' = "loop" PROVE CountOK'
  BY DEF CountOK
<1>0. /\ Calm /\ hooks = "relay" /\ UNCHANGED <<hooks, middleware, maxIters, faults>>
      /\ middleware = "loop"
  BY SettingsStay DEF Calm, LimitedTypes
<1>a. /\ UNCHANGED policy /\ policy.iterations \in Nat /\ policy.calls \in Nat
      /\ loop.iteration \in Nat /\ loop.calls \in Nat
  BY PolicyStays DEF LimitedTypes, Counters
<1>b. /\ \A d \in Callers : origin[d] # NoReply => origin'[d] = origin[d]
      /\ \A d \in Callers : outcome[d] = "error" => outcome'[d] = "error"
      /\ \A r \in Replies : Unbroken(r)' => Unbroken(r)
  BY <1>0, OriginStays
<1>c. \A r \in Replies : spent[r] \in Nat
  BY DEF LimitedTypes
<1>d. \A r \in Replies : origin'[r] # r => origin[r] # r
  BY <1>b, NoReplyAssumption
<1>. USE <1>0, <1>a DEF TypeOK, LimitedTypes, Live, CountOK
\* A step that makes no model call.
<1>1. ASSUME UNCHANGED spent
      PROVE  /\ \A r \in Replies : /\ origin'[r] # r => spent'[r] = 0
                                   /\ Unbroken(r)' => Within(r, 1)'
             /\ Within(pending, 0) /\ UNCHANGED pending => Within(pending, 0)'
  <2>1. \A r \in Replies : Within(r, 1)' <=> Within(r, 1)
    BY <1>1 DEF Within
  <2>. QED  BY <1>1, <1>b, <1>d, <2>1 DEF Within
\* The counts of a live reply do not change when the reply goes on to another phase.
<1>2. ASSUME NEW c \in Callers, CountOf(c), UNCHANGED <<spent, loop, replyID>>,
             StartDue(c)' <=> StartDue(c), CountDue(c)' <=> CountDue(c),
             phase'[c] = phase[c] \/ (phase[c] # "called" /\ phase'[c] \notin {"called", "model"})
               \/ (phase[c] = "called" /\ ~StartDue(c) /\ phase'[c] # "model"),
             MayCall(c)' => MayCall(c)
      PROVE  CountOf(c)'
  <2>1. MayCall(c)' => Within(replyID, 0)'
    BY <1>2 DEF CountOf, Within
  <2>. QED  BY <1>2, <2>1 DEF CountOf
<1>3. ASSUME NEW c \in Callers, Reply(c)
      PROVE  /\ pc[c] = "range" /\ run[c] \in {"step", "send"} /\ outcome[c] = "none"
             /\ UNCHANGED pc /\ \A d \in Callers \ {c} : pc[d] # "range"
             /\ phase[c] # "input" =>
                  /\ FlowOf(c) /\ origin[c] = replyID /\ replyID \in Replies
                  /\ phase[c] \in Phases \ {"input"}
                  /\ Unbroken(replyID) => CountOf(c)
                  /\ Unbroken(replyID)' => Unbroken(replyID)
  <2>1. /\ pc[c] = "range" /\ run[c] \in {"step", "send"} /\ outcome[c] = "none"
        /\ UNCHANGED pc /\ \A d \in Callers \ {c} : pc[d] # "range"
    BY <1>3, ReplyFrame, HookFollows, ZenonT(60)
  <2>2. ASSUME phase[c] # "input"
        PROVE  FlowOf(c) /\ origin[c] = replyID /\ replyID \in Replies
    BY <2>1, <2>2, NoReplyAssumption DEF FlowOK, IdsOK
  <2>3. phase[c] # "input" => (Unbroken(replyID) => CountOf(c)) /\ phase[c] \in Phases \ {"input"}
    BY <2>1
  <2>4. phase[c] # "input" => (Unbroken(replyID)' => Unbroken(replyID))
    <3>1. Unbroken(replyID)' <=> \A d \in Callers : origin'[d] = replyID' => outcome'[d] # "error"
      BY DEF Unbroken
    <3>2. phase[c] # "input" => UNCHANGED replyID
      BY <1>3 DEF Reply, StartReply, ResumeReply, Reason, CallModel, Answer, Act, Ask, EndReply,
                  ExceedIters, ReturnReply, replyVars
    <3>. QED  BY <1>b, <2>2, <3>1, <3>2 DEF Unbroken
  <2>. QED  BY <2>1, <2>2, <2>3, <2>4
<1>4. ASSUME NEW c \in Callers, Reply(c), UNCHANGED spent,
             pending' # NoReply /\ Unbroken(pending)' => CountOfPending',
             phase'[c] # "input" /\ Unbroken(replyID)' => CountOf(c)'
      PROVE  CountOK'
  <2>1. \A d \in Callers \ {c} : pc'[d] # "range"
    BY <1>3, <1>4
  <2>. QED  BY <1>1, <1>4, <2>1
<1>5. ASSUME NEW c \in Callers, StartReply(c)  PROVE CountOK'
  <2>1. /\ pending' = NoReply /\ replyID' = c /\ UNCHANGED <<spent, loop, barred, todo>>
        /\ run'[c] = "send" /\ sending'[c].kind = "start" /\ phase'[c] = "top"
    BY <1>5 DEF StartReply, Send, Apply, limits, loopVars, hookVars
  <2>2. spent'[c] = 0
    <3>1. origin[c] # c
      BY <1>5, NoReplyAssumption DEF StartReply, IdsOK
    <3>. QED  BY <2>1, <3>1
  <2>3. Within(replyID, 0)'
    BY <2>1, <2>2 DEF Within
  <2>4. CountOf(c)'
    BY <2>1, <2>2, <2>3 DEF CountOf, StartDue
  <2>. QED  BY <1>4, <1>5, <2>1, <2>4 DEF Reply
<1>6. ASSUME NEW c \in Callers, ResumeReply(c)  PROVE CountOK'
  <2>1. /\ pending # NoReply /\ replyID' = pending
        /\ UNCHANGED <<spent, loop, todo, run, sending, pending>> /\ run[c] = "step"
        /\ phase[c] = "input" /\ phase'[c] = "top"
    BY <1>6 DEF ResumeReply, vars, limits, loopVars, hookVars
  <2>2. todo[c] = << >> /\ sending[c].kind = "none"
    BY <1>6, <2>1, HookFollows DEF IdsOK
  <2>3. \A d \in Callers : ~Live(d)
    BY <1>3, <1>6, <2>1 DEF Reply
  <2>4. pending \in Replies /\ (Unbroken(pending)' => CountOfPending)
    BY <1>b, <2>1
  <2>5. ASSUME Unbroken(pending)'
        PROVE  CountOfPending' /\ CountOf(c)'
    <3>1. Within(pending, 0) /\ spent[pending] = loop.calls /\ spent[pending] <= loop.iteration + 1
      BY <2>3, <2>4, <2>5 DEF CountOfPending
    <3>2. Within(pending, 0)'
      BY <2>1, <3>1 DEF Within
    <3>3. ~StartDue(c)' /\ ~CountDue(c)'
      BY <2>1, <2>2 DEF StartDue, CountDue, Doing
    <3>4. Within(replyID, 0)'
      BY <2>1, <3>2 DEF Within
    <3>. QED  BY <2>1, <3>1, <3>2, <3>3, <3>4 DEF CountOf, CountOfPending
  <2>6. Unbroken(replyID)' <=> Unbroken(pending)'
    BY <2>1 DEF Unbroken
  <2>. QED  BY <1>4, <1>6, <2>1, <2>5, <2>6 DEF Reply
<1>7. ASSUME NEW c \in Callers, Reason(c)  PROVE CountOK'
  <2>1. /\ phase[c] = "top" /\ run[c] = "step" /\ run'[c] = "send" /\ sending'[c].kind = "pass"
        /\ phase'[c] = "model" /\ UNCHANGED <<spent, todo, replyID, pending>> /\ pending # replyID
    BY <1>7 DEF Reason, Send, Apply, hookVars
  <2>2. loop'.iteration = loop.iteration + 1 /\ loop'.calls = loop.calls
    BY <1>7, LoopCounts DEF Reason
  <2>3. pending' = NoReply
    BY <2>1 DEF IdsOK
  <2>4. ASSUME Unbroken(replyID)'  PROVE CountOf(c)'
    <3>1. CountOf(c) /\ replyID \in Replies
      BY <1>3, <1>7, <2>1, <2>4 DEF Reply
    <3>2. /\ StartDue(c)' <=> StartDue(c)
          /\ CountDue(c)' <=> CountDue(c)
      BY <2>1 DEF StartDue, CountDue, Doing
    <3>3. Within(replyID, 0)'
      BY <2>1, <3>1 DEF CountOf, MayCall, Within
    <3>. QED  BY <1>c, <2>1, <2>2, <3>1, <3>2, <3>3 DEF CountOf
  <2>. QED  BY <1>4, <1>7, <2>1, <2>3, <2>4 DEF Reply
<1>8. ASSUME NEW c \in Callers, CallModel(c)  PROVE CountOK'
  <2>1. /\ phase[c] = "model" /\ phase'[c] = "called" /\ barred'[c] = Barred
        /\ UNCHANGED <<run, sending, todo, loop, replyID, pending, origin, outcome>>
        /\ spent' = [spent EXCEPT ![replyID] = @ + 1]
    BY <1>3, <1>8, ZenonT(60) DEF Reply, CallModel, vars, limits, loopVars, hookVars
  <2>2. /\ FlowOf(c) /\ replyID \in Replies /\ phase[c] \in Phases \ {"input"}
        /\ Unbroken(replyID) => CountOf(c)
        /\ origin[c] = replyID /\ \A d \in Callers \ {c} : pc'[d] # "range"
    BY <1>3, <1>8, <2>1 DEF Reply
  <2>3. /\ spent'[replyID] = spent[replyID] + 1
        /\ \A r \in Replies \ {replyID} : spent'[r] = spent[r]
        /\ spent[replyID] \in Nat
    BY <2>1, <2>2
  <2>4. pending' = NoReply
    BY <2>1, <2>2 DEF FlowOf, IdsOK
  <2>5. origin[replyID] = replyID
    BY <2>2, NoReplyAssumption DEF IdsOK
  <2>6. ASSUME Unbroken(replyID)
        PROVE  Within(replyID, 1)' /\ CountOf(c)'
    <3>1. CountOf(c) /\ Within(replyID, 0)
      BY <2>1, <2>2, <2>6 DEF CountOf, MayCall
    <3>2. Within(replyID, 1)'
      BY <2>1, <2>3, <3>1 DEF Within
    <3>3. StartDue(c)' <=> StartDue(c)
      BY <2>1 DEF StartDue, Doing
    <3>4. CountDue(c)' /\ ~CountDue(c)
      BY <2>1, <2>2, FlowCounts DEF CountDue
    <3>5. CASE StartDue(c)
      <4>1. spent[replyID] = 0
        BY <2>1, <3>1, <3>5 DEF CountOf
      <4>2. MayCall(c)' => Within(replyID, 0)'
        <5>1. (policy.iterations > 0 => 0 + 1 <= policy.iterations)
                /\ (policy.calls > 0 => 0 + 1 <= policy.calls)
          OBVIOUS
        <5>. QED  BY <2>1, <2>3, <4>1, <5>1 DEF Within
      <4>3. StartDue(c)' /\ spent'[replyID'] = 1 /\ phase'[c] = "called"
        BY <2>1, <2>3, <3>3, <3>5, <4>1
      <4>. QED  BY <3>2, <4>2, <4>3 DEF CountOf
    <3>6. CASE ~StartDue(c)
      <4>1. spent[replyID] = loop.calls /\ spent[replyID] <= loop.iteration
        BY <2>1, <3>1, <3>4, <3>6 DEF CountOf
      <4>2. ASSUME MayCall(c)'  PROVE Within(replyID, 0)'
        <5>1. ~LoopExceeded
          BY <2>1, <4>2 DEF MayCall, Barred
        <5>2. /\ policy.iterations > 0 => loop.iteration < policy.iterations
              /\ policy.calls > 0 => loop.calls < policy.calls
          BY <5>1 DEF LoopExceeded, ExceededBy
        <5>. QED  BY <2>1, <2>3, <4>1, <5>2 DEF Within
      <4>3. /\ ~StartDue(c)' /\ CountDue(c)' /\ phase'[c] # "model"
            /\ spent'[replyID'] = loop'.calls + 1 /\ spent'[replyID'] <= loop'.iteration + 1
        BY <2>1, <2>3, <3>3, <3>4, <3>6, <4>1
      <4>. QED  BY <3>2, <4>2, <4>3 DEF CountOf
    <3>. QED  BY <3>2, <3>5, <3>6
  <2>7. Unbroken(replyID)' <=> Unbroken(replyID)
    BY <2>1 DEF Unbroken
  <2>8. ASSUME NEW r \in Replies
        PROVE  (origin'[r] # r => spent'[r] = 0) /\ (Unbroken(r)' => Within(r, 1)')
    <3>1. CASE r = replyID
      BY <2>1, <2>5, <2>6, <2>7, <3>1 DEF Within, Unbroken
    <3>2. CASE r # replyID
      <4>1. Within(r, 1)' <=> Within(r, 1)
        BY <2>3, <3>2 DEF Within
      <4>. QED  BY <1>b, <1>d, <2>3, <3>2, <4>1
    <3>. QED  BY <3>1, <3>2
  <2>. QED  BY <2>2, <2>4, <2>6, <2>7, <2>8
<1>9. ASSUME NEW c \in Callers, Answer(c)  PROVE CountOK'
  <2>1. /\ phase[c] = "called" /\ run[c] = "step" /\ run'[c] = "send" /\ sending'[c].kind = "called"
        /\ UNCHANGED <<spent, loop, todo, replyID, barred, origin, outcome>>
    BY <1>9 DEF Answer, Send, Apply, hookVars, limits, loopVars
  <2>2. \/ phase'[c] = "answered" /\ UNCHANGED pending
        \/ phase'[c] = "act" /\ ~barred[c] /\ pending' = replyID
    BY <1>9, ZenonT(60) DEF Answer, Send
  <2>3. /\ FlowOf(c) /\ replyID \in Replies /\ phase[c] \in Phases \ {"input"} /\ pc'[c] = "range"
        /\ Unbroken(replyID)' => CountOf(c)
    BY <1>3, <1>9, <2>1 DEF Reply
  <2>4. /\ ~StartDue(c) /\ ~StartDue(c)'
        /\ CountDue(c) /\ CountDue(c)'
        /\ MayCall(c)' => MayCall(c)
    <3>1. ~Doing(c, "startRun")
      BY <2>1, <2>3, FlowCounts
    <3>. QED  BY <2>1, <2>2, <3>1 DEF StartDue, CountDue, MayCall, Doing
  <2>5. Unbroken(replyID)' => CountOf(c)'
    BY <1>2, <2>1, <2>2, <2>3, <2>4
  <2>6. pending # replyID => pending = NoReply
    BY DEF IdsOK
  <2>7. ASSUME pending' # NoReply, Unbroken(pending)'  PROVE CountOfPending'
    <3>1. pending' = replyID /\ ~barred[c]
      BY <2>1, <2>2, <2>3, <2>6, <2>7 DEF FlowOf
    <3>2. CountOf(c) /\ MayCall(c)
      BY <2>1, <2>3, <2>7, <3>1 DEF MayCall, Unbroken
    <3>3. Within(pending, 0)'
      BY <2>1, <3>1, <3>2 DEF Within, CountOf
    <3>4. ~ \A d \in Callers : ~Live(d)'
      BY <2>2, <2>3
    <3>. QED  BY <3>3, <3>4 DEF CountOfPending
  <2>. QED  BY <1>4, <1>9, <2>1, <2>5, <2>7 DEF Reply
<1>10. ASSUME NEW c \in Callers, Act(c) \/ Ask(c) \/ EndReply(c) \/ ExceedIters(c)  PROVE CountOK'
  <2>1. /\ phase[c] \notin {"input", "model", "called"}
             /\ phase'[c] \notin {"input", "model", "called"}
        /\ run[c] = "step" /\ run'[c] = "send" /\ sending'[c].kind \notin {"start", "called"}
        /\ UNCHANGED <<spent, loop, todo, replyID, barred, origin, outcome>>
        /\ pending' \in {pending, NoReply}
    BY <1>10 DEF Act, Ask, EndReply, ExceedIters, Acting, Send, Apply, hookVars, limits, loopVars
  <2>2. MayCall(c)' => MayCall(c)
    BY <1>10, <2>1 DEF Act, Ask, EndReply, ExceedIters, Acting, Send, MayCall
  <2>3. /\ StartDue(c)' <=> StartDue(c)
        /\ CountDue(c)' <=> CountDue(c)
    BY <2>1 DEF StartDue, CountDue, Doing
  <2>4. Unbroken(replyID)' => CountOf(c)'
    <3>1. Unbroken(replyID)' => CountOf(c)
      BY <1>3, <1>10, <2>1 DEF Reply
    <3>. QED  BY <1>2, <2>1, <2>2, <2>3, <3>1
  <2>5. ASSUME pending' # NoReply, Unbroken(pending)'  PROVE CountOfPending'
    <3>1. pending' = pending /\ CountOfPending
      BY <2>1, <2>5 DEF Unbroken
    <3>2. pc'[c] = "range"
      BY <1>3, <1>10 DEF Reply
    <3>3. ~ \A d \in Callers : ~Live(d)'
      BY <2>1, <3>2
    <3>. QED  BY <1>1, <2>1, <3>1, <3>3 DEF CountOfPending
  <2>. QED  BY <1>4, <1>10, <2>1, <2>4, <2>5 DEF Reply
<1>11. ASSUME NEW c \in Callers, ReturnReply(c)  PROVE CountOK'
  <2>1. /\ run[c] = "step" /\ run'[c] # "send"
        /\ UNCHANGED <<spent, loop, phase, sending, todo, replyID, pending, barred, origin>>
        /\ (outcome'[c] # "error" => phase[c] = "over")
    BY <1>11 DEF ReturnReply, End, Finish, limits, loopVars, replyVars, hookVars
  <2>2. /\ StartDue(c)' <=> StartDue(c)
        /\ CountDue(c)' <=> CountDue(c)
        /\ MayCall(c)' <=> MayCall(c)
    BY <2>1 DEF StartDue, CountDue, MayCall, Doing
  <2>3. phase'[c] # "input" /\ Unbroken(replyID)' => CountOf(c)'
    <3>1. phase[c] # "input" /\ Unbroken(replyID)' => CountOf(c)
      BY <1>3, <1>11, <2>1 DEF Reply
    <3>. QED  BY <1>2, <2>1, <2>2, <3>1
  <2>4. ASSUME pending' # NoReply, Unbroken(pending)'  PROVE CountOfPending'
    <3>1. CountOfPending /\ (\A d \in Callers : Live(d)' <=> Live(d))
      BY <1>3, <1>11, <1>b, <2>1, <2>4, SMTT(60) DEF Reply, Unbroken
    <3>. QED  BY <1>1, <2>1, <3>1 DEF CountOfPending
  <2>. QED  BY <1>4, <1>11, <2>1, <2>3, <2>4 DEF Reply
<1>12. ASSUME NEW c \in Callers, Environment(c) \/ Caller(c)  PROVE CountOK'
  <2>1. /\ UNCHANGED <<spent, loop, phase, sending, todo, replyID, pending, barred, origin>>
        /\ \A d \in Callers \ {c} : Unmoved(d)
    BY <1>12, CallerFrame DEF limits, loopVars, replyVars, hookVars
  <2>2. ASSUME NEW r \in Replies  PROVE Unbroken(r)' => Unbroken(r)
    BY <1>b
  <2>3. ASSUME NEW d \in Callers, Live(d)', Unbroken(replyID)'
        PROVE  CountOf(d)'
    <3>1. replyID \in Replies /\ Unbroken(replyID)
      <4>1. pc[d] = "range" \/ pc[d] = "idle"
        BY <1>12, <2>1, <2>3, CallerFrame DEF Unmoved, AloneOK
      <4>2. Live(d) /\ origin[d] # NoReply
        BY <2>1, <2>3, <4>1 DEF IdsOK, AloneOK
      <4>3. replyID \in Replies
        BY <4>2 DEF IdsOK
      <4>. QED  BY <1>b, <2>1, <2>3, <4>3 DEF Unbroken
    <3>2. CASE UNCHANGED <<pc[d], run[d], outcome[d]>>
      <4>1. CountOf(d)
        BY <2>1, <2>3, <3>1, <3>2
      <4>2. /\ StartDue(d)' <=> StartDue(d)
            /\ CountDue(d)' <=> CountDue(d)
            /\ MayCall(d)' <=> MayCall(d)
        BY <2>1, <3>2 DEF StartDue, CountDue, MayCall, Doing
      <4>. QED  BY <1>2, <2>1, <4>1, <4>2
    <3>3. CASE d = c /\ UNCHANGED pc[d] /\ outcome'[d] = "error"
      <4>1. origin'[d] = replyID'
        BY <2>1, <2>3, <3>3 DEF IdsOK
      <4>. QED  BY <2>3, <3>3, <4>1 DEF Unbroken
    <3>4. CASE /\ d = c /\ UNCHANGED <<pc[d], outcome[d]>>
               /\ run[d] \in {"errs", "close"} /\ run'[d] \in {"close", "done"}
      <4>1. CountOf(d)
        BY <2>1, <2>3, <3>1, <3>4
      <4>2. /\ StartDue(d)' <=> StartDue(d)
            /\ CountDue(d)' <=> CountDue(d)
            /\ MayCall(d)' <=> MayCall(d)
        BY <2>1, <3>4 DEF StartDue, CountDue, MayCall, Doing
      <4>. QED  BY <1>2, <2>1, <4>1, <4>2
    <3>. QED  BY <1>12, <2>1, <2>3, <3>2, <3>3, <3>4, CallerFrame DEF Unmoved
  <2>4. ASSUME pending' # NoReply, Unbroken(pending)'  PROVE CountOfPending'
    <3>1. CountOfPending /\ pending \in Replies /\ pending = replyID
      BY <2>1, <2>2, <2>4, SMTT(60) DEF Unbroken, IdsOK
    <3>2. Within(pending, 0)'
      BY <1>1, <2>1, <3>1 DEF CountOfPending
    <3>3. CASE \A d \in Callers : ~Live(d)
      BY <2>1, <3>1, <3>2, <3>3 DEF CountOfPending
    <3>4. ASSUME NEW d \in Callers, Live(d), \A e \in Callers : ~Live(e)'
          PROVE  spent[pending] = loop.calls /\ spent[pending] <= loop.iteration + 1
      <4>1. d = c /\ RangeEnds(c)
        <5>1. d = c /\ pc'[c] # "range"
          BY <2>1, <3>4, SMTT(60) DEF Unmoved
        <5>. QED
          BY <1>12, <3>4, <5>1
             DEF Environment, Caller, Lock, Cancel, Observe, Emit, EmitInline, Deliver,
                 EmitCancelled, Finish, PutErr, Close, AloneOK
      <4>2. outcome[c] # "error" /\ origin[c] = replyID
        BY <1>b, <2>1, <2>4, <3>1, <3>4, <4>1, SMTT(60) DEF Unbroken, IdsOK
      <4>3. FlowOf(c) /\ CountOf(c)
        BY <2>1, <2>2, <2>4, <3>1, <3>4, <4>1, <4>2, SMTT(60) DEF FlowOK, Unbroken
      <4>4. hop[c] = "done" /\ run[c] = "done" /\ todo[c] = << >>
        BY <4>1 DEF RangeEnds, LockOK, WorkOK
      <4>5. phase[c] = "over"
        BY <4>3, <4>4 DEF FlowOf
      <4>6. ~StartDue(c) /\ ~CountDue(c)
        BY <4>4, <4>5 DEF StartDue, CountDue, Doing
      <4>. QED  BY <3>1, <4>3, <4>6 DEF CountOf
    <3>. QED  BY <2>1, <3>2, <3>3, <3>4 DEF CountOfPending
  <2>. QED  BY <1>1, <2>1, <2>3, <2>4
<1>13. ASSUME NEW c \in Callers, Hook(c)
       PROVE  /\ pc[c] = "range" /\ \A d \in Callers \ {c} : pc[d] # "range"
              /\ UNCHANGED <<pc, outcome, phase, sending, origin, pending, replyID, barred, spent>>
              /\ \A r \in Replies \cup {NoReply} : Unbroken(r)' <=> Unbroken(r)
  BY <1>13, HookFrame DEF replyVars, Unbroken
\* A step of the hook that leaves what has been counted.
<1>14. ASSUME NEW c \in Callers, Hook(c), loop'.calls = loop.calls,
              loop'.iteration = loop.iteration,
              phase[c] # "input" => /\ StartDue(c)' <=> StartDue(c)
                                    /\ CountDue(c)' <=> CountDue(c)
       PROVE  CountOK'
  <2>1. /\ Within(pending, 0)' <=> Within(pending, 0)
        /\ Within(replyID, 0)' <=> Within(replyID, 0)
        /\ MayCall(c)' <=> MayCall(c)
    BY <1>13, <1>14 DEF Within, MayCall
  <2>2. /\ Unbroken(pending)' <=> Unbroken(pending)
        /\ Unbroken(replyID)' <=> Unbroken(replyID)
    BY <1>13, <1>14 DEF Unbroken
  <2>3. \A d \in Callers : Live(d)' <=> Live(d)
    BY <1>13, <1>14
  <2>4. pending' # NoReply /\ Unbroken(pending)' => CountOfPending'
    BY <1>13, <1>14, <2>1, <2>2, <2>3 DEF CountOfPending
  <2>5. ASSUME NEW d \in Callers, Live(d)', Unbroken(replyID)'  PROVE CountOf(d)'
    <3>1. d = c /\ phase[c] # "input" /\ CountOf(c)
      BY <1>13, <1>14, <2>2, <2>3, <2>5
    <3>. QED  BY <1>13, <1>14, <2>1, <3>1 DEF CountOf
  <2>. QED  BY <1>1, <1>13, <1>14, <2>4, <2>5
<1>16. ASSUME NEW c \in Callers, TakeEvent(c)  PROVE CountOK'
  <2>1. /\ run[c] = "send" /\ run'[c] = "step" /\ todo[c] = << >>
             /\ UNCHANGED <<loop, phase, sending>>
        /\ todo'[c] = EventWork(sending[c].kind) /\ sending[c].kind \in Kinds
    BY <1>16 DEF TakeEvent, HookTake, HopTo, EventWork, WorkOK, limits, loopVars, replyVars
  <2>2. EventWork(sending[c].kind) # << >> /\ Head(EventWork(sending[c].kind)) =
              CASE sending[c].kind = "start"    -> "startRun"
                [] sending[c].kind = "called"   -> "count"
                [] sending[c].kind = "asked"    -> "waiting_user"
                [] sending[c].kind = "exceeded" -> "max_iterations"
                [] OTHER             -> "offer"
    BY <2>1, FirstWords
  <2>3. /\ Doing(c, "startRun")' <=> sending[c].kind = "start"
        /\ Doing(c, "count")' <=> sending[c].kind = "called"
        /\ ~Doing(c, "add")'
    BY <2>1, <2>2 DEF Doing
  <2>4. /\ StartDue(c)' <=> StartDue(c)
        /\ CountDue(c)' <=> CountDue(c)
    BY <2>1, <2>3 DEF StartDue, CountDue, Doing
  <2>. QED  BY <1>14, <1>16, <2>1, <2>4 DEF Hook
<1>17. ASSUME NEW c \in Callers, Offer(c)  PROVE CountOK'
  <2>1. /\ todo[c] # << >> /\ todo' = [todo EXCEPT ![c] = Tail(@)] /\ Head(todo[c]) = "offer"
        /\ UNCHANGED <<run, loop>>
    BY <1>17 DEF Offer, HookOffer, limits, loopVars
  <2>2. \A w \in {"count", "add", "startRun"} : ~Doing(c, w) /\ ~Doing(c, w)'
    BY <2>1, WordDone DEF Doing
  <2>3. /\ StartDue(c)' <=> StartDue(c)
        /\ CountDue(c)' <=> CountDue(c)
    BY <1>13, <1>17, <2>1, <2>2 DEF Hook, StartDue, CountDue
  <2>. QED  BY <1>14, <1>17, <2>1, <2>3 DEF Hook
<1>18. ASSUME NEW c \in Callers, EventsEnd(c)  PROVE CountOK'
  <2>1. /\ todo[c] = << >> /\ todo'[c] \in {<<"stopRun">>, << >>} /\ UNCHANGED <<run, loop>>
    BY <1>18 DEF EventsEnd, HookDrained, HopTo, WorkOK, limits, loopVars
  <2>2. \A w \in {"count", "add", "startRun"} : ~Doing(c, w) /\ ~Doing(c, w)'
    BY <2>1, Tails, SMTT(60) DEF Doing
  <2>3. /\ StartDue(c)' <=> StartDue(c)
        /\ CountDue(c)' <=> CountDue(c)
    BY <1>13, <1>18, <2>1, <2>2 DEF Hook, StartDue, CountDue
  <2>. QED  BY <1>14, <1>18, <2>1, <2>3 DEF Hook
<1>19. ASSUME NEW c \in Callers, WorkDone(c)  PROVE CountOK'
  <2>1. UNCHANGED <<run, loop, todo>>
    BY <1>19 DEF WorkDone, HookBack, HookDone, limits, loopVars, hookVars
  <2>2. /\ StartDue(c)' <=> StartDue(c)
        /\ CountDue(c)' <=> CountDue(c)
    BY <1>13, <1>19, <2>1 DEF Hook, StartDue, CountDue, Doing
  <2>. QED  BY <1>14, <1>19, <2>1, <2>2 DEF Hook
<1>20. ASSUME NEW c \in Callers, Work(c)  PROVE CountOK'
  <2>1. todo[c] # << >> /\ todo' = [todo EXCEPT ![c] = Tail(@)] /\ UNCHANGED run
    BY <1>20 DEF Work, vars
  <2>2. \A w \in {"count", "add", "startRun"} : ~Doing(c, w)'
    BY <2>1, WordDone
  <2>3. \A w, v : Doing(c, w) /\ Doing(c, v) => v = w
    BY DEF Doing
  <2>4. ~Doing(c, "add")
    BY <1>20, <2>3, WorkWords
  <2>5. phase[c] # "input" /\ outcome[c] # "error" => FlowOf(c) /\ phase[c] \in Phases \ {"input"}
    BY <1>13, <1>20 DEF Hook, FlowOK
  <2>6. CASE ~Doing(c, "startRun") /\ ~Doing(c, "count")
    <3>1. loop'.calls = loop.calls /\ loop'.iteration = loop.iteration
      <4>1. {"waiting_user", "max_iterations"} \subseteq Reasons /\ local[c] \in Reasons \ {"none"}
        BY DEF Reasons
      <4>. QED  BY <1>20, <2>6, <4>1, WorkWords, LoopCounts, SMTT(60)
    <3>2. /\ StartDue(c)' <=> StartDue(c)
          /\ CountDue(c)' <=> CountDue(c)
      BY <1>13, <1>20, <2>1, <2>2, <2>4, <2>6 DEF Hook, StartDue, CountDue
    <3>. QED  BY <1>14, <1>20, <3>1, <3>2 DEF Hook
  <2>7. ASSUME Doing(c, "startRun") \/ Doing(c, "count"),
               Unbroken(replyID) => CountOf(c)'
        PROVE  CountOK'
    <3>1. phase[c] # "input"
      BY <2>7, NoReplyAssumption DEF Doing, WorkOK, IdsOK
    <3>. QED  BY <1>1, <1>13, <1>20, <2>7, <3>1 DEF Hook, CountOfPending, Unbroken
  <2>8. CASE Doing(c, "startRun") \/ Doing(c, "count")
    <3>1. SUFFICES ASSUME Unbroken(replyID)  PROVE CountOf(c)'
      BY <2>7, <2>8
    <3>2. phase[c] # "input"
      BY <2>8, NoReplyAssumption DEF Doing, WorkOK, IdsOK
    <3>3. outcome[c] # "error"
      BY <1>13, <1>20, <3>1, <3>2 DEF Hook, Unbroken, IdsOK
    <3>4. CountOf(c) /\ FlowOf(c) /\ phase[c] \in Phases \ {"input"}
      BY <1>13, <1>20, <2>5, <3>1, <3>2, <3>3 DEF Hook
    <3>5. Within(replyID, 0)' <=> Within(replyID, 0)
      BY <1>13, <1>20 DEF Hook, Within
    <3>6. MayCall(c)' <=> MayCall(c)
      BY <1>13, <1>20 DEF Hook, MayCall
    <3>7. ~(run[c] = "send" /\ sending[c].kind \in {"start", "called"})
      <4>1. phase[c] = "over" /\ run[c] = "send" => sending[c].kind \in {"ended", "exceeded"}
        BY <3>4 DEF FlowOf, AtSend
      <4>. QED  BY <2>8, <3>4, <4>1, FlowCounts
    <3>8. CASE Doing(c, "startRun")
      <4>1. loop' = Fresh
        BY <1>20, <2>3, <3>8, WorkWords, LoopCounts DEF StartRun
      <4>2. StartDue(c) /\ ~StartDue(c)' /\ (CountDue(c)' <=> phase'[c] = "called")
        BY <1>13, <1>20, <2>1, <2>2, <3>7, <3>8 DEF Hook, StartDue, CountDue
      <4>3. spent'[replyID'] = IF phase'[c] = "called" THEN 1 ELSE 0
        BY <1>13, <1>20, <3>4, <4>2 DEF Hook, CountOf
      <4>4. loop'.iteration = 0 /\ loop'.calls = 0
        BY <4>1 DEF Fresh
      <4>. QED  BY <3>4, <3>5, <3>6, <4>2, <4>3, <4>4 DEF CountOf
    <3>9. CASE Doing(c, "count")
      <4>1. loop'.iteration = loop.iteration /\ loop'.calls = loop.calls + 1
        BY <1>20, <2>3, <3>9, WorkWords, LoopCounts
      <4>2. ~StartDue(c) /\ ~StartDue(c)' /\ CountDue(c) /\ ~CountDue(c)'
        <5>1. phase[c] # "called"
          BY <3>4, <3>9, FlowCounts
        <5>. QED
          BY <1>13, <1>20, <2>1, <2>2, <2>3, <3>7, <3>9, <5>1 DEF Hook, StartDue, CountDue
      <4>. QED  BY <1>13, <1>20, <3>4, <3>5, <3>6, <4>1, <4>2 DEF Hook, CountOf
    <3>. QED  BY <2>8, <3>8, <3>9
  <2>. QED  BY <2>6, <2>8
<1>21. CASE UNCHANGED limitedVars
  <2>1. \A c \in Callers : /\ CountOf(c)' <=> CountOf(c)
                           /\ Live(c)' <=> Live(c)
    BY <1>21 DEF limitedVars, vars, limits, loopVars, replyVars, hookVars, CountOf, StartDue,
                 CountDue, MayCall, Within, Doing
  <2>2. /\ Unbroken(pending)' <=> Unbroken(pending)
        /\ Unbroken(replyID)' <=> Unbroken(replyID)
    BY <1>21 DEF limitedVars, vars, replyVars, Unbroken
  <2>3. CountOfPending' <=> CountOfPending
    BY <1>21 DEF limitedVars, vars, limits, loopVars, replyVars, Within, CountOfPending
  <2>. QED  BY <1>1, <1>21, <2>1, <2>2, <2>3 DEF limitedVars, replyVars
<1>. QED
  BY <1>5, <1>6, <1>7, <1>8, <1>9, <1>10, <1>11, <1>12, <1>16, <1>17, <1>18, <1>19, <1>20, <1>21
     DEF LimitedNext, Goroutine, Reply, Hook

-------------------------------------------------------------------------------
(* The events that stop a reply. *)

\* What the hook of c has still to do about a question, the end of the iterations and
\* the end of the reply, from the time the reply emits the event.
ToVerify == {<<"offer", "verify", "offer", "stopRun">>, <<"verify", "offer", "stopRun">>}

AskDue(c) == (run[c] = "send" /\ sending[c].kind = "asked") \/ Doing(c, "waiting_user")
ExceedDue(c) == (run[c] = "send" /\ sending[c].kind = "exceeded") \/ Doing(c, "max_iterations")
EndDue(c) == (run[c] = "send" /\ sending[c].kind = "ended") \/ todo[c] \in ToVerify

\* A reply that asks ends, and one that has used up its iterations does neither.
SawOf(c) ==
  /\ AskDue(c) => "asked" \in saw[c]
  /\ ExceedDue(c) => "exceeded" \in saw[c]
  /\ EndDue(c) => "ended" \in saw[c]
  /\ phase[c] \notin {"answered", "over"} =>
       "asked" \notin saw[c] /\ "ended" \notin saw[c] /\ "exceeded" \notin saw[c]
  /\ phase[c] = "answered" => "ended" \notin saw[c] /\ "exceeded" \notin saw[c]
  /\ phase[c] = "over" => /\ "exceeded" \in saw[c] <=> "ended" \notin saw[c]
                          /\ "exceeded" \in saw[c] => "asked" \notin saw[c]

SawOK == Calm /\ middleware = "loop" => \A c \in Callers : SawOf(c)

LEMMA MoreToDo ==
  \A s \in ToVerify : s # << >> /\ Tail(s) # << >> /\ Head(s) \in {"offer", "verify"}
<1>1. ASSUME NEW s, s = <<"offer", "verify", "offer", "stopRun">>
      PROVE  s # << >> /\ Tail(s) # << >> /\ Head(s) \in {"offer", "verify"}
  BY <1>1, Tails
<1>2. ASSUME NEW s, s = <<"verify", "offer", "stopRun">>
      PROVE  s # << >> /\ Tail(s) # << >> /\ Head(s) \in {"offer", "verify"}
  BY <1>2, Tails
<1>. QED  BY <1>1, <1>2 DEF ToVerify

\* The words that come up in the work for an event.
LEMMA EndWords ==
  ASSUME WorkOK, Calm, middleware = "loop", LimitedTypes,
         NEW c \in Callers, todo[c] # << >>, todo' = [todo EXCEPT ![c] = Tail(@)]
  PROVE  /\ todo'[c] \in ToVerify <=> todo[c] \in ToVerify /\ Head(todo[c]) = "offer"
         /\ Head(todo[c]) = "verify" => todo[c] \in ToVerify
<1>1. PICK kind \in Kinds : todo[c] \in Left(kind)
  BY DEF WorkOK
<1>2. todo'[c] = Tail(todo[c])
  BY DEF LimitedTypes
<1>3. CASE kind = "ended"
  <2>. USE <1>2, <1>3, Tails DEF ToVerify
  <2>1. CASE todo[c] = <<"offer", "verify", "offer", "stopRun">>
    BY <2>1
  <2>2. CASE todo[c] = <<"verify", "offer", "stopRun">>
    BY <2>2
  <2>3. CASE todo[c] = <<"offer", "stopRun">>
    BY <2>3
  <2>4. CASE todo[c] = <<"stopRun">>
    BY <2>4
  <2>. QED  BY <1>1, <2>1, <2>2, <2>3, <2>4 DEF Left
<1>4. CASE kind # "ended"
  <2>1. Head(todo[c]) # "verify" /\ (Head(todo[c]) # "offer" => todo[c] \notin ToVerify)
    BY <1>1, <1>4, LeftWords, Tails DEF ToVerify
  <2>2. Tail(todo[c]) \in {<<"offer">>, << >>}
    BY <1>1, <1>4, LeftNext
  <2>3. todo'[c] \notin ToVerify
    BY <1>2, <2>2, Tails, MoreToDo
  <2>4. Head(todo[c]) = "offer" => todo[c] \notin ToVerify
    <3>1. Head(todo[c]) = "offer" => Tail(todo[c]) = << >>
      BY <1>1, <1>4, LeftNext
    <3>. QED  BY <3>1, MoreToDo
  <2>. QED  BY <2>1, <2>3, <2>4
<1>. QED  BY <1>3, <1>4

\* The work for an event begins with its word, or is all to do.
LEMMA WorkBegins ==
  ASSUME Calm, middleware = "loop", NEW kind \in Kinds
  PROVE  /\ EventWork(kind) # << >>
         /\ Head(EventWork(kind)) = "startRun" <=> kind = "start"
         /\ Head(EventWork(kind)) = "count" <=> kind = "called"
         /\ Head(EventWork(kind)) = "waiting_user" <=> kind = "asked"
         /\ Head(EventWork(kind)) = "max_iterations" <=> kind = "exceeded"
         /\ EventWork(kind) \in ToVerify <=> kind = "ended"
<1>1. /\ EventWork(kind) # << >>
      /\ Head(EventWork(kind)) =
           CASE kind = "start"    -> "startRun"
             [] kind = "called"   -> "count"
             [] kind = "asked"    -> "waiting_user"
             [] kind = "exceeded" -> "max_iterations"
             [] OTHER             -> "offer"
  BY FirstWords
<1>2. kind = "ended" => EventWork(kind) \in ToVerify
  BY DEF EventWork, LoopWork, ToVerify
<1>3. kind # "ended" => EventWork(kind) \notin ToVerify
  <2>1. kind \in {"none", "pass"} => EventWork(kind) = <<"offer">>
    BY DEF EventWork, LoopWork
  <2>2. CASE kind \in {"none", "pass"}
    <3>1. Tail(EventWork(kind)) = << >>
      BY <2>1, <2>2, Tails
    <3>. QED  BY <3>1, MoreToDo
  <2>3. CASE kind \in {"start", "called", "asked", "exceeded"}
    <3>1. Head(EventWork(kind)) \notin {"offer", "verify"}
      BY <1>1, <2>3
    <3>. QED  BY <3>1, MoreToDo
  <2>. QED  BY <2>2, <2>3 DEF Kinds
<1>. QED  BY <1>1, <1>2, <1>3

\* Where a reply and its hook are when the hook is at one of these words.
LEMMA FlowWords ==
  ASSUME WorkOK, TypeOK, Calm, middleware = "loop",
         NEW c \in Callers, phase[c] \in Phases \ {"input"}, FlowOf(c)
  PROVE  /\ Doing(c, "waiting_user") =>
              \/ phase[c] = "answered" /\ run[c] = "step"
              \/ phase[c] = "over" /\ run[c] = "send" /\ sending[c].kind = "ended"
         /\ Doing(c, "max_iterations") \/ Doing(c, "verify") \/ Doing(c, "stopRun") =>
              phase[c] = "over" /\ run[c] # "send"
         /\ Doing(c, "startRun") =>
              \/ phase[c] \in {"top", "model", "called"}
                   /\ ~(run[c] = "send" /\ sending[c].kind = "start")
              \/ phase[c] = "over" /\ run[c] = "send" /\ sending[c].kind = "exceeded"
<1>1. \A kind \in Kinds : todo[c] \in Left(kind) =>
        /\ Doing(c, "waiting_user") => kind = "asked"
        /\ Doing(c, "startRun") => kind = "start"
        /\ Doing(c, "max_iterations") => kind = "exceeded"
        /\ Doing(c, "verify") \/ Doing(c, "stopRun") => kind = "ended"
  BY LeftWords DEF Doing
<1>2. \A w : Doing(c, w) /\ w # "stopRun" => hop[c] = "hold"
  BY Tails DEF WorkOK, TypeOK, Doing
<1>. USE DEF FlowOf, AtStep, AtSend, Kinds
<1>3. ASSUME Doing(c, "waiting_user")
      PROVE  \/ phase[c] = "answered" /\ run[c] = "step"
             \/ phase[c] = "over" /\ run[c] = "send" /\ sending[c].kind = "ended"
  <2>1. (\A kind \in Kinds : todo[c] \in Left(kind) => kind = "asked") /\ hop[c] = "hold"
    BY <1>1, <1>2, <1>3
  <2>. QED  BY <2>1 DEF Phases
<1>4. ASSUME Doing(c, "max_iterations") \/ Doing(c, "verify") \/ Doing(c, "stopRun")
      PROVE  phase[c] = "over" /\ run[c] # "send"
  <2>1. \A kind \in Kinds : todo[c] \in Left(kind) => kind \in {"exceeded", "ended"}
    BY <1>1, <1>4
  <2>. QED  BY <2>1 DEF Phases
<1>5. ASSUME Doing(c, "startRun")
      PROVE  \/ phase[c] \in {"top", "model", "called"}
                  /\ ~(run[c] = "send" /\ sending[c].kind = "start")
             \/ phase[c] = "over" /\ run[c] = "send" /\ sending[c].kind = "exceeded"
  <2>1. (\A kind \in Kinds : todo[c] \in Left(kind) => kind = "start") /\ hop[c] = "hold"
    BY <1>1, <1>2, <1>5
  <2>. QED  BY <2>1 DEF Phases
<1>. QED  BY <1>3, <1>4, <1>5

LEMMA SawInit == LimitedInit => SawOK
<1>. SUFFICES ASSUME LimitedInit PROVE SawOK
  OBVIOUS
<1>1. /\ run = [c \in Callers |-> "none"] /\ phase = [c \in Callers |-> "input"]
      /\ todo = [c \in Callers |-> << >>] /\ saw = [c \in Callers |-> {}]
  BY DEF LimitedInit, Init
<1>2. << >> \notin ToVerify
  BY MoreToDo
<1>. QED  BY <1>1, <1>2 DEF SawOK, SawOf, AskDue, ExceedDue, EndDue, Doing

LEMMA SawNext ==
  ASSUME TypeOK, LockOK, LimitedTypes, AloneOK, IdsOK, WorkOK, FlowOK, SawOK,
         [LimitedNext]_limitedVars
  PROVE  SawOK'
<1>. SUFFICES ASSUME Calm', middleware' = "loop" PROVE SawOK'
  BY DEF SawOK
<1>0. /\ Calm /\ hooks = "relay" /\ UNCHANGED <<hooks, middleware, maxIters, faults>>
      /\ middleware = "loop"
  BY SettingsStay DEF Calm, LimitedTypes
<1>. USE <1>0 DEF TypeOK, LimitedTypes, SawOK
<1>1. ASSUME NEW c \in Callers, SawOf(c)', \A d \in Callers \ {c} : Unmoved(d)  PROVE SawOK'
  <2>1. ASSUME NEW d \in Callers \ {c}  PROVE SawOf(d)'
    <3>1. SawOf(d) /\ UNCHANGED <<run[d], sending[d], todo[d], saw[d], phase[d]>>
      BY <1>1, <2>1 DEF Unmoved
    <3>. QED  BY <3>1 DEF SawOf, AskDue, ExceedDue, EndDue, Doing
  <2>. QED  BY <1>1, <2>1
<1>2. ASSUME NEW c \in Callers, Reply(c)
      PROVE  /\ UNCHANGED todo /\ \A d \in Callers \ {c} : Unmoved(d)
  BY <1>2, ReplyFrame DEF hookVars
\* The reply emits an event.
<1>3. ASSUME NEW c \in Callers, Reply(c), NEW kind \in Kinds, NEW p, Send(c, kind, p),
             \/ p = "answered" \/ p = "over"
             \/ kind \in {"start", "pass", "called"} /\ phase[c] \notin {"answered", "over"},
             kind = "asked" => p = "answered", p = "answered" => kind \in {"called", "asked"},
             kind \in {"ended", "exceeded"} <=> p = "over",
             p = "answered" => phase[c] \notin {"answered", "over"},
             kind = "ended" => phase[c] = "answered",
             kind = "exceeded" => phase[c] = "top"
      PROVE  SawOK'
  <2>1. /\ run[c] = "step" /\ run'[c] = "send" /\ sending'[c].kind = kind /\ phase'[c] = p
        /\ saw'[c] = saw[c] \cup ({kind} \cap {"asked", "ended", "exceeded"})
        /\ UNCHANGED todo
    BY <1>3 DEF Send, Apply, hookVars
  <2>2. SawOf(c)'
    BY <1>3, <2>1 DEF SawOf, AskDue, ExceedDue, EndDue, Doing
  <2>. QED  BY <1>1, <1>2, <1>3, <2>2
<1>4. ASSUME NEW c \in Callers, Reply(c)  PROVE SawOK'
  <2>1. CASE StartReply(c)
    BY <1>3, <1>4, <2>1 DEF StartReply, Kinds
  <2>2. CASE Reason(c)
    BY <1>3, <1>4, <2>2 DEF Reason, Kinds
  <2>3. CASE Answer(c)
    <3>1. PICK tools \in BOOLEAN : Send(c, "called", IF tools THEN "act" ELSE "answered")
      BY <2>3 DEF Answer
    <3>. QED  BY <1>3, <1>4, <2>3, <3>1 DEF Answer, Kinds
  <2>4. CASE Act(c)
    BY <1>3, <1>4, <2>4 DEF Act, Acting, Kinds
  <2>5. CASE Ask(c)
    BY <1>3, <1>4, <2>5 DEF Ask, Acting, Kinds
  <2>6. CASE EndReply(c)
    BY <1>3, <1>4, <2>6 DEF EndReply, Kinds
  <2>7. CASE ExceedIters(c)
    BY <1>3, <1>4, <2>7 DEF ExceedIters, Kinds
  <2>8. CASE ResumeReply(c) \/ CallModel(c)
    <3>1. /\ UNCHANGED <<run, sending, saw>>
          /\ phase[c] \notin {"answered", "over"} /\ phase'[c] \notin {"answered", "over"}
      BY <2>8 DEF ResumeReply, CallModel, vars
    <3>2. SawOf(c)'
      BY <1>2, <1>4, <3>1 DEF SawOf, AskDue, ExceedDue, EndDue, Doing
    <3>. QED  BY <1>1, <1>2, <1>4, <3>2
  <2>9. CASE ReturnReply(c)
    <3>1. run[c] = "step" /\ run'[c] # "send" /\ UNCHANGED <<sending, saw, phase>>
      BY <2>9 DEF ReturnReply, End, Finish, replyVars
    <3>2. SawOf(c)'
      BY <1>2, <1>4, <3>1 DEF SawOf, AskDue, ExceedDue, EndDue, Doing
    <3>. QED  BY <1>1, <1>2, <1>4, <3>2
  <2>. QED  BY <1>4, <2>1, <2>2, <2>3, <2>4, <2>5, <2>6, <2>7, <2>8, <2>9 DEF Reply
<1>5. ASSUME NEW c \in Callers, Environment(c) \/ Caller(c)  PROVE SawOK'
  <2>1. /\ UNCHANGED <<sending, saw, phase, todo>> /\ \A d \in Callers \ {c} : Unmoved(d)
    BY <1>5, CallerFrame DEF replyVars, hookVars
  <2>2. run'[c] = "send" => run[c] = "send"
    BY <1>5 DEF Environment, Caller, Lock, Cancel, Observe, RangeEnds, Return, Emit, EmitInline,
                Deliver, EmitCancelled, Finish, PutErr, Close
  <2>3. SawOf(c)'
    BY <2>1, <2>2 DEF SawOf, AskDue, ExceedDue, EndDue, Doing
  <2>. QED  BY <1>1, <2>1, <2>3
<1>6. ASSUME NEW c \in Callers, Hook(c)
      PROVE  UNCHANGED <<sending, saw, phase>> /\ \A d \in Callers \ {c} : Unmoved(d)
  BY <1>6, HookFrame DEF replyVars
<1>7. ASSUME NEW c \in Callers, TakeEvent(c)  PROVE SawOK'
  <2>1. /\ run[c] = "send" /\ run'[c] = "step" /\ UNCHANGED <<sending, saw, phase>>
        /\ todo'[c] = EventWork(sending[c].kind) /\ sending[c].kind \in Kinds
    BY <1>7 DEF TakeEvent, HookTake, HopTo, EventWork, replyVars
  <2>2. /\ Doing(c, "waiting_user")' => sending[c].kind = "asked"
        /\ Doing(c, "max_iterations")' => sending[c].kind = "exceeded"
        /\ todo'[c] \in ToVerify => sending[c].kind = "ended"
    BY <2>1, WorkBegins, SMTT(60) DEF Doing
  <2>3. SawOf(c)'
    BY <2>1, <2>2 DEF SawOf, AskDue, ExceedDue, EndDue
  <2>. QED  BY <1>1, <1>6, <1>7, <2>3 DEF Hook
<1>8. ASSUME NEW c \in Callers, Hook(c), todo[c] # << >>, todo' = [todo EXCEPT ![c] = Tail(@)],
             UNCHANGED run
      PROVE  SawOK'
  <2>1. /\ ~Doing(c, "waiting_user")' /\ ~Doing(c, "max_iterations")'
        /\ todo'[c] \in ToVerify => todo[c] \in ToVerify
    <3>1. \A w \in {"waiting_user", "max_iterations"} : ~Doing(c, w)'
      BY <1>8, WordDone
    <3>2. todo'[c] \in ToVerify => todo[c] \in ToVerify
      BY <1>8, EndWords
    <3>. QED  BY <3>1, <3>2
  <2>2. SawOf(c)'
    BY <1>6, <1>8, <2>1 DEF SawOf, AskDue, ExceedDue, EndDue
  <2>. QED  BY <1>1, <1>6, <1>8, <2>2
<1>9. ASSUME NEW c \in Callers, Work(c) \/ Offer(c)  PROVE SawOK'
  BY <1>8, <1>9 DEF Hook, Work, vars, Offer, HookOffer
<1>10. ASSUME NEW c \in Callers, EventsEnd(c)  PROVE SawOK'
  <2>1. todo'[c] \in {<<"stopRun">>, << >>} /\ UNCHANGED run
    BY <1>10 DEF EventsEnd, HookDrained
  <2>2. ~Doing(c, "waiting_user")' /\ ~Doing(c, "max_iterations")' /\ todo'[c] \notin ToVerify
    <3>1. <<"stopRun">> # << >> /\ Head(<<"stopRun">>) = "stopRun"
      BY Tails
    <3>2. <<"stopRun">> \notin ToVerify /\ << >> \notin ToVerify
      BY <3>1, MoreToDo
    <3>. QED  BY <2>1, <3>1, <3>2 DEF Doing
  <2>3. SawOf(c)'
    BY <1>6, <1>10, <2>1, <2>2 DEF Hook, SawOf, AskDue, ExceedDue, EndDue
  <2>. QED  BY <1>1, <1>6, <1>10, <2>3 DEF Hook
<1>11. ASSUME NEW c \in Callers, WorkDone(c)  PROVE SawOK'
  <2>1. UNCHANGED <<run, todo>>
    BY <1>11 DEF WorkDone, HookBack, HookDone, hookVars
  <2>2. SawOf(c)'
    BY <1>6, <1>11, <2>1 DEF Hook, SawOf, AskDue, ExceedDue, EndDue, Doing
  <2>. QED  BY <1>1, <1>6, <1>11, <2>2 DEF Hook
<1>12. CASE UNCHANGED limitedVars
  BY <1>12 DEF limitedVars, vars, replyVars, hookVars, SawOf, AskDue, ExceedDue, EndDue, Doing
<1>. QED
  BY <1>4, <1>5, <1>7, <1>9, <1>10, <1>11, <1>12 DEF LimitedNext, Goroutine, Hook

-------------------------------------------------------------------------------
(* The record of a reply that one call has run. *)

\* Only c is a call of the reply it has started.
Only(c) == origin[c] = c /\ \A d \in Callers \ {c} : origin[d] # c

\* What a reply starts with, and what it has to itself.
FreshOK ==
  Calm /\ middleware = "loop" =>
    \A c \in Callers :
      /\ todo[c] # << >> => phase[c] # "input"
      /\ phase[c] = "input" => made[c] = 0 /\ local[c] = "completed"
      /\ origin[c] # c => verdicts[c]
      /\ Only(c) => made[c] = spent[c]

LEMMA FreshInit == LimitedInit => FreshOK
<1>. SUFFICES ASSUME LimitedInit PROVE FreshOK
  OBVIOUS
<1>1. /\ made = [c \in Callers |-> 0] /\ spent = [r \in Replies |-> 0]
      /\ local = [c \in Callers |-> "completed"] /\ verdicts = [r \in Replies |-> TRUE]
      /\ todo = [c \in Callers |-> << >>]
  BY DEF LimitedInit
<1>. QED  BY <1>1 DEF FreshOK

\* Whoever has a reply to itself has had it from its start.
LEMMA OnlyStays ==
  ASSUME TypeOK, LockOK, LimitedTypes, AloneOK, IdsOK, WorkOK, Calm, [LimitedNext]_limitedVars,
         NEW c \in Callers, Only(c)'
  PROVE  /\ Only(c) \/ origin[c] = NoReply
         /\ origin[c] # NoReply => origin[c] = c
<1>1. \A d \in Callers : origin[d] # NoReply => origin'[d] = origin[d]
  BY OriginStays
<1>. QED  BY <1>1, NoReplyAssumption DEF Only

LEMMA FreshNext ==
  ASSUME TypeOK, LockOK, LimitedTypes, AloneOK, IdsOK, WorkOK, FlowOK, CountOK, FreshOK,
         [LimitedNext]_limitedVars
  PROVE  FreshOK'
<1>. SUFFICES ASSUME Calm', middleware' = "loop" PROVE FreshOK'
  BY DEF FreshOK
<1>0. /\ Calm /\ hooks = "relay" /\ UNCHANGED <<hooks, middleware, maxIters, faults>>
      /\ middleware = "loop"
  BY SettingsStay DEF Calm, LimitedTypes
<1>a. \A d \in Callers : origin[d] # NoReply => origin'[d] = origin[d]
  BY <1>0, OriginStays
<1>b. \A e \in Callers : origin'[e] # e => origin[e] # e
  BY <1>a, NoReplyAssumption
<1>. USE <1>0 DEF TypeOK, LimitedTypes, FreshOK
<1>1. ASSUME UNCHANGED <<made, spent>>, NEW e \in Callers, Only(e)'  PROVE made'[e] = spent'[e]
  <2>1. CASE Only(e)
    BY <1>1, <2>1
  <2>2. CASE origin[e] = NoReply
    <3>1. spent[e] = 0
      BY <2>2, NoReplyAssumption DEF CountOK
    <3>2. made[e] = 0
      BY <2>2 DEF IdsOK
    <3>. QED  BY <1>1, <3>1, <3>2
  <2>. QED  BY <1>1, <2>1, <2>2, OnlyStays
<1>2. ASSUME NEW c \in Callers, Reply(c)
      PROVE  /\ UNCHANGED <<todo, local, verdicts>>
             /\ \A d \in Callers : phase'[d] = "input" => phase[d] = "input" /\ made'[d] = made[d]
  <2>1. UNCHANGED <<todo, local, verdicts>> /\ \A d \in Callers \ {c} : Unmoved(d)
    BY <1>2, ReplyFrame DEF hookVars
  <2>2. phase'[c] = "input" => phase[c] = "input" /\ made'[c] = made[c]
    <3>1. CASE ReturnReply(c)
      BY <3>1 DEF ReturnReply, replyVars
    <3>2. CASE Answer(c)
      <4>1. phase'[c] \in {"act", "answered"}
        BY <3>2 DEF Answer, Send
      <4>. QED  BY <4>1
    <3>3. CASE ~ReturnReply(c) /\ ~Answer(c)
      <4>1. phase'[c] \in {"top", "model", "called", "answered", "over"}
        BY <1>2, <3>3 DEF Reply, StartReply, ResumeReply, Reason, CallModel, Act, Ask, EndReply,
                          ExceedIters, Send
      <4>. QED  BY <4>1
    <3>. QED  BY <3>1, <3>2, <3>3
  <2>. QED  BY <2>1, <2>2 DEF Unmoved
\* A step of the reply leaves the work alone, and what the verifier has said.
<1>12. ASSUME NEW c \in Callers, Reply(c), \A e \in Callers : Only(e)' => made'[e] = spent'[e]
       PROVE  FreshOK'
  <2>1. \A e \in Callers : todo'[e] # << >> => phase'[e] # "input"
    BY <1>2, <1>12
  <2>2. \A e \in Callers : phase'[e] = "input" => made'[e] = 0 /\ local'[e] = "completed"
    BY <1>2, <1>12
  <2>3. \A e \in Callers : origin'[e] # e => verdicts'[e]
    BY <1>b, <1>2, <1>12
  <2>. QED  BY <1>12, <2>1, <2>2, <2>3
<1>3. ASSUME NEW c \in Callers, Reply(c), ~CallModel(c)  PROVE FreshOK'
  <2>1. UNCHANGED <<made, spent>>
    BY <1>3 DEF Reply, StartReply, ResumeReply, Reason, Answer, Act, Ask, EndReply, ExceedIters,
                ReturnReply, replyVars
  <2>2. \A e \in Callers : Only(e)' => made'[e] = spent'[e]
    BY <1>1, <2>1
  <2>. QED  BY <1>3, <1>12, <2>2
<1>4. ASSUME NEW c \in Callers, CallModel(c)  PROVE FreshOK'
  <2>1. /\ made' = [made EXCEPT ![c] = @ + 1] /\ spent' = [spent EXCEPT ![origin[c]] = @ + 1]
        /\ UNCHANGED origin
    BY <1>4 DEF CallModel
  <2>2. ASSUME NEW e \in Callers, Only(e)'  PROVE made'[e] = spent'[e]
    <3>1. Only(e) /\ made[e] = spent[e]
      BY <2>1, <2>2 DEF Only
    <3>2. CASE e = c
      BY <2>1, <3>1, <3>2 DEF Only
    <3>3. CASE e # c
      <4>1. origin[c] # e
        BY <3>1, <3>3 DEF Only
      <4>. QED  BY <2>1, <3>1, <3>3, <4>1
    <3>. QED  BY <3>2, <3>3
  <2>3. \A e \in Callers : Only(e)' => made'[e] = spent'[e]
    BY <2>2
  <2>. QED  BY <1>4, <1>12, <2>3 DEF Reply
<1>5. ASSUME NEW c \in Callers, Environment(c) \/ Caller(c)  PROVE FreshOK'
  <2>1. UNCHANGED <<replyVars, hookVars>>
    BY <1>5, CallerFrame
  <2>. QED  BY <1>b, <1>1, <2>1 DEF replyVars, hookVars
<1>6. ASSUME NEW c \in Callers, Hook(c)
      PROVE  /\ UNCHANGED <<made, spent, phase, origin>> /\ pc[c] = "range"
             /\ \A d \in Callers \ {c} : UNCHANGED <<todo[d], local[d]>>
  BY <1>6, HookFrame, SMTT(60) DEF Unmoved, replyVars
<1>7. ASSUME NEW c \in Callers, Hook(c), todo'[c] # << >> => phase[c] # "input",
             local'[c] = local[c] \/ phase[c] # "input",
             \/ UNCHANGED verdicts
             \/ /\ phase[c] # "input"
                /\ \E p \in BOOLEAN : verdicts' = [verdicts EXCEPT ![origin[c]] = p]
      PROVE  FreshOK'
  <2>1. ASSUME NEW e \in Callers, origin'[e] # e  PROVE verdicts'[e]
    <3>1. verdicts[e] /\ origin[e] # e
      BY <1>6, <1>7, <2>1
    <3>2. phase[c] # "input" => origin[c] # e
      BY <3>1 DEF IdsOK
    <3>. QED  BY <1>7, <3>1, <3>2
  <2>2. \A e \in Callers : Only(e)' => made'[e] = spent'[e]
    BY <1>1, <1>6, <1>7
  <2>3. \A e \in Callers : origin'[e] # e => verdicts'[e]
    BY <2>1
  <2>4. \A e \in Callers : todo'[e] # << >> => phase'[e] # "input"
    BY <1>6, <1>7
  <2>5. \A e \in Callers : phase'[e] = "input" => made'[e] = 0 /\ local'[e] = "completed"
    BY <1>6, <1>7, ZenonT(60)
  <2>. QED  BY <2>2, <2>3, <2>4, <2>5
<1>8. ASSUME NEW c \in Callers, TakeEvent(c)  PROVE FreshOK'
  <2>1. run[c] = "send" /\ UNCHANGED <<local, verdicts>>
    BY <1>8 DEF TakeEvent, HookTake
  <2>2. phase[c] # "input"
    BY <2>1 DEF IdsOK
  <2>. QED  BY <1>7, <1>8, <2>1, <2>2 DEF Hook
<1>9. ASSUME NEW c \in Callers, Work(c)  PROVE FreshOK'
  <2>1. todo[c] # << >> /\ phase[c] # "input"
    BY <1>9 DEF Work
  <2>2. \/ UNCHANGED verdicts
        \/ /\ Doing(c, "verify")
           /\ \E p \in BOOLEAN : verdicts' = [verdicts EXCEPT ![held[c]] = p]
    BY <1>9, WorkWords
  <2>3. Doing(c, "verify") => held[c] = origin[c]
    <3>1. Doing(c, "verify") => hop[c] = "hold"
      BY <1>9, <2>1, WorkWords DEF Doing
    <3>. QED  BY <1>6, <1>9, <2>1, <3>1 DEF Hook, IdsOK, Live
  <2>. QED  BY <1>7, <1>9, <2>1, <2>2, <2>3 DEF Hook
<1>10. ASSUME NEW c \in Callers, Offer(c) \/ EventsEnd(c) \/ WorkDone(c)  PROVE FreshOK'
  <2>1. UNCHANGED <<local, verdicts>> /\ (todo'[c] # << >> => todo[c] # << >> \/ started[c])
    BY <1>10 DEF Offer, EventsEnd, WorkDone, hookVars
  <2>2. todo'[c] # << >> => phase[c] # "input"
    BY <2>1, NoReplyAssumption DEF WorkOK, IdsOK
  <2>. QED  BY <1>7, <1>10, <2>1, <2>2 DEF Hook
<1>11. CASE UNCHANGED limitedVars
  BY <1>b, <1>1, <1>11 DEF limitedVars, replyVars, hookVars
<1>. QED
  BY <1>3, <1>4, <1>5, <1>8, <1>9, <1>10, <1>11 DEF LimitedNext, Goroutine, Hook, Reply

\* The verifier has had its say.
Verified(c) == "ended" \in saw[c] /\ ~EndDue(c)

\* The reason the hook of c has come to before the verifier has its say.
LocalOf(c) == IF "exceeded" \in saw[c] /\ ~ExceedDue(c) THEN "max_iterations"
              ELSE IF "asked" \in saw[c] /\ ~AskDue(c) THEN "waiting_user"
              ELSE "completed"

\* Why the reply of c has stopped.
Why(c, reason) ==
  /\ reason = "verifier_failed" <=> "ended" \in saw[c] /\ ~verdicts[c]
  /\ reason = "waiting_user" <=> "asked" \in saw[c] /\ verdicts[c]
  /\ reason = "max_iterations" <=> "exceeded" \in saw[c]

\* The run of c goes on, and the verifier has not said anything of the reply.
Underway(c) ==
  /\ verdicts[c] /\ local[c] = LocalOf(c)
  /\ LocalOf(c) = "completed" => loop.reason \in {"none", "budget_exceeded"}
  /\ LocalOf(c) # "completed" => loop.reason = LocalOf(c)
  /\ loop.reason = "budget_exceeded" => ExceededBy(loop)

\* The run of c is over.
Recorded(c) ==
  /\ phase[c] = "over" /\ run[c] # "send" /\ todo[c] = << >>
  /\ record[c].calls = made[c] /\ Why(c, record[c].reason)
  /\ record[c].reason = "budget_exceeded" => ExceededBy(record[c])

RecordOf(c) ==
  /\ StartDue(c) => ~started[c] /\ local[c] = "completed" /\ verdicts[c]
  /\ started[c] /\ ~Verified(c) => Underway(c)
  /\ started[c] /\ Verified(c) => /\ Why(c, local[c])
                                  /\ local[c] = "budget_exceeded" => ExceededBy(loop)
  /\ ~started[c] /\ ~StartDue(c) => Recorded(c)

RecordOK ==
  Calm /\ middleware = "loop" =>
    \A c \in Callers : Only(c) /\ outcome[c] # "error" =>
      IF Live(c) THEN RecordOf(c) ELSE Recorded(c)

LEMMA RecordInit == LimitedInit => RecordOK
<1>. SUFFICES ASSUME LimitedInit PROVE RecordOK
  OBVIOUS
<1>1. origin = [c \in Callers |-> NoReply]
  BY DEF LimitedInit
<1>. QED  BY <1>1, NoReplyAssumption DEF RecordOK, Only

\* The work of the runtime, by its word.
LEMMA WorkAt ==
  ASSUME WorkOK, IdsOK, AloneOK, TypeOK, Calm, middleware = "loop", LimitedTypes, NEW c \in Callers,
         Work(c)
  PROVE  /\ \E w \in {"startRun", "count", "waiting_user", "max_iterations", "verify", "stopRun"} :
              Doing(c, w)
         /\ Doing(c, "startRun") => /\ StartRun(held[c]) /\ started' = [started EXCEPT ![c] = TRUE]
                                   /\ UNCHANGED <<local, verdicts>>
         /\ Doing(c, "count") => CountModelCall /\ UNCHANGED <<local, started, verdicts>>
         /\ \A w \in {"waiting_user", "max_iterations"} :
              Doing(c, w) => /\ SetReason(w) /\ local' = [local EXCEPT ![c] = w]
                             /\ UNCHANGED <<started, verdicts>>
         /\ Doing(c, "verify") =>
              \E passed \in BOOLEAN :
                /\ SetReason(AfterVerification(passed)) /\ AfterVerification(passed) \in Reasons
                /\ local' = [local EXCEPT ![c] = IF AfterVerification(passed) = "none" THEN @
                                                 ELSE AfterVerification(passed)]
                /\ verdicts' = [verdicts EXCEPT ![held[c]] = passed]
                /\ UNCHANGED started
         /\ Doing(c, "stopRun") => /\ StopRun(local[c]) /\ started' = [started EXCEPT ![c] = FALSE]
                                  /\ UNCHANGED <<local, verdicts>>
BY WorkWords DEF Doing

\* A reply and its hook leave the record of another alone.
LEMMA RecordElsewhere ==
  ASSUME TypeOK, LockOK, LimitedTypes, AloneOK, IdsOK, WorkOK, FlowOK, RunOK, FreshOK, RecordOK,
         [LimitedNext]_limitedVars, Calm, middleware = "loop",
         NEW c \in Callers, Reply(c) \/ Hook(c),
         NEW e \in Callers \ {c}, Only(e)', outcome'[e] # "error"
  PROVE  pc'[e] # "range" /\ Recorded(e)'
<1>. USE DEF LimitedTypes
<1>1. pc[e] # "range" /\ pc'[e] # "range" /\ Unmoved(e)
  <2>1. Reply(c) => pc[e] # "range" /\ Unmoved(e)
    BY ReplyFrame
  <2>2. Hook(c) => pc[e] # "range" /\ Unmoved(e)
    BY HookFrame
  <2>. QED  BY <2>1, <2>2 DEF Unmoved
<1>2. Only(e) /\ outcome[e] # "error"
  <2>1. origin[e] # NoReply /\ outcome[e] # "error"
    BY <1>1, NoReplyAssumption DEF Unmoved, Only
  <2>. QED  BY <2>1, OnlyStays
<1>3. Recorded(e)
  BY <1>1, <1>2 DEF RecordOK, Live
<1>4. record'[e] = record[e] /\ verdicts'[e] = verdicts[e]
  <2>1. CASE Reply(c)
    BY <2>1 DEF Reply, StartReply, ResumeReply, Reason, CallModel, Answer, Act, Ask, EndReply,
                ExceedIters, ReturnReply, Send, limits, loopVars, hookVars, BeginReasoning
  <2>2. CASE TakeEvent(c) \/ Offer(c) \/ EventsEnd(c) \/ WorkDone(c)
    BY <2>2 DEF TakeEvent, Offer, EventsEnd, WorkDone, limits, loopVars, hookVars
  <2>3. CASE Work(c)
    <3>1. /\ todo[c] # << >> /\ phase[c] # "input" /\ pc[c] = "range" /\ origin[c] # e
          /\ hop[c] = "hold" \/ Doing(c, "stopRun")
      BY <1>2, <2>3, WorkWords DEF FreshOK, Only
    <3>2. hop[c] = "hold" => held[c] = origin[c]
      BY <3>1 DEF IdsOK, Live
    <3>3. Doing(c, "stopRun") => lastRun = origin[c]
      <4>1. Doing(c, "stopRun") => Ending(c)
        BY <2>3, <3>1, WorkWords, WordDone
      <4>. QED  BY <3>1, <4>1 DEF RunOK, RunOf, Live
    <3>4. /\ Doing(c, "startRun") \/ Doing(c, "verify") => hop[c] = "hold"
          /\ origin[c] \in Replies
      BY <3>1, NoReplyAssumption, SMTT(60) DEF Doing, IdsOK
    <3>5. CASE Doing(c, "startRun")
      <4>1. StartRun(origin[c]) /\ UNCHANGED verdicts
        BY <2>3, <3>2, <3>4, <3>5, WorkAt
      <4>. QED  BY <3>1, <3>4, <4>1 DEF StartRun
    <3>6. CASE Doing(c, "stopRun")
      <4>1. StopRun(local[c]) /\ UNCHANGED verdicts /\ lastRun # e /\ lastRun \in Replies
        BY <2>3, <3>1, <3>3, <3>4, <3>6, WorkAt
      <4>. QED  BY <4>1 DEF StopRun
    <3>7. CASE Doing(c, "verify")
      <4>1. /\ UNCHANGED record
            /\ \E passed \in BOOLEAN : verdicts' = [verdicts EXCEPT ![held[c]] = passed]
        BY <2>3, <3>7, WorkAt DEF SetReason
      <4>. QED  BY <3>1, <3>2, <3>4, <3>7, <4>1
    <3>8. CASE Doing(c, "count") \/ Doing(c, "waiting_user") \/ Doing(c, "max_iterations")
      BY <2>3, <3>8, WorkAt DEF SetReason, CountModelCall
    <3>. QED  BY <2>3, <3>5, <3>6, <3>7, <3>8, WorkAt
  <2>. QED  BY <2>1, <2>2, <2>3 DEF Hook
<1>5. UNCHANGED policy
  BY PolicyStays
<1>. QED  BY <1>1, <1>3, <1>4, <1>5 DEF Recorded, Why, Unmoved, ExceededBy

\* A step of the reply of c keeps what can be said of its record.
LEMMA RecordReply ==
  ASSUME TypeOK, LockOK, LimitedTypes, AloneOK, IdsOK, WorkOK, FlowOK, RunOK, SawOK, FreshOK,
         RecordOK, [LimitedNext]_limitedVars, Calm, middleware = "loop",
         UNCHANGED <<middleware, policy>>, NEW c \in Callers, Reply(c), Only(c)',
         outcome'[c] # "error"
  PROVE  RecordOf(c)'
<1>1. /\ pc[c] = "range" /\ run[c] \in {"step", "send"}
           /\ UNCHANGED <<todo, local, started, verdicts>>
      /\ outcome[c] = "none"
  BY ReplyFrame, HookFollows DEF hookVars
<1>2. /\ Only(c) \/ origin[c] = NoReply
      /\ phase[c] = "input" <=> origin[c] = NoReply
  BY OnlyStays DEF IdsOK
<1>3. ASSUME phase[c] # "input"
      PROVE  /\ Only(c) /\ RecordOf(c) /\ SawOf(c) /\ FlowOf(c) /\ phase[c] \in Phases \ {"input"}
             /\ phase[c] = "over" \/ started[c] \/ StartDue(c)
  <2>1. Live(c) /\ Only(c)
    BY <1>1, <1>2, <1>3 DEF Live
  <2>2. RecordOf(c) /\ FlowOf(c) /\ SawOf(c)
    <3>1. outcome[c] # "error"
      BY <1>1
    <3>2. RecordOf(c)
      BY <2>1, <3>1 DEF RecordOK
    <3>3. FlowOf(c)
      BY <2>1, <3>1 DEF FlowOK
    <3>4. SawOf(c)
      BY DEF SawOK
    <3>. QED  BY <3>2, <3>3, <3>4
  <2>3. phase[c] \in Phases \ {"input"}
    BY <1>3 DEF LimitedTypes
  <2>4. phase[c] = "over" \/ started[c] \/ StartDue(c)
    BY <2>2 DEF RecordOf, Recorded
  <2>. QED  BY <2>1, <2>2, <2>3, <2>4
<1>4. CASE StartReply(c)
  <2>1. /\ run'[c] = "send" /\ sending'[c].kind = "start" /\ phase[c] = "input"
    BY <1>4 DEF StartReply, Send, Apply, LimitedTypes, TypeOK
  <2>2. ~started[c] /\ local[c] = "completed" /\ verdicts[c]
    BY <1>2, <2>1, NoReplyAssumption DEF WorkOK, FreshOK
  <2>. QED  BY <1>1, <2>1, <2>2 DEF RecordOf, StartDue
<1>5. CASE ResumeReply(c)
  <2>1. phase[c] = "input" /\ pending # NoReply /\ origin'[c] = pending
    BY <1>5 DEF ResumeReply, LimitedTypes
  <2>2. origin[pending] = pending
    BY <2>1 DEF IdsOK
  <2>. QED  BY <1>2, <2>1, <2>2, NoReplyAssumption DEF Only
\* The reply emits an event.
<1>6. ASSUME NEW kind \in Kinds \ {"none", "start"}, NEW p, Send(c, kind, p),
             phase[c] \notin {"input", "over"},
             kind \in {"asked", "exceeded"} => phase[c] \in {"top", "act"},
             \/ UNCHANGED loop
             \/ /\ phase[c] = "top" /\ loop'.reason \in {loop.reason, "budget_exceeded"}
                /\ \/ loop'.reason # loop.reason \/ loop'.reason # "budget_exceeded"
                   \/ ~ExceededBy(loop) \/ ExceededBy(loop')
                /\ loop'.reason # loop.reason => ExceededBy(loop')
      PROVE  RecordOf(c)'
  <2>1. /\ run[c] = "step" /\ run'[c] = "send" /\ sending'[c].kind = kind
        /\ saw'[c] = saw[c] \cup ({kind} \cap {"asked", "ended", "exceeded"})
    BY <1>6 DEF Send, Apply, LimitedTypes, TypeOK
  <2>2. /\ StartDue(c)' <=> StartDue(c)
        /\ AskDue(c)' <=> AskDue(c) \/ kind = "asked"
        /\ ExceedDue(c)' <=> ExceedDue(c) \/ kind = "exceeded"
        /\ EndDue(c)' <=> EndDue(c) \/ kind = "ended"
    BY <1>1, <1>6, <2>1 DEF StartDue, AskDue, ExceedDue, EndDue, Doing
  <2>3. /\ "ended" \notin saw[c] /\ "exceeded" \notin saw[c]
        /\ kind \in {"asked", "exceeded"} => "asked" \notin saw[c]
        /\ phase[c] = "top" => "asked" \notin saw[c]
    BY <1>3, <1>6 DEF SawOf, Phases
  <2>4. ~Verified(c) /\ ~Verified(c)'
    BY <2>1, <2>2, <2>3 DEF Verified
  <2>5. LocalOf(c)' = LocalOf(c)
    BY <2>1, <2>2, <2>3 DEF LocalOf
  <2>6. ASSUME started[c]  PROVE Underway(c)'
    <3>1. Underway(c)
      BY <1>3, <1>6, <2>4, <2>6 DEF RecordOf
    <3>2. CASE UNCHANGED loop
      BY <1>1, <2>5, <3>1, <3>2 DEF Underway, ExceededBy
    <3>3. CASE phase[c] = "top" /\ ~UNCHANGED loop
      <4>1. LocalOf(c) = "completed"
        BY <2>3, <3>3 DEF LocalOf
      <4>2. ExceededBy(loop') <=> ExceededBy(loop)'
        BY DEF ExceededBy
      <4>3. loop'.reason = "budget_exceeded" => ExceededBy(loop)'
        BY <1>6, <3>1, <3>3, <4>1, <4>2 DEF Underway
      <4>. QED  BY <1>1, <1>6, <2>5, <3>1, <3>3, <4>1, <4>3 DEF Underway
    <3>. QED  BY <1>6, <3>2, <3>3
  <2>. QED  BY <1>1, <1>3, <1>6, <2>2, <2>4, <2>6 DEF RecordOf
<1>7. CASE Reason(c)
  <2>1. Send(c, "pass", "model") /\ phase[c] = "top" /\ BeginReasoning
    BY <1>7 DEF Reason
  <2>2. /\ loop'.reason \in {loop.reason, "budget_exceeded"}
        /\ loop'.reason # loop.reason => ExceededBy(loop')
        /\ loop'.iteration = loop.iteration + 1 /\ loop'.calls = loop.calls
    BY <2>1, LoopCounts DEF LimitedTypes
  <2>3. ExceededBy(loop) => ExceededBy(loop')
    BY <2>2 DEF ExceededBy, LimitedTypes, Counters
  <2>. QED  BY <1>6, <2>1, <2>2, <2>3 DEF Kinds
<1>8. CASE Answer(c)
  <2>1. /\ phase[c] = "called" /\ UNCHANGED loop
        /\ \E tools \in BOOLEAN : Send(c, "called", IF tools THEN "act" ELSE "answered")
    BY <1>8 DEF Answer, limits, loopVars
  <2>. QED  BY <1>6, <2>1 DEF Kinds
<1>9. CASE Act(c)
  <2>1. phase[c] \in {"act", "top"} /\ UNCHANGED loop /\ Send(c, "pass", "top")
    BY <1>9 DEF Act, Acting, limits, loopVars
  <2>. QED  BY <1>6, <2>1 DEF Kinds
<1>10. CASE Ask(c)
  <2>1. phase[c] \in {"act", "top"} /\ UNCHANGED loop /\ Send(c, "asked", "answered")
    BY <1>10 DEF Ask, Acting, limits, loopVars
  <2>. QED  BY <1>6, <2>1 DEF Kinds
<1>11. CASE EndReply(c)
  <2>1. phase[c] = "answered" /\ UNCHANGED loop /\ Send(c, "ended", "over")
    BY <1>11 DEF EndReply, limits, loopVars
  <2>. QED  BY <1>6, <2>1 DEF Kinds
<1>12. CASE ExceedIters(c)
  <2>1. phase[c] = "top" /\ UNCHANGED loop /\ Send(c, "exceeded", "over")
    BY <1>12 DEF ExceedIters, limits, loopVars
  <2>. QED  BY <1>6, <2>1 DEF Kinds
\* Neither the model call nor the return of the reply says anything to the hook.
<1>13. ASSUME UNCHANGED <<sending, saw, loop>>, run'[c] = "send" <=> run[c] = "send",
              phase[c] # "input",
              phase[c] = "over" => phase'[c] = "over" /\ UNCHANGED <<record, made>>
       PROVE  RecordOf(c)'
  <2>1. /\ StartDue(c)' <=> StartDue(c)
        /\ Verified(c)' <=> Verified(c)
        /\ LocalOf(c)' = LocalOf(c)
    BY <1>1, <1>13 DEF StartDue, AskDue, ExceedDue, EndDue, Doing, Verified, LocalOf
  <2>2. \A l : ExceededBy(l)' <=> ExceededBy(l)
    BY DEF ExceededBy
  <2>3. Recorded(c) => Recorded(c)'
    BY <1>1, <1>13 DEF Recorded, Why, ExceededBy
  <2>. QED
    BY <1>1, <1>3, <1>13, <2>1, <2>3 DEF RecordOf, Underway, Why, ExceededBy
<1>14. CASE CallModel(c)
  BY <1>13, <1>14 DEF CallModel, limits, loopVars, vars
<1>15. CASE ReturnReply(c)
  <2>1. /\ phase[c] = "over" /\ UNCHANGED <<sending, saw, loop, phase, record, made>>
        /\ run[c] = "step" /\ run'[c] # "send"
    BY <1>15 DEF ReturnReply, End, Finish, limits, loopVars, replyVars, TypeOK
  <2>. QED  BY <1>13, <2>1
<1>. QED
  BY <1>4, <1>5, <1>7, <1>8, <1>9, <1>10, <1>11, <1>12, <1>14, <1>15 DEF Reply

\* Where the hook of a reply that one call runs is.
LEMMA HookAt ==
  ASSUME TypeOK, LockOK, LimitedTypes, AloneOK, IdsOK, WorkOK, FlowOK, RunOK, SawOK, RecordOK,
         [LimitedNext]_limitedVars, Calm, middleware = "loop",
         NEW c \in Callers, Hook(c), Only(c)', outcome'[c] # "error"
  PROVE  /\ Live(c) /\ Only(c) /\ outcome[c] # "error" /\ replyID = c
         /\ hop[c] = "hold" => held[c] = c
         /\ UNCHANGED <<pc, replyVars>>
         /\ RecordOf(c) /\ FlowOf(c) /\ SawOf(c) /\ RunOf(c)
         /\ phase[c] \in Phases \ {"input"}
         /\ todo[c] # << >> => started[c] \/ StartDue(c)
<1>1. pc[c] = "range" /\ UNCHANGED <<pc, outcome, replyVars>>
  BY HookFrame
<1>2. Only(c) /\ outcome[c] # "error"
  BY <1>1 DEF Only, replyVars
<1>3. Live(c) /\ phase[c] \in Phases \ {"input"}
  BY <1>1, <1>2, NoReplyAssumption DEF IdsOK, Only, Live, LimitedTypes
<1>4. replyID = c /\ (hop[c] = "hold" => held[c] = c)
  BY <1>2, <1>3 DEF IdsOK, Only
<1>5. RecordOf(c)
  BY <1>2, <1>3 DEF RecordOK
<1>6. FlowOf(c)
  BY <1>2, <1>3 DEF FlowOK
<1>7. SawOf(c)
  BY DEF SawOK
<1>8. RunOf(c)
  BY <1>3 DEF RunOK
<1>9. todo[c] # << >> => started[c] \/ StartDue(c)
  BY <1>5 DEF RecordOf, Recorded
<1>. QED  BY <1>1, <1>2, <1>3, <1>4, <1>5, <1>6, <1>7, <1>8, <1>9

\* A step of the hook other than its work keeps what can be said of the record.
LEMMA RecordMove ==
  ASSUME TypeOK, LockOK, LimitedTypes, AloneOK, IdsOK, WorkOK, FlowOK, RunOK, SawOK, RecordOK,
         [LimitedNext]_limitedVars, Calm, middleware = "loop", UNCHANGED <<middleware, policy>>,
         NEW c \in Callers, TakeEvent(c) \/ Offer(c) \/ EventsEnd(c) \/ WorkDone(c),
         Only(c)', outcome'[c] # "error"
  PROVE  RecordOf(c)'
<1>1. RecordOf(c) /\ UNCHANGED replyVars
  BY HookAt DEF Hook
<1>2. UNCHANGED <<loop, record, local, started, verdicts, phase, saw, made, sending>>
  BY <1>1 DEF TakeEvent, Offer, EventsEnd, WorkDone, limits, loopVars, hookVars, replyVars
<1>3. ASSUME StartDue(c)' <=> StartDue(c), AskDue(c)' <=> AskDue(c), ExceedDue(c)' <=> ExceedDue(c),
             EndDue(c)' <=> EndDue(c),
             Recorded(c) /\ ~started[c] => run'[c] # "send" /\ todo'[c] = << >>
      PROVE  RecordOf(c)'
  <2>1. Verified(c)' <=> Verified(c)
    BY <1>2, <1>3 DEF Verified
  <2>2. LocalOf(c)' = LocalOf(c)
    BY <1>2, <1>3 DEF LocalOf
  <2>3. Underway(c) => Underway(c)'
    BY <1>2, <2>2 DEF Underway, ExceededBy
  <2>4. Recorded(c) /\ ~started[c] => Recorded(c)'
    BY <1>2, <1>3 DEF Recorded, Why, ExceededBy
  <2>5. Why(c, local[c]) => Why(c, local[c])'
    BY <1>2 DEF Why
  <2>6. ExceededBy(loop)' <=> ExceededBy(loop)
    BY <1>2 DEF ExceededBy
  <2>. QED  BY <1>1, <1>2, <1>3, <2>1, <2>3, <2>4, <2>5, <2>6 DEF RecordOf
<1>4. CASE TakeEvent(c)
  <2>1. /\ run[c] = "send" /\ run'[c] = "step" /\ todo[c] = << >>
        /\ todo'[c] = EventWork(sending[c].kind) /\ sending[c].kind \in Kinds
    BY <1>4 DEF TakeEvent, HookTake, HopTo, EventWork, WorkOK, TypeOK, LimitedTypes
  <2>2. /\ Doing(c, "startRun")' <=> sending[c].kind = "start"
        /\ Doing(c, "waiting_user")' <=> sending[c].kind = "asked"
        /\ Doing(c, "max_iterations")' <=> sending[c].kind = "exceeded"
        /\ todo'[c] \in ToVerify <=> sending[c].kind = "ended"
    BY <2>1, WorkBegins DEF Doing
  <2>3. /\ \A w : ~Doing(c, w)
        /\ todo[c] \notin ToVerify
    BY <2>1, MoreToDo DEF Doing
  <2>. QED  BY <1>2, <1>3, <2>1, <2>2, <2>3 DEF StartDue, AskDue, ExceedDue, EndDue, Recorded
<1>5. CASE Offer(c)
  <2>1. /\ todo[c] # << >> /\ Head(todo[c]) = "offer" /\ todo' = [todo EXCEPT ![c] = Tail(@)]
        /\ UNCHANGED run
    BY <1>5 DEF Offer, HookOffer
  <2>2. \A w \in {"startRun", "waiting_user", "max_iterations"} : ~Doing(c, w) /\ ~Doing(c, w)'
    <3>1. \A w \in {"startRun", "waiting_user", "max_iterations"} : ~Doing(c, w)'
      BY <2>1, WordDone
    <3>. QED  BY <2>1, <3>1 DEF Doing
  <2>3. todo'[c] \in ToVerify <=> todo[c] \in ToVerify
    BY <2>1, EndWords
  <2>4. Recorded(c) => FALSE
    BY <2>1 DEF Recorded
  <2>. QED  BY <1>2, <1>3, <2>1, <2>2, <2>3, <2>4 DEF StartDue, AskDue, ExceedDue, EndDue
<1>6. CASE EventsEnd(c)
  <2>1. /\ todo[c] = << >> /\ UNCHANGED run
        /\ todo'[c] = IF started[c] THEN <<"stopRun">> ELSE << >>
    BY <1>6 DEF EventsEnd, HookDrained, HopTo, WorkOK, LimitedTypes
  <2>2. /\ \A w \in {"startRun", "waiting_user", "max_iterations"} : ~Doing(c, w) /\ ~Doing(c, w)'
        /\ todo[c] \notin ToVerify /\ todo'[c] \notin ToVerify
    <3>1. <<"stopRun">> # << >> /\ Head(<<"stopRun">>) = "stopRun" /\ Tail(<<"stopRun">>) = << >>
      BY Tails
    <3>2. <<"stopRun">> \notin ToVerify /\ << >> \notin ToVerify
      BY <3>1, MoreToDo
    <3>. QED  BY <2>1, <3>1, <3>2 DEF Doing
  <2>3. Recorded(c) => run[c] # "send"
    BY DEF Recorded
  <2>. QED  BY <1>2, <1>3, <2>1, <2>2, <2>3 DEF StartDue, AskDue, ExceedDue, EndDue
<1>7. CASE WorkDone(c)
  <2>1. UNCHANGED <<run, todo>>
    BY <1>7 DEF WorkDone, HookBack, HookDone, hookVars
  <2>. QED  BY <1>2, <1>3, <2>1 DEF StartDue, AskDue, ExceedDue, EndDue, Doing, Recorded
<1>. QED  BY <1>4, <1>5, <1>6, <1>7

\* The work of the hook keeps what can be said of the record, and stopRun completes it.
LEMMA RecordWork ==
  ASSUME TypeOK, LockOK, LimitedTypes, AloneOK, IdsOK, WorkOK, FlowOK, RunOK, CountOK, SawOK,
         FreshOK, RecordOK, [LimitedNext]_limitedVars, Calm, middleware = "loop",
         UNCHANGED <<middleware, policy>>, NEW c \in Callers, Work(c), Only(c)',
         outcome'[c] # "error"
  PROVE  RecordOf(c)'
<1>1. /\ Live(c) /\ Only(c) /\ outcome[c] # "error" /\ replyID = c
      /\ hop[c] = "hold" => held[c] = c
      /\ RecordOf(c) /\ FlowOf(c) /\ SawOf(c) /\ RunOf(c)
      /\ phase[c] \in Phases \ {"input"}
      /\ todo[c] # << >> /\ todo' = [todo EXCEPT ![c] = Tail(@)] /\ UNCHANGED <<vars, replyVars>>
      /\ hop[c] = "hold" \/ Doing(c, "stopRun")
  BY HookAt, WorkWords DEF Hook, Live
<1>2. started[c] \/ StartDue(c)
  BY <1>1, HookAt DEF Hook
<1>3. UNCHANGED <<run, sending, phase, saw, made>>
  BY <1>1 DEF vars, replyVars
<1>4. /\ \A w \in {"startRun", "waiting_user", "max_iterations"} : ~Doing(c, w)'
      /\ Head(todo[c]) # "offer" => todo'[c] \notin ToVerify
  <2>1. \A w \in {"startRun", "waiting_user", "max_iterations"} : ~Doing(c, w)'
    BY <1>1, WordDone
  <2>2. Head(todo[c]) # "offer" => todo'[c] \notin ToVerify
    BY <1>1, EndWords
  <2>. QED  BY <2>1, <2>2
<1>5. /\ todo[c] \in ToVerify => Head(todo[c]) \in {"offer", "verify"}
      /\ Doing(c, "verify") => todo[c] \in ToVerify
  <2>1. Doing(c, "verify") => todo[c] \in ToVerify
    BY <1>1, EndWords DEF Doing
  <2>. QED  BY <2>1, MoreToDo
<1>7. CASE Doing(c, "startRun")
  <2>1. /\ StartRun(c) /\ started' = [started EXCEPT ![c] = TRUE] /\ UNCHANGED <<local, verdicts>>
        /\ loop' = Fresh
    <3>1. hop[c] = "hold"
      BY <1>1, <1>7 DEF Doing
    <3>. QED  BY <1>1, <1>7, <3>1, WorkAt DEF StartRun
  <2>2. \/ phase[c] \in {"top", "model", "called"}
             /\ ~(run[c] = "send" /\ sending[c].kind = "start")
        \/ phase[c] = "over" /\ run[c] = "send" /\ sending[c].kind = "exceeded"
    BY <1>1, <1>7, FlowWords
  <2>3. ~StartDue(c)' /\ started'[c]
    BY <1>3, <1>4, <2>1, <2>2 DEF StartDue, LimitedTypes
  <2>4. /\ "ended" \notin saw[c] /\ "asked" \notin saw[c]
        /\ "exceeded" \in saw[c] => run[c] = "send" /\ sending[c].kind = "exceeded"
    BY <1>1, <2>2 DEF SawOf, ExceedDue
  <2>5. ~Verified(c)' /\ LocalOf(c)' = "completed"
    BY <1>3, <2>4 DEF Verified, LocalOf, ExceedDue
  <2>6. local[c] = "completed" /\ verdicts[c]
    BY <1>1, <1>7 DEF RecordOf, StartDue
  <2>7. Underway(c)'
    BY <2>1, <2>5, <2>6 DEF Underway, Fresh
  <2>. QED  BY <2>3, <2>5, <2>7 DEF RecordOf
<1>8. CASE Doing(c, "count")
  <2>1. /\ loop'.iteration = loop.iteration /\ loop'.calls = loop.calls + 1
             /\ loop'.reason = loop.reason
        /\ UNCHANGED <<local, started, verdicts>>
    BY <1>8, WorkAt, LoopCounts DEF LimitedTypes
  <2>2. \A w \in {"startRun", "waiting_user", "max_iterations"} : ~Doing(c, w)
    BY <1>8 DEF Doing
  <2>3. /\ StartDue(c)' <=> StartDue(c)
        /\ AskDue(c)' <=> AskDue(c)
        /\ ExceedDue(c)' <=> ExceedDue(c)
        /\ EndDue(c)' <=> EndDue(c)
    BY <1>3, <1>4, <1>5, <1>8, <2>2 DEF StartDue, AskDue, ExceedDue, EndDue, Doing
  <2>4. (Verified(c)' <=> Verified(c)) /\ LocalOf(c)' = LocalOf(c)
    BY <1>3, <2>3 DEF Verified, LocalOf
  <2>5. ExceededBy(loop) => ExceededBy(loop)'
    BY <2>1 DEF ExceededBy, LimitedTypes, Counters
  <2>6. Underway(c) => Underway(c)'
    BY <2>1, <2>4, <2>5 DEF Underway
  <2>7. Why(c, local[c]) => Why(c, local[c])'
    BY <1>3, <2>1 DEF Why
  <2>. QED  BY <1>1, <1>2, <2>1, <2>3, <2>4, <2>5, <2>6, <2>7 DEF RecordOf
\* The events that stop the reply: its run has been started.
<1>9. ASSUME ~(run[c] = "send" /\ sending[c].kind = "start"), ~Doing(c, "startRun")
      PROVE  ~StartDue(c) /\ ~StartDue(c)' /\ started[c]
  BY <1>2, <1>3, <1>4, <1>9 DEF StartDue
<1>10. CASE Doing(c, "waiting_user")
  <2>1. \/ phase[c] = "answered" /\ run[c] = "step"
        \/ phase[c] = "over" /\ run[c] = "send" /\ sending[c].kind = "ended"
    BY <1>1, <1>10, FlowWords
  <2>2. /\ loop'.reason = "waiting_user" /\ local' = [local EXCEPT ![c] = "waiting_user"]
        /\ UNCHANGED <<started, verdicts>>
    BY <1>10, WorkAt, LoopCounts DEF LimitedTypes, Reasons
  <2>3. started[c] /\ ~StartDue(c)'
    BY <1>9, <1>10, <2>1 DEF Doing
  <2>4. /\ "asked" \in saw[c] /\ "exceeded" \notin saw[c]
        /\ "ended" \in saw[c] => run[c] = "send" /\ sending[c].kind = "ended"
    BY <1>1, <1>10, <2>1 DEF SawOf, AskDue, EndDue
  <2>5. ~Verified(c) /\ ~Verified(c)'
    BY <1>3, <2>4 DEF Verified, EndDue
  <2>6. LocalOf(c)' = "waiting_user"
    BY <1>3, <1>4, <2>1, <2>4 DEF LocalOf, AskDue
  <2>7. Underway(c)'
    BY <1>1, <2>2, <2>3, <2>5, <2>6 DEF RecordOf, Underway, LimitedTypes
  <2>. QED  BY <2>2, <2>3, <2>5, <2>7 DEF RecordOf
<1>11. CASE Doing(c, "max_iterations")
  <2>1. phase[c] = "over" /\ run[c] # "send"
    BY <1>1, <1>11, FlowWords
  <2>2. /\ loop'.reason = "max_iterations" /\ local' = [local EXCEPT ![c] = "max_iterations"]
        /\ UNCHANGED <<started, verdicts>>
    BY <1>11, WorkAt, LoopCounts DEF LimitedTypes, Reasons
  <2>3. started[c] /\ ~StartDue(c)'
    BY <1>9, <1>11, <2>1 DEF Doing
  <2>4. "exceeded" \in saw[c] /\ "ended" \notin saw[c]
    BY <1>1, <1>11, <2>1 DEF SawOf, ExceedDue
  <2>5. ~Verified(c) /\ ~Verified(c)'
    BY <1>3, <2>4 DEF Verified
  <2>6. LocalOf(c)' = "max_iterations"
    BY <1>3, <1>4, <2>1, <2>4 DEF LocalOf, ExceedDue
  <2>7. Underway(c)'
    BY <1>1, <2>2, <2>3, <2>5, <2>6 DEF RecordOf, Underway, LimitedTypes
  <2>. QED  BY <2>2, <2>3, <2>5, <2>7 DEF RecordOf
<1>12. CASE Doing(c, "verify")
  <2>1. phase[c] = "over" /\ run[c] # "send"
    BY <1>1, <1>12, FlowWords
  <2>2. started[c] /\ ~StartDue(c)'
    BY <1>9, <1>12, <2>1 DEF Doing
  <2>3. "ended" \in saw[c] /\ "exceeded" \notin saw[c]
    BY <1>1, <1>5, <1>12, <2>1 DEF SawOf, EndDue
  <2>4. ~Verified(c) /\ Verified(c)'
    BY <1>3, <1>4, <1>5, <1>12, <2>1, <2>3 DEF Verified, EndDue, Doing
  <2>5. LocalOf(c) = IF "asked" \in saw[c] THEN "waiting_user" ELSE "completed"
    BY <1>12, <2>1, <2>3 DEF LocalOf, AskDue, Doing
  <2>6. Underway(c)
    BY <1>1, <2>2, <2>4 DEF RecordOf
  <2>7. hop[c] = "hold" /\ held[c] = c
    BY <1>1, <1>12 DEF Doing
  <2>8. PICK passed \in BOOLEAN :
          /\ SetReason(AfterVerification(passed)) /\ AfterVerification(passed) \in Reasons
          /\ local' = [local EXCEPT ![c] = IF AfterVerification(passed) = "none" THEN @
                                           ELSE AfterVerification(passed)]
          /\ verdicts' = [verdicts EXCEPT ![c] = passed]
          /\ UNCHANGED started
    BY <1>12, <2>7, WorkAt
  <2>9. /\ loop'.iteration = loop.iteration /\ loop'.calls = loop.calls
        /\ verdicts'[c] = passed
        /\ local'[c] = IF AfterVerification(passed) = "none" THEN local[c]
             ELSE AfterVerification(passed)
    BY <2>8, LoopCounts DEF LimitedTypes
  <2>10. CASE passed
    <3>1. local'[c] = IF loop.reason = "none" THEN local[c] ELSE loop.reason
      BY <2>9, <2>10 DEF AfterVerification
    <3>2. /\ "asked" \in saw[c] => local'[c] = "waiting_user"
          /\ "asked" \notin saw[c] => local'[c] = "completed"
               \/ (local'[c] = "budget_exceeded" /\ ExceededBy(loop))
      BY <2>5, <2>6, <3>1 DEF Underway
    <3>3. Why(c, local[c])'
      BY <1>3, <2>3, <2>9, <2>10, <3>2 DEF Why
    <3>4. local'[c] = "budget_exceeded" => ExceededBy(loop)'
      BY <2>9, <3>2 DEF ExceededBy
    <3>. QED  BY <2>2, <2>4, <2>8, <3>3, <3>4 DEF RecordOf
  <2>11. CASE ~passed
    <3>1. local'[c] = "verifier_failed"
      BY <2>9, <2>11 DEF AfterVerification
    <3>2. Why(c, local[c])'
      BY <1>3, <2>3, <2>9, <2>11, <3>1 DEF Why
    <3>. QED  BY <2>2, <2>4, <2>8, <3>1, <3>2 DEF RecordOf
  <2>. QED  BY <2>10, <2>11
<1>13. CASE Doing(c, "stopRun")
  <2>1. phase[c] = "over" /\ run[c] # "send"
    BY <1>1, <1>13, FlowWords
  <2>2. started[c] /\ ~StartDue(c) /\ ~StartDue(c)'
    BY <1>9, <1>13, <2>1 DEF Doing
  <2>3. lastRun = c /\ todo'[c] = << >>
    <3>1. Ending(c) /\ todo'[c] = << >>
      BY <1>1, <1>13, WordDone
    <3>. QED  BY <1>1, <3>1 DEF RunOf, Only
  <2>4. /\ record'[c].calls = loop.calls /\ record'[c].iteration = loop.iteration
        /\ record'[c].reason = local[c]
        /\ started' = [started EXCEPT ![c] = FALSE] /\ UNCHANGED <<local, verdicts>>
    <3>1. StopRun(local[c]) /\ started' = [started EXCEPT ![c] = FALSE]
            /\ UNCHANGED <<local, verdicts>>
      BY <1>13, WorkAt
    <3>2. local[c] \in Reasons \ {"none"}
      BY DEF LimitedTypes
    <3>3. /\ loop'.iteration = loop.iteration /\ loop'.calls = loop.calls /\ loop'.reason = local[c]
          /\ record' = IF lastRun = NoReply THEN record ELSE [record EXCEPT ![lastRun] = loop']
      BY <3>1, <3>2, LoopCounts DEF LimitedTypes
    <3>4. record'[c] = loop'
      BY <2>3, <3>3, NoReplyAssumption DEF LimitedTypes
    <3>. QED  BY <3>1, <3>3, <3>4
  \* The counts.
  <2>5. loop.calls = made[c]
    <3>1. Unbroken(c)
      BY <1>1 DEF Unbroken, Only
    <3>2. CountOf(c)
      BY <1>1, <3>1 DEF CountOK
    <3>3. ~CountDue(c)
      BY <1>13, <2>1 DEF CountDue, Doing
    <3>4. made[c] = spent[c]
      BY <1>1 DEF FreshOK
    <3>. QED  BY <1>1, <2>2, <3>2, <3>3, <3>4 DEF CountOf
  \* The reason.
  <2>6. todo[c] \notin ToVerify
    BY <1>5, <1>13 DEF Doing
  <2>7. Why(c, local[c]) /\ (local[c] = "budget_exceeded" => ExceededBy(loop))
    <3>1. CASE Verified(c)
      BY <1>1, <2>2, <3>1 DEF RecordOf
    <3>2. CASE ~Verified(c)
      <4>1. "ended" \notin saw[c]
        BY <2>1, <2>6, <3>2 DEF Verified, EndDue
      <4>2. "exceeded" \in saw[c] /\ "asked" \notin saw[c]
        BY <1>1, <2>1, <4>1 DEF SawOf
      <4>3. LocalOf(c) = "max_iterations"
        BY <1>13, <2>1, <4>2 DEF LocalOf, ExceedDue, Doing
      <4>4. local[c] = "max_iterations"
        BY <1>1, <2>2, <3>2, <4>3 DEF RecordOf, Underway
      <4>. QED  BY <4>1, <4>2, <4>4 DEF Why
    <3>. QED  BY <3>1, <3>2
  <2>8. Recorded(c)'
    <3>1. Why(c, record[c].reason)'
      BY <1>3, <2>4, <2>7 DEF Why
    <3>2. record'[c].reason = "budget_exceeded" => ExceededBy(record[c])'
      BY <2>4, <2>7 DEF ExceededBy
    <3>. QED  BY <1>3, <2>1, <2>3, <2>4, <2>5, <3>1, <3>2 DEF Recorded
  <2>. QED  BY <2>2, <2>4, <2>8 DEF RecordOf, LimitedTypes
<1>. QED  BY <1>7, <1>8, <1>10, <1>11, <1>12, <1>13, WorkAt

\* A step of the callers and of their environment keeps what can be said of the records:
\* the caller leaves its reply when the run is over.
LEMMA RecordCaller ==
  ASSUME TypeOK, LockOK, LimitedTypes, AloneOK, IdsOK, WorkOK, RecordOK,
         Calm, middleware = "loop", UNCHANGED <<middleware, policy>>,
         NEW c \in Callers, Environment(c) \/ Caller(c),
         NEW e \in Callers, Only(e)', outcome'[e] # "error"
  PROVE  IF Live(e)' THEN RecordOf(e)' ELSE Recorded(e)'
<1>. USE DEF LimitedTypes, TypeOK
<1>1. /\ UNCHANGED <<limits, replyVars, hookVars>>
      /\ \A d \in Callers \ {c} : Unmoved(d)
      /\ \/ UNCHANGED <<pc[c], run[c], hop[c], outcome[c]>>
         \/ Live(c) /\ ~Live(c)' /\ pc'[c] = "returned" /\ UNCHANGED <<run[c], hop[c], outcome[c]>>
         \/ ~Live(c) /\ ~Live(c)' /\ UNCHANGED outcome[c]
         \/ outcome'[c] = "error" /\ UNCHANGED pc[c]
         \/ /\ UNCHANGED <<pc[c], hop[c], outcome[c]>>
            /\ run[c] \in {"errs", "close"} /\ run'[c] \in {"close", "done"}
  BY CallerFrame
<1>2. /\ Only(e) /\ outcome[e] # "error"
      /\ UNCHANGED <<loop, record, local, started, verdicts, phase, saw, made, sending, todo>>
  BY <1>1 DEF Only, Unmoved, limits, loopVars, replyVars, hookVars
<1>3. IF Live(e) THEN RecordOf(e) ELSE Recorded(e)
  BY <1>2 DEF RecordOK
<1>4. ASSUME run'[e] = "send" <=> run[e] = "send"
      PROVE  /\ RecordOf(e) => RecordOf(e)'
             /\ Recorded(e) => Recorded(e)'
  <2>1. /\ StartDue(e)' <=> StartDue(e)
        /\ Verified(e)' <=> Verified(e)
        /\ LocalOf(e)' = LocalOf(e)
    BY <1>2, <1>4 DEF StartDue, AskDue, ExceedDue, EndDue, Doing, Verified, LocalOf
  <2>2. Underway(e) => Underway(e)'
    BY <1>2, <2>1 DEF Underway, ExceededBy
  <2>3. Recorded(e) => Recorded(e)'
    BY <1>2, <1>4 DEF Recorded, Why, ExceededBy
  <2>4. Why(e, local[e]) => Why(e, local[e])'
    BY <1>2 DEF Why
  <2>5. ExceededBy(loop)' <=> ExceededBy(loop)
    BY <1>2 DEF ExceededBy
  <2>6. RecordOf(e) => RecordOf(e)'
    BY <1>2, <2>1, <2>2, <2>3, <2>4, <2>5 DEF RecordOf
  <2>. QED  BY <2>3, <2>6
<1>5. CASE UNCHANGED pc[e] /\ (run'[e] = "send" <=> run[e] = "send")
  BY <1>2, <1>3, <1>4, <1>5 DEF Live
<1>6. CASE e = c /\ Live(c) /\ ~Live(c)' /\ pc'[c] = "returned"
             /\ UNCHANGED <<run[c], hop[c], outcome[c]>>
  <2>1. hop[c] = "done"
    <3>1. hooks = "relay" /\ pc[c] = "range" /\ pc'[c] # "range"
      BY <1>6 DEF Calm, Live
    <3>2. RangeEnds(c)
      BY <3>1 DEF Environment, Caller, Lock, Cancel, Observe, Emit, EmitInline, Deliver,
                  EmitCancelled, Finish, PutErr, Close
    <3>. QED  BY <3>1, <3>2 DEF RangeEnds
  <2>2. ~started[c] /\ todo[c] = << >> /\ run[c] # "send"
    BY <2>1, HookFollows DEF WorkOK
  <2>3. Recorded(c)
    BY <1>3, <1>6, <2>2 DEF RecordOf, StartDue, Doing
  <2>. QED  BY <1>4, <1>6, <2>3
<1>7. CASE e = c /\ ~Live(c) /\ ~Live(c)'
  <2>1. Recorded(c) /\ run[c] # "send"
    BY <1>3, <1>7 DEF Recorded
  <2>2. run'[c] = "send" => run[c] = "send"
    BY DEF Environment, Caller, Lock, Cancel, Observe, RangeEnds, Return, Emit, EmitInline,
           Deliver, EmitCancelled, Finish, PutErr, Close
  <2>. QED  BY <1>4, <1>7, <2>1, <2>2
<1>8. CASE e # c
  BY <1>1, <1>5, <1>8 DEF Unmoved
<1>. QED  BY <1>1, <1>2, <1>5, <1>6, <1>7, <1>8

LEMMA RecordNext ==
  ASSUME TypeOK, LockOK, LimitedTypes, AloneOK, IdsOK, WorkOK, FlowOK, RunOK, CountOK, SawOK,
         FreshOK, RecordOK, [LimitedNext]_limitedVars
  PROVE  RecordOK'
<1>. SUFFICES ASSUME Calm', middleware' = "loop", NEW e \in Callers, Only(e)', outcome'[e] # "error"
              PROVE  IF Live(e)' THEN RecordOf(e)' ELSE Recorded(e)'
  BY DEF RecordOK
<1>1. Calm /\ middleware = "loop" /\ UNCHANGED <<middleware, policy>>
  BY SettingsStay, PolicyStays DEF Calm
<1>2. ASSUME NEW c \in Callers, Reply(c) \/ Hook(c), c # e
      PROVE  IF Live(e)' THEN RecordOf(e)' ELSE Recorded(e)'
  BY <1>1, <1>2, RecordElsewhere DEF Live
<1>3. ASSUME Reply(e) \/ Hook(e)  PROVE Live(e)'
  <2>1. pc'[e] = "range"
    BY <1>1, <1>3, ReplyFrame, HookFrame
  <2>2. phase'[e] # "input"
    <3>1. IdsOK'
      BY IdsNext
    <3>. QED  BY <1>1, <3>1, NoReplyAssumption DEF IdsOK, Only, Calm
  <2>. QED  BY <2>1, <2>2 DEF Live
<1>4. CASE Reply(e)
  BY <1>1, <1>3, <1>4, RecordReply
<1>5. CASE Hook(e)
  BY <1>1, <1>3, <1>5, RecordMove, RecordWork DEF Hook
<1>6. ASSUME NEW c \in Callers, Environment(c) \/ Caller(c)
      PROVE  IF Live(e)' THEN RecordOf(e)' ELSE Recorded(e)'
  BY <1>1, <1>6, RecordCaller
<1>7. CASE UNCHANGED limitedVars
  <2>1. UNCHANGED <<vars, limits, replyVars, hookVars>>
    BY <1>7 DEF limitedVars
  <2>2. Only(e) /\ outcome[e] # "error"
    BY <2>1 DEF Only, vars, replyVars
  <2>3. IF Live(e) THEN RecordOf(e) ELSE Recorded(e)
    BY <1>1, <2>2 DEF RecordOK
  <2>. QED
    BY <2>1, <2>3 DEF vars, limits, loopVars, replyVars, hookVars, Live, RecordOf, Recorded,
                      Underway, Why, Verified, LocalOf, StartDue, AskDue, ExceedDue, EndDue, Doing,
                      ExceededBy
<1>. QED  BY <1>2, <1>4, <1>5, <1>6, <1>7 DEF LimitedNext, Goroutine

-------------------------------------------------------------------------------
\* What the bounds on the runs and their records rest on, in one invariant.
LimitedOK ==
  /\ LimitedTypes /\ AloneOK /\ IdsOK /\ WorkOK /\ FlowOK /\ BudgetOK
  /\ RunOK /\ CountOK /\ SawOK /\ FreshOK /\ RecordOK

LEMMA LimitedInvariant == LimitedSpec => [](TypeOK /\ LockOK /\ ErrorsOK /\ LimitedOK)
<1>1. LimitedInit => LimitedOK
  BY LimitedTypesInit, AloneInit, IdsInit, WorkInit, FlowInit, BudgetInitial, RunInit, CountInit,
     SawInit, FreshInit, RecordInit
     DEF LimitedOK
<1>2. TypeOK /\ LockOK /\ LimitedOK /\ [LimitedNext]_limitedVars => LimitedOK'
  BY LimitedTypesNext, AloneNext, IdsNext, WorkNext, FlowNext, BudgetNext, RunNext, CountNext,
     SawNext, FreshNext, RecordNext
     DEF LimitedOK
<1>3. LimitedSpec => [](TypeOK /\ LockOK /\ ErrorsOK)
  BY LimitedRepliesAreReplies, Invariant, PTL
<1>. QED  BY <1>1, <1>2, <1>3, PTL DEF LimitedSpec

\* A run makes at most one model call more than its policy allows, over all the calls
\* that resume it, and a call one more than its budget, whatever the number of callers
\* and the limits, as long as no yield fails (OnReply, OnReasoning and OnModelCall of
\* the two middlewares): a hook that is abandoned counts into the run after its own.
THEOREM RunsAreBounded == LimitedSpec => []("yield" \notin faults => RunsBounded)
<1>1. ASSUME LimitedOK, "yield" \notin faults  PROVE RunsBounded
  <2>1. CASE middleware = "loop"
    BY <1>1, <2>1 DEF LimitedOK, Calm, CountOK, RunsBounded, Within
  <2>2. CASE middleware # "loop"
    BY <1>1, <2>2 DEF LimitedOK, Calm, BudgetOK, RunsBounded
  <2>. QED  BY <2>1, <2>2
<1>. QED  BY <1>1, LimitedInvariant, PTL

\* What the runtime records of a reply that one call has run to its end is what the
\* reply did: its model calls, and why it stopped, whatever the number of callers and
\* the limits, as long as no yield fails (startRun, stopRun and the cases of OnReply).
THEOREM RunRecordsAreTrue == LimitedSpec => []("yield" \notin faults => RunRecordTrue)
<1>1. ASSUME TypeOK, ErrorsOK, LimitedOK, "yield" \notin faults  PROVE RunRecordTrue
  <2>. SUFFICES ASSUME middleware = "loop", NEW c \in Callers, WholeReply(c)
                PROVE  Recorded(c)
    BY DEF RunRecordTrue, Recorded, Why
  <2>1. Calm /\ Only(c) /\ phase[c] # "input"
    BY <1>1, NoReplyAssumption DEF Calm, WholeReply, Only, LimitedOK, IdsOK
  <2>2. op[c] # "Observe" /\ pc[c] = "returned" /\ outcome[c] = "nil"
    BY <1>1, <2>1 DEF WholeReply, ErrorsOK, LimitedOK, AloneOK
  <2>. QED  BY <1>1, <2>1, <2>2 DEF LimitedOK, RecordOK, Live
<1>. QED  BY <1>1, LimitedInvariant, PTL

==============================================================================
