------------------------------ MODULE ReplyStream ------------------------------
(***************************************************************************)
(* Agent.ReplyStream, Agent.Reply and Agent.Observe as the callers of one  *)
(* agent see them: Agent.mu, and, when reply hooks are registered, the     *)
(* goroutine of replyEventStream that runs runReply and hands its events   *)
(* over an unbuffered channel to the caller that holds the lock, or to the *)
(* goroutine of a hook that relays them to the caller over a second one.   *)
(*                                                                         *)
(* What runReply does is AgentReply's subject; here it is a series of      *)
(* events, each applied to the state before it is emitted, and a result.   *)
(* LimitedReplies says which events, and what a relaying hook makes of     *)
(* them.                                                                   *)
(***************************************************************************)

CONSTANTS
  Callers,      \* goroutines that call the agent, each once
  NoCaller,     \* Agent.mu is free
  YieldFails,   \* may the caller's yield return an error
  Cancels       \* may the caller's context be cancelled

ASSUME NoCallerAssumption == NoCaller \notin Callers
ASSUME SwitchesAssumption == /\ YieldFails \in BOOLEAN /\ Cancels \in BOOLEAN

VARIABLES
  hooks,      \* reply hooks: none, one that returns next(ctx), one that relays
  mu,         \* who holds Agent.mu
  op,         \* what each caller has called
  pc,         \* where each caller is
  run,        \* where the runReply of each caller is
  outcome,    \* what it has returned
  errs,       \* the channel errs of replyEventStream, of capacity one
  closed,     \* is the channel events closed
  hop,        \* where the goroutine of the relaying hook is
  cancelled,  \* is streamCtx cancelled
  result      \* what the call has returned

vars == <<hooks, mu, op, pc, run, outcome, errs, closed, hop, cancelled,
          result>>

\* Reply is a ReplyStream whose yield takes every event.
Op     == {"ReplyStream", "Observe"}
Result == {"none", "nil", "error"}
Hooks  == {"none", "direct", "relay"}

\* runReply of c may touch the agent's state.
Running(c) == run[c] \in {"step", "send"}

-------------------------------------------------------------------------------
Init ==
  /\ hooks \in Hooks
  /\ mu = NoCaller
  /\ op = [c \in Callers |-> "Observe"]
  /\ pc = [c \in Callers |-> "idle"]
  /\ run = [c \in Callers |-> "none"]
  /\ outcome = [c \in Callers |-> "none"]
  /\ errs = [c \in Callers |-> "none"]
  /\ closed = [c \in Callers |-> FALSE]
  /\ hop = [c \in Callers |-> "off"]
  /\ cancelled = [c \in Callers |-> FALSE]
  /\ result = [c \in Callers |-> "none"]

\* Mutant: Observe does not wait for the lock.
LockUnlessObserve(c, o) ==
  /\ pc[c] = "idle" /\ (mu = NoCaller \/ o = "Observe")
  /\ mu' = IF o = "Observe" THEN mu ELSE c
  /\ op' = [op EXCEPT ![c] = o]
  /\ pc' = [pc EXCEPT ![c] = IF o = "Observe" THEN "observe"
                             ELSE IF hooks = "none" THEN "inline" ELSE "range"]
  /\ run' = [run EXCEPT ![c] = IF o = "Observe" THEN "none" ELSE "step"]
  /\ hop' = [hop EXCEPT ![c] =
               IF o # "Observe" /\ hooks = "relay" THEN "wait" ELSE "off"]
  /\ UNCHANGED <<hooks, outcome, errs, closed, cancelled, result>>

\* a.mu.Lock(), then the reply is run here or by a goroutine.
Lock(c, o) ==
  /\ pc[c] = "idle" /\ mu = NoCaller
  /\ mu' = c
  /\ op' = [op EXCEPT ![c] = o]
  /\ pc' = [pc EXCEPT ![c] = IF o = "Observe" THEN "observe"
                             ELSE IF hooks = "none" THEN "inline" ELSE "range"]
  /\ run' = [run EXCEPT ![c] = IF o = "Observe" THEN "none" ELSE "step"]
  /\ hop' = [hop EXCEPT ![c] =
               IF o # "Observe" /\ hooks = "relay" THEN "wait" ELSE "off"]
  /\ UNCHANGED <<hooks, outcome, errs, closed, cancelled, result>>

\* The call of c returns r: the deferred cancel and Unlock.
Return(c, r) ==
  /\ mu' = NoCaller
  /\ pc' = [pc EXCEPT ![c] = "returned"]
  /\ cancelled' = [cancelled EXCEPT ![c] = TRUE]
  /\ result' = [result EXCEPT ![c] = r]

\* Observe applies its input under the lock.
Observe(c) ==
  /\ pc[c] = "observe"
  /\ \E r \in {"nil", "error"} : Return(c, r)
  /\ UNCHANGED <<hooks, op, run, outcome, errs, closed, hop>>

\* The caller's context ends.
Cancel(c) ==
  /\ Cancels
  /\ pc[c] \in {"range", "inline"} /\ ~cancelled[c]
  /\ cancelled' = [cancelled EXCEPT ![c] = TRUE]
  /\ UNCHANGED <<hooks, mu, op, pc, run, outcome, errs, closed, result, hop>>

\* runReply returns r: to its caller, or to the goroutine around it.
Finish(c, r) ==
  /\ outcome' = [outcome EXCEPT ![c] = r]
  /\ IF pc[c] = "inline"
       THEN run' = [run EXCEPT ![c] = "done"] /\ Return(c, r)
       ELSE run' = [run EXCEPT ![c] = "errs"] /\ UNCHANGED <<mu, pc, cancelled, result>>

\* runReply applies its next event and is about to emit it.
Apply(c) ==
  /\ run[c] = "step"
  /\ run' = [run EXCEPT ![c] = "send"]
  /\ UNCHANGED <<hooks, mu, op, pc, outcome, errs, closed, hop, cancelled, result>>

\* runReply has no more events: it returns r.
End(c, r) ==
  /\ run[c] = "step"
  /\ Finish(c, r)
  /\ UNCHANGED <<hooks, op, errs, closed, hop>>

\* emit without a goroutine: yield is called, or the event dropped (Reply).
EmitInline(c) ==
  /\ run[c] = "send" /\ pc[c] = "inline"
  /\ \/ /\ run' = [run EXCEPT ![c] = "step"]
        /\ UNCHANGED <<mu, pc, outcome, cancelled, result>>
     \/ YieldFails /\ Finish(c, "error")
  /\ UNCHANGED <<hooks, op, errs, closed, hop>>

\* The event passes to the caller, whose yield takes it or fails; the
\* goroutine goes on in both cases.
Deliver(c) ==
  /\ hooks = "direct" /\ run[c] = "send" /\ pc[c] = "range"
  /\ run' = [run EXCEPT ![c] = "step"]
  /\ \/ UNCHANGED <<mu, pc, cancelled, result>>
     \/ YieldFails /\ Return(c, "error")
  /\ UNCHANGED <<hooks, op, outcome, errs, closed, hop>>

\* emit of the goroutine gives up: ctx.Done().
EmitCancelled(c) ==
  /\ run[c] = "send" /\ pc[c] # "inline" /\ cancelled[c]
  /\ Finish(c, "error")
  /\ UNCHANGED <<hooks, op, errs, closed, hop>>

\* errs <- a.runReply(...)
PutErr(c) ==
  /\ run[c] = "errs"
  /\ errs' = [errs EXCEPT ![c] = outcome[c]]
  /\ run' = [run EXCEPT ![c] = "close"]
  /\ UNCHANGED <<hooks, mu, op, pc, outcome, closed, cancelled, result, hop>>

\* Mutant: the channel is closed before the error is put.
CloseFirst(c) ==
  /\ run[c] = "errs"
  /\ closed' = [closed EXCEPT ![c] = TRUE]
  /\ UNCHANGED <<hooks, mu, op, pc, run, outcome, errs, cancelled, result, hop>>

\* Mutant: the channel is left open.
LeaveOpen(c) ==
  /\ run[c] = "close"
  /\ run' = [run EXCEPT ![c] = "done"]
  /\ UNCHANGED <<hooks, mu, op, pc, outcome, errs, closed, cancelled, result, hop>>

\* close(events)
Close(c) ==
  /\ run[c] = "close"
  /\ closed' = [closed EXCEPT ![c] = TRUE]
  /\ run' = [run EXCEPT ![c] = "done"]
  /\ UNCHANGED <<hooks, mu, op, pc, outcome, errs, cancelled, result, hop>>

\* hop of c goes from p to q.
HopTo(c, p, q) == hop[c] = p /\ hop' = [hop EXCEPT ![c] = q]

\* The relaying hook's goroutine takes the next event of the reply.
HookTake(c) ==
  /\ HopTo(c, "wait", "hold") /\ run[c] = "send"
  /\ run' = [run EXCEPT ![c] = "step"]
  /\ UNCHANGED <<hooks, mu, op, pc, outcome, errs, closed, cancelled, result>>

\* out <- event: an event of the reply or of the hook's own.  The send has no
\* way out when the caller is gone.
HookOffer(c) ==
  /\ hop[c] \in {"hold", "last"} /\ pc[c] = "range"
  /\ \/ UNCHANGED <<mu, pc, cancelled, result>>
     \/ YieldFails /\ Return(c, "error")
  /\ UNCHANGED <<hooks, op, run, outcome, errs, closed, hop>>

\* The hook has dealt with the event; the events end; the hook closes out.
HookBack(c) ==
  HopTo(c, "hold", "wait")
  /\ UNCHANGED <<hooks, mu, op, pc, run, outcome, errs, closed, cancelled, result>>

HookDrained(c) ==
  closed[c] /\ HopTo(c, "wait", "last")
  /\ UNCHANGED <<hooks, mu, op, pc, run, outcome, errs, closed, cancelled, result>>

HookDone(c) ==
  HopTo(c, "last", "done")
  /\ UNCHANGED <<hooks, mu, op, pc, run, outcome, errs, closed, cancelled, result>>

\* The range over the events ends, and streamErr() takes the error if there is one.
RangeEnds(c) ==
  /\ pc[c] = "range"
  /\ IF hooks = "relay" THEN hop[c] = "done" ELSE closed[c]
  /\ Return(c, IF errs[c] = "none" THEN "nil" ELSE errs[c])
  /\ UNCHANGED <<hooks, op, run, outcome, errs, closed, hop>>

\* An event is handed over, or the reply's goroutine ends.
Emit(c) ==
  \/ EmitInline(c)
  \/ Deliver(c)
  \/ EmitCancelled(c)
  \/ PutErr(c)
  \/ Close(c)

\* The goroutine of a hook that relays the events.
Relay(c) ==
  \/ HookTake(c)
  \/ HookOffer(c)
  \/ HookBack(c)
  \/ HookDrained(c)
  \/ HookDone(c)

Next ==
  \E c \in Callers :
    \/ \E o \in Op : Lock(c, o)
    \/ Observe(c)
    \/ Cancel(c)
    \/ Apply(c)
    \/ \E r \in {"nil", "error"} : End(c, r)
    \/ Emit(c)
    \/ Relay(c)
    \/ RangeEnds(c)

Spec == Init /\ [][Next]_vars

-------------------------------------------------------------------------------
TypeOK ==
  /\ hooks \in Hooks
  /\ mu \in Callers \cup {NoCaller}
  /\ op \in [Callers -> Op]
  /\ pc \in [Callers -> {"idle", "observe", "inline", "range", "returned"}]
  /\ run \in [Callers -> {"none", "step", "send", "errs", "close", "done"}]
  /\ outcome \in [Callers -> Result]
  /\ errs \in [Callers -> Result]
  /\ closed \in [Callers -> BOOLEAN]
  /\ hop \in [Callers -> {"off", "wait", "hold", "last", "done"}]
  /\ cancelled \in [Callers -> BOOLEAN]
  /\ result \in [Callers -> Result]

\* With reply hooks, a yield that fails takes the caller out of the reply, and
\* the lock with it, while the goroutine goes on to its next event.
Abandoned(c) ==
  hooks # "none" /\ YieldFails /\ pc[c] = "returned" /\ result[c] = "error" /\ cancelled[c]

\* While the reply of one caller may touch the state, no other reply and no
\* Observe does, unless a failed yield abandoned one of the two (the mutex of
\* ReplyStream, Reply and Observe).
Serialized ==
  \A c, d \in Callers :
    c # d /\ Running(c) /\ (Running(d) \/ pc[d] = "observe") =>
      Abandoned(c) \/ (Running(d) /\ Abandoned(d))

\* A reply that failed is not reported as a success, whichever goroutine ran
\* it (errs and its default case in replyEventStream).
NoLostError ==
  \A c \in Callers : op[c] # "Observe" /\ result[c] = "nil" => outcome[c] = "nil"

\* A reply that was started ends, whether its caller is still there or not, its
\* caller returns (cancel, ctx.Done in emit), and so does the hook that relays
\* its events, unless its caller has abandoned it.
RunsEnd ==
  \A c \in Callers :
    Running(c) ~> /\ run[c] = "done" /\ pc[c] = "returned"
                  /\ hop[c] \in {"off", "done"} \/ Abandoned(c)

==============================================================================
