------------------------------- MODULE ActingHooks -------------------------------
(***************************************************************************)
(* One local tool execution and the two acting hooks that change when its  *)
(* result arrives and what is published about it:                          *)
(* ToolOffloadMiddleware, which gives the reply a placeholder and the sink *)
(* the result when the tool is slow, and StateChangeMiddleware, which      *)
(* compares the state of the agent before and after.  Both put goroutines  *)
(* between the channel of the tool and the reply.                          *)
(*                                                                         *)
(* A tool of a builtin kind ("now") changes the state before its channel   *)
(* is returned, a function tool ("later") in a goroutine of its own.       *)
(***************************************************************************)
EXTENDS ToolCalls, Sequences

\* How the hooks may be registered, the outermost first.
Orders == {<<>>, <<"change">>, <<"offload">>, <<"change", "offload">>, <<"offload", "change">>}

VARIABLES
  hooks,      \* the acting hooks
  by,         \* who makes each call
  kind,       \* its tool: a function tool of a team, one that changes the state
              \* of the agent later, or now
  place,      \* where its result is
  gave,       \* what ToolOffload has returned
  watch,      \* the goroutine of StateChange
  ended,      \* is the reply done with the call
  version,    \* the state of each agent, as its digest tells it apart
  before,     \* the digests of StateChange
  after,
  changed,    \* did the tool change the state
  published   \* the changes that were published for each call

hookVars == <<hooks, by, kind, place, gave, watch, ended, version, before, after,
              changed, published>>

Kind == {"team", "later", "now"}

InitHooks(order) ==
  /\ hooks = order
  /\ by = [c \in Calls |-> None]
  /\ kind = [c \in Calls |-> "team"]
  /\ place = [c \in Calls |-> "none"]
  /\ gave = [c \in Calls |-> "none"]
  /\ watch = [c \in Calls |-> "none"]
  /\ ended = [c \in Calls |-> FALSE]
  /\ version = [a \in Sessions |-> 0]
  /\ before = [c \in Calls |-> 0]
  /\ after = [c \in Calls |-> 0]
  /\ changed = [c \in Calls |-> FALSE]
  /\ published = [c \in Calls |-> {}]

Has(h) == \E i \in DOMAIN hooks : hooks[i] = h

\* StateChange is the inner of the two hooks, or the only one.
ChangeInside == Has("change") /\ hooks[Len(hooks)] = "change"

\* StateChange is the outer of the two.
ChangeOutside == Has("change") /\ ~ChangeInside

\* The reply of a waits for the call c.
Awaited(a, c) == by[c] = a /\ ~ended[c]

-------------------------------------------------------------------------------
\* Mutant: before is taken when the tool has been started.
StartToolFirst(c, a, k) ==
  /\ by[c] = None
  /\ by' = [by EXCEPT ![c] = a]
  /\ kind' = [kind EXCEPT ![c] = k]
  /\ place' = [place EXCEPT ![c] = IF k = "now" THEN "channel" ELSE "tool"]
  /\ version' = [version EXCEPT ![a] = IF k = "now" THEN @ + 1 ELSE @]
  /\ before' = [before EXCEPT ![c] = version'[a]]
  /\ changed' = [changed EXCEPT ![c] = (k = "now")]
  /\ UNCHANGED <<hooks, gave, watch, ended, after, published>>

\* executeLocalTool: the hooks are entered and the tool is started.  before is
\* taken, and a builtin tool has done its work when its channel is returned.
StartTool(c, a, k) ==
  /\ by[c] = None
  /\ by' = [by EXCEPT ![c] = a]
  /\ kind' = [kind EXCEPT ![c] = k]
  /\ before' = [before EXCEPT ![c] = version[a]]
  /\ place' = [place EXCEPT ![c] = IF k = "now" THEN "channel" ELSE "tool"]
  /\ version' = [version EXCEPT ![a] = IF k = "now" THEN @ + 1 ELSE @]
  /\ changed' = [changed EXCEPT ![c] = (k = "now")]
  /\ UNCHANGED <<hooks, gave, watch, ended, after, published>>

\* The goroutine of a function tool has run its handler: one chunk, and close.
FinishTool(c) ==
  /\ place[c] = "tool"
  /\ place' = [place EXCEPT ![c] = "channel"]
  /\ version' = [version EXCEPT ![by[c]] = IF kind[c] = "later" THEN @ + 1 ELSE @]
  /\ changed' = [changed EXCEPT ![c] = (kind[c] = "later")]
  /\ UNCHANGED <<hooks, by, kind, gave, watch, ended, before, after, published>>

\* publishChanges, with the digests b and a.
Publish(c, b, a) ==
  published' = [published EXCEPT ![c] = @ \cup (IF b # a THEN {"state_updated"} ELSE {})
                                          \cup (IF kind[c] = "team" THEN {"team_updated"} ELSE {})]

\* What the outermost hook returned for c is an error, or a channel that can be
\* read to its end at once: so the reply does.
EndCall(c) == ended' = [ended EXCEPT ![c] = TRUE]

\* ToolOffload returns x: so the call ends, unless StateChange is outside of it
\* and has a channel to pass on.
Give(c, x) ==
  /\ gave' = [gave EXCEPT ![c] = x]
  /\ IF ChangeOutside /\ x # "error" THEN UNCHANGED ended ELSE EndCall(c)

\* No hook: the reply reads the channel of the tool.
ReadResult(c) ==
  /\ hooks = <<>> /\ place[c] = "channel"
  /\ place' = [place EXCEPT ![c] = "reply"]
  /\ EndCall(c)
  /\ UNCHANGED <<hooks, by, kind, gave, watch, version, before, after, changed, published>>

\* The goroutine of StateChange starts: the after digest is an argument of its
\* deferred publishChanges, so it is taken now, before the first chunk.  Inside
\* ToolOffload that is any time after the tool was started, outside of it any
\* time after ToolOffload returned.
StartWatch(c) ==
  /\ Has("change") /\ watch[c] = "none" /\ by[c] # None
  /\ ChangeInside \/ gave[c] \in {"result", "placeholder"}
  /\ watch' = [watch EXCEPT ![c] = "on"]
  /\ after' = [after EXCEPT ![c] = version[by[c]]]
  /\ UNCHANGED <<hooks, by, kind, place, gave, ended, version, before, changed, published>>

\* Mutant: StateChange publishes, whether or not it has passed the chunk on.
PublishFirst(c) ==
  /\ watch[c] = "on"
  /\ IF ChangeInside /\ place[c] = "tool"
       THEN UNCHANGED <<place, ended, watch>>
       ELSE /\ place' = [place EXCEPT ![c] =
                  IF hooks = <<"offload", "change">> THEN "passed"
                  ELSE IF gave[c] = "placeholder" THEN @ ELSE "reply"]
            /\ watch' = [watch EXCEPT ![c] = "off"]
            /\ IF hooks = <<"offload", "change">> THEN UNCHANGED ended ELSE EndCall(c)
  /\ Publish(c, before[c], after[c])
  /\ UNCHANGED <<hooks, by, kind, gave, version, before, after, changed>>

\* The chunk has passed through StateChange: it publishes and closes its
\* channel, to the collector of ToolOffload or to the reply.
FinishWatch(c) ==
  /\ watch[c] = "on"
  /\ ChangeInside => place[c] = "channel"
  /\ IF hooks = <<"offload", "change">>
       THEN place' = [place EXCEPT ![c] = "passed"] /\ UNCHANGED ended
       ELSE /\ place' = IF gave[c] = "placeholder" THEN place
                        ELSE [place EXCEPT ![c] = "reply"]
            /\ EndCall(c)
  /\ watch' = [watch EXCEPT ![c] = "off"]
  /\ Publish(c, before[c], after[c])
  /\ UNCHANGED <<hooks, by, kind, gave, version, before, after, changed>>

\* The collector of ToolOffload has drained what is inside of it.
Collected(c) == place[c] = IF ChangeInside THEN "passed" ELSE "channel"

\* ToolOffload takes the result; with the timer and the context ready as well
\* the select may choose any.
TakeResult(c) ==
  /\ Has("offload") /\ Collected(c) /\ gave[c] = "none"
  /\ Give(c, "result")
  /\ place' = IF ended'[c] THEN [place EXCEPT ![c] = "reply"] ELSE place
  /\ UNCHANGED <<hooks, by, kind, watch, version, before, after, changed, published>>

\* The timer fires: the reply gets a placeholder, and deliverOffloadedResult
\* waits for the result.
TimeOut(c) ==
  /\ Has("offload") /\ by[c] # None /\ gave[c] = "none"
  /\ Give(c, "placeholder")
  /\ UNCHANGED <<hooks, by, kind, place, watch, version, before, after, changed, published>>

\* The context of the reply ends: an error, beside which StateChange outside of
\* ToolOffload publishes at once.  The tool and the collector go on.
ContextDone(c) ==
  /\ Has("offload") /\ by[c] # None /\ gave[c] = "none"
  /\ Give(c, "error")
  /\ IF ChangeOutside
       THEN /\ after' = [after EXCEPT ![c] = version[by[c]]]
            /\ Publish(c, before[c], version[by[c]])
       ELSE UNCHANGED <<after, published>>
  /\ UNCHANGED <<hooks, by, kind, place, watch, version, before, changed>>

\* Mutant: the context of the reply is the one the sink is called with.
DeliverUnlessEnded(c) ==
  /\ Has("offload") /\ Collected(c) /\ gave[c] = "placeholder" /\ ~ended[c]
  /\ place' = [place EXCEPT ![c] = "sink"]
  /\ UNCHANGED <<hooks, by, kind, gave, watch, ended, version, before, after, changed, published>>

\* deliverOffloadedResult
DeliverOffloaded(c) ==
  /\ Has("offload") /\ Collected(c) /\ gave[c] = "placeholder"
  /\ place' = [place EXCEPT ![c] = "sink"]
  /\ UNCHANGED <<hooks, by, kind, gave, watch, ended, version, before, after, changed, published>>

\* The goroutines of the hooks and the reply, as far as they concern c; the
\* timer and the context are not among them.
Settle(c) ==
  \/ ReadResult(c)
  \/ StartWatch(c)
  \/ FinishWatch(c)
  \/ TakeResult(c)
  \/ DeliverOffloaded(c)

-------------------------------------------------------------------------------
HooksTypeOK ==
  /\ hooks \in Orders
  /\ by \in [Calls -> Sessions \cup {None}]
  /\ kind \in [Calls -> Kind]
  /\ place \in [Calls -> {"none", "tool", "channel", "passed", "reply", "sink"}]
  /\ gave \in [Calls -> {"none", "result", "placeholder", "error"}]
  /\ watch \in [Calls -> {"none", "on", "off"}]
  /\ ended \in [Calls -> BOOLEAN]
  /\ version \in [Sessions -> Nat]
  /\ before \in [Calls -> Nat]
  /\ after \in [Calls -> Nat]
  /\ changed \in [Calls -> BOOLEAN]
  /\ published \in [Calls -> SUBSET {"state_updated", "team_updated"}]

\* A team tool has done its work when team_updated is published for it, unless
\* StateChange is outside of ToolOffload and that has given the call up
\* ("TeamUpdatedEvent is published when a configured team tool finishes").
TeamUpdatedAfterTool ==
  \A c \in Calls : "team_updated" \in published[c] =>
    \/ place[c] # "tool"
    \/ ChangeOutside /\ gave[c] \in {"placeholder", "error"}

\* A change that the tool of a call made is published when the call has ended,
\* if the tool is a builtin, or if ToolOffload, inside of StateChange, waited
\* for it: the after digest of StateChange itself is taken too early.
ChangeReported ==
  \A c \in Calls : ended[c] /\ changed[c] /\ Has("change") =>
    \/ "state_updated" \in published[c]
    \/ kind[c] = "later" /\ ~(ChangeOutside /\ gave[c] = "result")
    \/ gave[c] \in {"placeholder", "error"}

\* The result of a call that was made reaches the reply, or the sink of
\* ToolOffload, or its context has ended; and StateChange has published.
ResultsArrive ==
  \A c \in Calls : by[c] # None ~>
    /\ ended[c]
    /\ place[c] \in {"reply", "sink"} \/ gave[c] = "error"
    /\ Has("change") => watch[c] = "off" \/ gave[c] = "error"

==============================================================================
