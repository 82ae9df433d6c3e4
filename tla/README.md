# AgentScope Go: a TLA+ verification project

AgentScope Go is a library for building agents: an agent keeps a conversation,
asks a language model what to do next, runs the tools the model calls, asks the
user or an outside executor where it must, and goes on until the model has
nothing more to call. Around that core lie permission rules, workspaces that may
be remote sandboxes, MCP servers, teams of agents and an automation layer that
turns events into agent runs.

This directory holds TLA+ modules of the parts in which state, concurrency and
failure meet, the configurations that let TLC check them, and proofs for TLAPS.

1. [The system](#1-the-system)
2. [Modules and the code they model](#2-modules-and-the-code-they-model)
3. [Runs: what is checked](#3-runs-what-is-checked)
4. [Findings](#4-findings)
5. [Proofs](#5-proofs)
6. [Bounds and fairness](#6-bounds-and-fairness)
7. [What is not modelled](#7-what-is-not-modelled)
8. [Plan](#8-plan)

## 1. The system

### Components

| Component | State | Operations | Speaks to |
| --- | --- | --- | --- |
| Agent reply flow (`pkg/agent`) | `AgentState` (context, reply ID, iteration), `Agent.mu` | `Reply`, `ReplyStream`, `Observe`; the reasoning-acting loop inside | model, toolkit, permission engine, hooks, the consumer of its events |
| Context compression (`pkg/agent/context*.go`) | replaces `state.Context`, `state.Summary` | `splitContextForCompression`, the strategies | the reply flow, between two steps of its loop |
| Messages and events (`pkg/message`) | content blocks with their states | append, clone, apply an event | everything |
| Permission engine (`pkg/permission`) | mode, rules, denial counters | `CheckPermission`, `AddRule` | the acting step; user confirmations |
| Agent state (`pkg/state`) | context, tasks, read cache, loop counters | `SafeAgentState`, task transitions | agent, tools, loop runtime |
| Tools and toolkit (`pkg/tool`, `builtin`, `task`, `skill`) | registered tools, active groups | find, run, reset | acting step, workspace backends |
| MCP client (`pkg/tool/mcp`) | connection, cached tool list; wrapped toolkit | list, get, call, invalidate | an MCP server, its notifications |
| Loop runtime and goals (`pkg/loop/runtime`, `automation/goal`) | counters and stop reason of a run | hooks that count events and enforce budgets; attempts until verified | event channel of a reply, verifier |
| Automation (`pkg/loop/automation`) | deduplication keys, run records, limiters | sources, `Scheduler`, `Runner`, stores, gates | brokers, agents, workspaces, files |
| Teams (`pkg/team`) | participants, teams, inboxes | TeamCreate, AgentCreate, TeamSay, TeamDelete, DrainInbox | agents of the team |
| Middleware (`pkg/middleware`) | per-reply budgets, memory, retrieval in flight | wrappers of the agent's hooks | event and chunk channels |
| Sandboxed workspace (`pkg/workspace/internal/sandboxed`) | proxies, gateway client, connection, skills, sessions | Initialize, AddMCP, RemoveMCP, Reset, Close, tools, storage | gateway in the sandbox, provider, files of the sandbox |
| Gateway (`pkg/workspace/gateway`) | servers it proxies | HTTP handlers, client, proxies | MCP servers, workspace |
| Providers (`pkg/model/*`, `pkg/embedding`, `pkg/audio`, `pkg/rag`, sandboxes, `extensions`) | handles of outside services | requests and streams | network |

### Interactions that are hard

* **A reply is resumable.** `Reply` returns while calls wait for the user or for
  an outside executor, and the next `Reply` picks them up from the states of the
  blocks in the context, which compaction, errors and new inputs have touched in
  between. Correct: a call runs at most once, only with a permission that still
  stands, serial calls run alone, nothing is left open, the model is asked at
  most `MaxIters` times for one reply.
* **The lock and the state belong to different goroutines.** With reply hooks the
  state is changed by the goroutine of `runReply` while `Agent.mu` is held by the
  consumer, who may leave. Correct: replies are serialized, errors reach the
  caller, nobody stays behind.
* **Permission decisions come in layers** (rules, read-only, mode, the tool's
  check, classifier, thresholds), between which user answers add rules. Correct:
  a deny or ask rule that has decided keeps deciding; silent denials are bounded.
* **An operation on a remote workspace is several remote calls long**, any of
  which may fail before or after it took effect, under a context that may end,
  in a process that may die; MCP calls go on beside it. Correct: list, gateway
  and file agree again, nothing added is lost, nothing removed comes back, no
  call runs while a server is taken away, every operation ends.
* **Two caches of one list, a notification, and one goroutine that reads the
  transport.** Correct: an old list is always about to be cleared, calls return.
* **Events are delivered at least once, handled concurrently and recorded in
  files.** Correct: one run per deduplication key, budgets, leases closed,
  acknowledged means processed, limits hold for cancelled calls too.
* **AgentCreate gives up the manager's mutex while the worker is built.** Correct:
  names in a team are unique, membership and inboxes agree.
* **Counters of a reply are kept by goroutines downstream of it.** Correct: a
  limit stops a reply after at most one model call more than it allows, and what
  is recorded of a run is what happened.
* **Two acting hooks put goroutines between a tool and the reply**, one of which
  stops waiting. Correct: every call has a result, in the end the real one, and
  what is published of the state is what changed.

## 2. Modules and the code they model

`PROJECT.json` names, for every definition, the lines it stands for. Common
conventions: a variable carries the name of the Go field it models where there
is one; a step between two points where other goroutines, remote parties or
callers can act is one action; a Go error return that may come from outside
(network, model, file, context) is a disjunct that is always possible; history
variables are marked as such in the declaration and never appear in a guard. A
definition whose comment begins with "Mutant:" is the form a plausible bug would
give the definition after it. No specification uses it; replacing the one by the
other shows that the property named in `PROJECT.json` can tell them apart.

### AgentReply, ToolCallLifecycle, MCAgentReply

`AgentReply` is `pkg/agent`: `runReply`, `continueReply`, `runReasoning`,
`runActing`, `toolBatchRunner` and the inputs of `Reply` and `Observe`.

| Model | Code |
| --- | --- |
| `first..last` | the messages of `state.Context`; compaction moves `first` |
| `mem["context"]`, `mem["orphan"]`, `at` | the blocks of the context, of a message compaction has replaced by a clone, and which of the two the loop's `assistant` pointer designates |
| `replyID`, `curIter` | `state.ReplyID`, `state.CurIter` |
| `pc` | the place in `continueReply` and `runActing`; `idle` when no reply runs |
| `todo`, `batch`, `ranBatch`, `after` | the calls left to `runActing`, `toolBatchRunner.batch`, the goroutines of `executeLocalToolBatch` that are back, and where the flow goes after a flush |
| `kind` | what `FindTool`, `IsConcurrencySafe`, `IsExternal` and the JSON of the input say of a call |
| `ReplyNil`, `ReplyMessage`, `ReplyConfirm`, `ReplyExternal` | the four inputs of `Reply`, through `applyIncomingEvent` and `resumableAssistant` |
| `ObserveMessage`, `ObserveConfirm`, `ObserveExternal` | `Observe` |
| `Top`, `Compact`, `Reason`, `AfterActing`, `Exceed`, `End` | one turn of the loop |
| `HandleUncallable`, `EngineError`, `HandleDenied`, `HandleAsk`, `HandleExternal`, `HandleLocal` | `prepareToolCall` with its ways out |
| `FlushBefore`, `RunBatched`, `Settle`, `Exec` | batches and serial execution |

A message is a number and a tool call is a number: order is all that matters of
them. `questions` is history: the calls put to the user from the context's own
message that no confirmation, external result or rejection has met since. With
`Faults`, every emit, model call, permission check and compression may fail, and the
reply ends there with whatever blocks it had changed.

`ToolCallLifecycle` is the abstract specification: the phases of one tool call,
that it runs at most once, only while its result is open and only with a
permission nobody has taken back. `AgentReply!PhaseOf` is the refinement mapping
(the phase is read off the two blocks in the context) and `ImplementsLifecycle`
the refinement.

### ReplyStream

`Agent.mu`, `ReplyStream`, `Reply`, `Observe`, `replyEventStream` and the hooks
around a reply: who holds the lock (`mu`), where the caller is (`pc`), where the
goroutine of `runReply` is (`run`) and that of a hook (`hop`), the buffered
`errs`, the closed flag of `events`, the cancelled stream context. `hooks` is how
the agent is set up: `none`, the reply on the caller's goroutine; `direct`, a hook
that returns `next(ctx)`, and the reply in a goroutine of its own; `relay`, a hook
that ranges over `next(ctx)` and sends each event on through a channel of its own,
as the loop runtime and the reply budget do. `Reply` is `ReplyStream` with a
yield that takes every event. What the reply does between two events is the
subject of `AgentReply`.

### LoopRuntime, ReplyBudget, LimitedReplies, MCLimitedReplies

`LoopRuntime` is the `Runtime` of `pkg/loop/runtime`: the loop context it keeps in
the agent's state (`loop`: iteration, model calls, stop reason), the limits of the
policy, and the last record of each run. `ReplyBudget` is the map of
`ReplyBudgetControlMiddleware`, with a model call as the unit of use.

`LimitedReplies` composes either with `ReplyStream` and with what the events of a
reply are. Upstream, `Reason` is the middleware's `OnReasoning` and `CallModel` its
`OnModelCall`; downstream, `TakeEvent`, `Work`, `Offer` and `EventsEnd` are the
goroutine of its `OnReply`, which has a list of things to do for each kind of
event (`LoopWork`, `BudgetWork`). With reasoning hooks `reason` runs in a goroutine
too, so the model may be called while the event before it is still being sent.
`saw`, `verdicts`, `made` and `spent` are history: what stopped a reply, and the
model calls of each call and of each reply. The empty stop reason is `"none"`.
`LimitedSpec => Spec` (section 5) is why everything proved of `ReplyStream` holds
of replies that are limited.

The runtime has a verifier and emits no events of its own
(`WithEventEmission(false)`) but the end of a verification, which it always sends.
Its limits on tool calls, tokens and time are counted like those on model calls
and left out; so are the hints that ask the model to wrap up.

### Team, ToolCalls, ActingHooks, TeamCalls, MCTeamCalls

`Team` is `pkg/team`: `participants`, `teams` and `sessionTeams` are the maps of
`Manager`, `inbox` the messages that wait in it. Every method is one action under
`Manager.mu`, but `AgentCreate`, which gives the mutex up twice (`CheckName`,
`BuildWorker`, `RegisterWorker`, `Join`), and `DrainInbox`, which clears an inbox
first (`TakeMail`) and lets the agent observe the messages afterwards
(`ObserveMail`). `sent`, `heard`, `built` and `unsure` are history.

`ActingHooks` is one tool call between the tool's channel and the reply, through
`ToolOffloadMiddleware` and `StateChangeMiddleware` in either order, one of them
or none: `place` is where the result is, `gave` what the offloading has returned,
`watch` the goroutine that compares the digests `before` and `after`.

`TeamCalls` composes them: the model of a leader or of a worker asks for the tools
of `script`, in order; a call left behind by a timer or a context runs on beside
the next. `TeamCreate`, `AgentCreate` and `TeamDelete` are not concurrency-safe and
run alone, `TeamSay` is and may be batched. Assumed of the application: leaders
are registered before their replies start, and a custom agent factory returns a
new agent each time. Tools answer with one chunk.

### PermissionEngine, MCPermissionEngine

`Engine.CheckPermission` with one action per layer that can decide, in the order
of the code, `AddRule`, and the counters of `AutoDenialState`. An element of
`Actions` is one tool with one input; a rule is the set of actions it matches, so
that pattern matching is external. `silent` and `ruled` are history.

### ContextSplit, MCContextSplit

`splitContextForSummary`: counting from the end, the unresolved work, then the
loop that adjusts the boundary so that no result is cut from its call, over any
context in which a result has its call in the same or an earlier message (which
an application can hand to the agent in its state). `AgentReply` has the contexts
the reply loop itself builds.

### Scheduler, MCScheduler

`gate.Scheduler.HandleEvent`: up to four limiters, each a buffered channel,
acquired in a fixed order and released by deferred calls. `stage` is how far a
call has come, `tokens` what each channel holds.

### AutomationRunner, MCAutomationRunner

`queue.Source` loops calling `Runner.HandleEvent` over one `FileRunStore` and a
`BudgetGate`. `broker` and `deliveries` are the message broker, `seen` and `file`
the deduplication in memory and on disk, `records` the lines of `runs.jsonl`.
`Crash` ends the process and opens the store again. `raced` is history: the keys
that two workers looked up before either marked them. `runner_lost` takes the
module as it is.

### ScheduledRuns, MCScheduledRuns

The two modules before it together: a queue source hands its message to
`Scheduler.HandleEvent`, whose handler is `Runner.HandleEvent`. `ScheduledRuns`
extends `AutomationRunner`, instantiates `Scheduler` as `Sched` with a worker and
its message as a call, and each of its actions is one of either or of both: the
runner moves only while its call is in the phase "handle" (`Handle`), the
scheduler returns a rejection or what the runner returned (`HandBack`), and only
then is the message settled (`SettleMessage`). A message that the scheduler
rejects, for want of room in the queue or because its context ended, goes back to
the broker as one that failed. A crash empties the channels, which die with the
process, and leaves the store.

### SandboxedWorkspace

`sandboxed.Workspace`: `Initialize`, `AddMCP`, `RemoveMCP`, `Reset`, `Close` and
the calls of MCP tools. The registry of servers exists three times: `mcps` on the
host, `live` in the gateway, `file` beside it. `pc` is the operation that holds
`w.mu` and the remote call it is about to make; every remote call may fail. If
`harsh`, which is chosen at the start, it may fail after it was carried out, and
the context of an operation may end (`Cancel`). `era` numbers the connections,
`closing` holds those whose `operationGate` is closing, `calls` the MCP calls with
the proxy they use. A crash of the host leaves the sandbox as it was, but for a
write of the file that was under way.

`fileIs` says whether there is an `.mcp` file and whether it decodes. No backend
promises that `WriteFile` replaces a file in one step (OpenSandbox uploads in
place), so a failed or interrupted write may leave what does not decode (`Torn`);
`restoreMCPConfigs` then takes the defaults and writes them over it, without an
error. `RemoveUnlisted` is `RemoveMCP` of a name that is not listed, which returns
nil and asks nobody. `kept` and `gone` are history: what `AddMCP` added, and what
`RemoveMCP` or `Reset` took away, without an error.

### DeferredTools

`mcp.DeferredToolkit` over `mcp.Client`: `t.mu` and `c.mu`, the two caches of the
tool list, `handleNotification` on the goroutine that reads the transport, and
the application's handler, which calls `Invalidate` itself (`inline`) or in a
goroutine. Server and transport are external. `GiveUp` takes the one answer its
caller no longer waits for off the wire (`Without`).

## 3. Runs: what is checked

| Run | Module, configuration | Shows |
| --- | --- | --- |
| `agent_calls` | `MCAgentReply`, `AgentReply_calls.cfg` | Two tool calls of all five kinds in up to three messages, faults everywhere, replies resumed in every order. `RunsAtMostOnce`, `RunsOnlyPermitted`, `IterationBound`, `SerialRunsAlone`, `NothingLeftRunning`, and `ImplementsLifecycle`. |
| `agent_compaction` | `MCAgentReply`, `AgentReply_compaction.cfg` | Compaction between any two steps of the loop. `QuestionsStand`: a question asked from the context's own message stands there until it is answered; `ReplyEnds`: every reply ends. |
| `agent_rerun` | `MCAgentReply`, `AgentReply_rerun.cfg` | Violation of `RunsAtMostOnce` after a compaction, see section 4. |
| `limited_replies` | `MCLimitedReplies`, `LimitedReplies_calls.cfg` | Two callers of seven agents: without hooks, with a hook that passes on, with one that relays, and with a policy of one iteration, one model call or none and a budget of one call. `Serialized` until a stream is abandoned, `NoLostError`, `RunsBounded`, `RunRecordTrue`, and `RunsEnd`: no goroutine of a call stays behind. |
| `perm_decisions` | `MCPermissionEngine`, `PermissionEngine_decisions.cfg` | All six modes, overlapping rules added at any time. `RulesStand` and `SilentDenialsBounded`. |
| `split_cut` | `MCContextSplit`, `ContextSplit_cut.cfg` | Every context of up to four messages of eight kinds and three budgets. `UnresolvedReserved`, `PairsNotSplit`, `BudgetKept` wherever the split ends, and `EndsUnlessCut`: it ends whenever every result is in the message of its call. |
| `sched_calls` | `MCScheduler`, `Scheduler_calls.cfg` | Four calls through a queue of three, two running slots, a limited source and a limited type. `CallsReturn` under fair channels; no deadlock. |
| `runner_events` | `MCScheduledRuns`, `ScheduledRuns_events.cfg` | Three workers, two messages of one event and one of another, through a queue of two, a limited type and two running slots to the runner; a budget of one and a crash. `RunsOncePerKey`, `BudgetScheduled`, `RunsWithinLimits`, `LeasesClosed`, `SuccessIsRecorded`. |
| `runner_lost` | `MCAutomationRunner`, `AutomationRunner_lost.cfg` | Violation of `AckedWasProcessed`, see section 4. |
| `sandbox_operations` | `SandboxedWorkspace`, `SandboxedWorkspace_operations.cfg` | Two servers, two failures per operation, writes that break off half-way, two connections, one crash, a tool call. `Agreement`, `SuccessLasts`, `Quiesced`, `OldErasAreOver`, `ConnectedIsListed`, `GateReopened`, `OperationsEnd`. |
| `mcp_calls` | `DeferredTools`, `DeferredTools_calls.cfg` | Two readers of the toolkit, two users of the client, two changes of the tools. `StaleIsCleared`, `CallsReturn`; no deadlock. |
| `team_calls` | `MCTeamCalls`, `TeamCalls_calls.cfg` | A leader and its workers, up to four calls of team tools and of tools that change the state, both acting hooks in every order, timers and contexts that end at any time, two drains. `TeamsAgree`, `NamesUnique`, `MailKept`, `TeamUpdatedAfterTool`, `ChangeReported`, `ResultsArrive`. |

Type invariants are not among the properties of the runs: those of `AgentReply`,
`LimitedReplies` (over `ReplyStream`), `PermissionEngine`, `Scheduler`,
`AutomationRunner`, `SandboxedWorkspace` and `TeamCalls` are theorems (section 5).
What the properties are about:

* **Agent.** `RunsAtMostOnce` and `RunsOnlyPermitted` relate what ran to what the
  user and the engine ever said, over replies that stop and resume.
  `NothingLeftRunning` says that an open result found while the agent is idle was
  handed outside or belongs to a reply an error ended. `SerialRunsAlone` is
  about a call that is not concurrency-safe behind calls that are batched.
  `IterationBound` counts passes of `runReasoning`; within one, `callModel` may ask
  the provider several times. `QuestionsStand` is about a question that was in the
  context when it was asked, over the compactions, replies and failures that
  follow; one that is asked after a compaction of the same reply is not in the
  context, and may be lost (section 4).
* **Stream.** `Serialized` is the promise of `Agent.mu`, with the one exception
  the code has (section 4). `NoLostError`: the caller reads `errs` without waiting,
  which is sound only because it is put before `events` is closed, and a hook
  closes its own channel only when those events have ended.
* **Limits.** `RunsBounded`: although what is counted downstream is consulted
  upstream, a run makes at most one model call more than its policy allows, and a
  call at most one more than its budget. `RunRecordTrue`: the calls and the stop
  reason on record are those of the reply, and `budget_exceeded` is recorded only of a
  run that had reached a limit.
* **Permission.** `RulesStand`: a deny or ask rule that has decided about an
  action is not undone by rules confirmed later. `SilentDenialsBounded`: the
  classifier denies silently less often, in a row and in all, than the limits.
* **Runner.** The gate reads what finished runs have recorded, so runs under way
  when the budget was reached may exceed it. `BudgetScheduled`: by less than
  `MaxConcurrent`, for what the scheduler holds back meets the gate when it gets
  in. `RunsWithinLimits` relates the scheduler's tokens to the agents that run.
  `RunsOncePerKey` excepts the keys two workers raced for. Of the runner alone
  the theorem `BudgetIsKept` says the weaker `BudgetHolds`, and of a scheduler with
  `MaxConcurrent` 1 `OneRunInTurn` says that no key is excepted.
* **Sandbox.** `Agreement` is unconditional as long as failed calls changed
  nothing, contexts last and no operation meets a third failure: rollbacks that fail
  and are reconciled are included, a reconciliation that fails as well is not.
  `SuccessLasts` holds without that proviso, across crashes: a server whose
  `AddMCP` returned without an error stays in the list and in the gateway, and in
  the file as long as that decodes; one that `RemoveMCP` or `Reset` took away, or
  that `RemoveMCP` found nowhere, stays out of all three, until somebody asks
  otherwise. It ends with an `Initialize` that meets a file that does not decode, and
  says nothing of a server that `RemoveMCP` did not find in the list although the
  gateway or the file had it (section 4).
* **MCP.** `StaleIsCleared`: a cache that holds an old list has a notification, a
  goroutine or a handler on its way, also if the list was asked for before the
  change and stored after it.
* **Teams.** `TeamsAgree` relates the three maps and the inboxes. `NamesUnique`: two
  of a team have one name only if the creation of one was left behind by the
  offloading or a context. `MailKept`: what was sent to a session is heard once and
  in order, or waits where a drain will find it, unless an `Observe` failed or two
  drains overlapped.
* **Acting hooks.** `TeamUpdatedAfterTool` and `ChangeReported`: a `team_updated`
  event follows the work of the tool, and a change a
  builtin tool made to the agent's state is published, and one of a function tool
  where the offloading, inside of `StateChange`, waited for it. `ResultsArrive`: every call gets an answer, and a call
  that was offloaded gives its result to the sink in the end.

## 4. Findings

Two disagreements between the code and its own comments are runs that end in a
counterexample:

* `agent_rerun` / `RunsAtMostOnce`. Compaction inside the loop replaces
  `state.Context` by clones (`context_strategy.go`, `input.State.Context =
  toReserve`) while `continueReply` goes on with its pointer to the old message.
  What the loop then does to a call is not seen by the context, and the next
  `Reply` finds the call pending there and runs it again.
* `runner_lost` / `AckedWasProcessed`. `recordIncomingEvent` marks an event
  before it is run and nothing takes the mark back: a redelivered event whose run
  failed or died is skipped and acknowledged.

Others were met while modelling. The model does what the code does, and the
properties are stated so that they hold beside them:

* The split of a context need not end. When a reserved result has its call in an
  earlier, compressed message, `firstUnpairedToolResultIndex` returns the index of
  the result itself, again and again (context_strategy.go:522, whose comment says
  "so repeat until it is stable"); the loop has no bound and does not look at its
  context. The reply loop builds no such context, an application's state may hold
  one; `EndsUnlessCut` excludes exactly these.
* The same orphaned pointer means that after a compaction inside the loop `Reply`
  returns a message that lacks what the loop did last.
* And a question is lost by it. `prepareToolCall` sets `asking` on the detached
  message (acting.go:160), and what the model proposes after a compaction of the
  same reply is there only too (agent.go:716): a call of it that the user is asked
  about is not in `state.Context`. `applyUserConfirmResults` (event_apply.go:236)
  does not find it, nothing is resumed, and the call the user allowed never runs.
  Only a call that was pending before the compaction is still pending in the
  context, and is answered or asked about again there. `QuestionsStand` speaks of
  the questions asked from the context's own message.
* With reply hooks a yield that fails frees `Agent.mu` while the goroutine of the
  reply runs on to its next emit (`ReplyStream!Abandoned`).
* No code reads `ReActConfig.StopOnReject`: the model is called again after a
  rejection (docs/zh/task/agent-config.md says it stops).
* In `dont_ask` mode an ask rule, or the ask of a tool's own check, is returned as
  ask (docs/en/task/permission.md: "Deny when a user decision would be required").
* `SeenEvent` and `RecordEvent` are two acquisitions of the store's lock: two
  concurrent handlings of one event both run it (`AutomationRunner!raced`).
* `AddMCP` whose gateway call was carried out but failed on the way back leaves a
  server in the gateway that `ListMCPs` does not return, and that is refused as a
  duplicate when it is added again. `RemoveMCP` of its name returns nil without
  asking the gateway (sandboxed/workspace.go:612), and a later reconciliation lists
  the server again. A `Reset` whose removal failed because its
  context ended reconciles with that same context, so not at all
  (`SandboxedWorkspace!Agreement` excludes both by `~harsh`).
* A write of `.mcp` that breaks off loses servers. The next `Initialize` ignores the
  decoding error and writes the defaults over the file
  (sandboxed/workspace.go:703, as workspace_test.go expects of an invalid file):
  every server whose `AddMCP` had succeeded is gone, and a removed default is back.
  A crash is not needed: `AddMCP` whose save fails half-way takes the new server
  from the gateway again, but does not write the file again, and the next save that
  succeeds may never come.
* A handler of `tools/list_changed` that calls `Invalidate` itself, as
  docs/zh/task/mcp.md proposes, can block the goroutine that reads while
  `ensureToolkit` waits, under `t.mu`, for what it would read
  (`DeferredTools!HandlerBlocks`).

Of the loop runtime and the reply budget:

* `startRun` runs in the goroutine of the hook when it receives `ReplyStart`,
  `beginReasoning` upstream, where nothing waits for it. The first pass of a new
  reply may still see the counters of the run before (and be barred from tools for
  them), and its own iteration is lost when `startRun` comes second: hence the
  `+ 1` of `RunsBounded`.
* `OnReasoning` sets `input["tool_choice"]`, which nothing reads; only `OnModelCall`
  bars tools (docs/en/task/loop-engineering.md: "the runtime injects a wrap-up hint
  before the next reasoning pass and sets `tool_choice=none`").
* A resumed reply has no `ReplyStart`. Its run keeps the stop reason
  `waiting_user` and is recorded with it although it completed, and if it exceeds
  `MaxIters` `stopRun` is not called at all. `RunRecordTrue` is therefore about
  replies that were not resumed.
* A reply that ended with an error is recorded as `completed`. A model call whose
  end did not reach the hook is not counted.
* When a yield fails, the hook's goroutine stays at `out <- event` for ever if
  the reply has one more event for it, since that send does not look at the
  context; and it may count one more event into the next run.
* The reply budget forgets a reply at its `ReplyEnd`, that of a reply which waits
  for the user too: what resumes it has the whole budget again. Replies that
  exceed or fail are never forgotten.

Of teams and acting hooks:

* `StateChange` evaluates the digest "after" as an argument of a `defer`, when its
  goroutine starts: what a function tool changes later is missed
  (`ActingHooks!kind` "later"). Registered outside of the offloading, it publishes
  when the placeholder arrives, and `team_updated` may come before the tool has
  worked.
* A tool the offloading gave up on, or whose context ended, runs on beside the
  next calls: two `AgentCreate` may then give two members one name, and a team
  deleted during a creation leaves a participant without a team.
* `DrainInbox` clears the inbox before the messages are observed: an `Observe`
  that fails loses the rest, and two drains at once may reorder them.

## 5. Proofs

`tlapm` checks every proof with its SMT backend, Zenon and, for temporal steps,
LS4. The only assumptions are those the modules name with `ASSUME`, which TLC
evaluates on every run. Each argument is an inductive invariant `IInv` (or
`TypeOK /\ SafeOK`): true initially, kept by every action, stronger than the
property. Type correctness comes first: `TypeCorrect`, `Spec => []TypeOK`
(`SchedulerTypes` for the scheduler, the conjunct `TypesOK` in
`DeferredToolsProofs`).

| Theorem | Says | The strengthening |
| --- | --- | --- |
| `AgentReplyProofs!TypeCorrect` | `Spec => []TypeOK` | `FlowOK`: the iteration counter is below `MaxIters` within an iteration, which `AfterActing` needs to stay in its type. |
| `AgentReplyProofs!IterationsBounded` | `Spec => []IterationBound` | `IterOK`: reasoning passes run ahead of counted iterations by one at most, and then pending calls stand between the reply and the next pass; `ShapeOK` places the reply in hand. |
| `AgentReplyProofs!RunsArePermitted` | `Spec => RunsOnlyPermitted` | `PermitOK`: a block that says "allowed" belongs to a permitted call, in the context only as long as its message is the last one, for rejections that arrive later are not applied. |
| `AgentReplyProofs!NothingIsLeftRunning`, `SerialCallsRunAlone` | `Spec => []NothingLeftRunning`, `[]SerialRunsAlone` | `WorkOK`: what runActing has in hand has no result, or an open one when it is batched or about to run; every other open result was handed outside or belongs to a failed reply. |
| `AgentReplyProofs!QuestionsAlwaysStand` | `Spec => []QuestionsStand` | `AskingOK`: a call that asks is of a message still in the context, and the loop has none of them in hand; `QuestionsOK`: the questions are such calls, and without a result. |
| `AgentReplyProofs!CallsRunAtMostOnce` | without compaction, `Spec => []RunsAtMostOnce` | `LifeOK`: the loop works on the context itself, and a block without a result is that of a call that has neither run nor been handed outside. With compaction it is false (`agent_rerun`). |
| `AgentReplyProofs!CallsHaveALifecycle` | without compaction, `Spec => ImplementsLifecycle` | the same; one lemma for each action of `AgentReply` names the step of `ToolCallLifecycle` it is. |
| `ReplyStreamProofs!SerializedUnlessAbandoned` | `Spec => []Serialized` | `LockOK`: whoever is in a reply or in `Observe` holds the mutex, or has abandoned its stream. |
| `ReplyStreamProofs!ErrorsAreReported` | `Spec => []NoLostError` | `ErrorsOK`: when the goroutine of a reply closes its events, `errs` holds what it returned, and a caller that returned nil is one whose reply had returned nil. |
| `ReplyStreamProofs!LimitedRepliesAreReplies` | `LimitedSpec => Spec` | none: each action of `LimitedReplies` is one of `ReplyStream` or leaves its variables alone. |
| `ReplyStreamProofs!RunsAreBounded` | `LimitedSpec => [](RunsBounded)` where no yield fails | `FlowOK`: phase by phase, the event a reply is at and the one its hook is at, which is the same or the one before; then `CountOK` and `BudgetOK`: what a reply has spent is what is counted, but for one call whose event is on its way, and a reply that may call its model again is within the limit. |
| `ReplyStreamProofs!RunRecordsAreTrue` | `LimitedSpec => [](RunRecordTrue)` where no yield fails | `RunOK` (whose the last run is), `SawOK` (a reply that has asked ends, one that exceeds neither asks nor ends) and `RecordOK`: until the verifier has had its say, the loop context and the hook give the reason the reply has come to so far; from `stopRun` on the record does. |
| `PermissionEngineProofs!SilentDenialsAreBounded` | `Spec => []SilentDenialsBounded` | `CountOK`: silent denials never outnumber the engine's own counters. |
| `PermissionEngineProofs!RulesAlwaysStand` | `Spec => []RulesStand` | `RuledOK`: an action a rule decided about is still matched by a rule of that group. |
| `ContextSplitProofs!UnresolvedStaysReserved`, `PairsStayTogether` | `Spec => []UnresolvedReserved`, `[]PairsNotSplit` | `CutOK`: until the adjusting loop moves it the boundary leaves no unresolved message behind, and a message it is moved to keeps a result whose call is not reserved, because what is reserved only shrinks. |
| `ContextSplitProofs!AdjustedSplitsNeverEnd` | a split that is returned was never adjusted | the same: what the loop of section 4 has moved once stays unpaired. |
| `ContextSplitProofs!BudgetIsKept` | `Spec => []BudgetKept` | `BudgetOK`: what is counted fits, or is the last message alone, and where the count stopped one more would not fit. |
| `ScheduledRunsProofs!LimitsAreKept` | `Sched!Spec => []Sched!LimitsHold` | `TokensOK`: a channel holds exactly one token for each call that has passed it; then cardinalities. |
| `ScheduledRunsProofs!UnracedKeysRunOnce` | `Spec => []RunsOncePerKey` | `DedupOK`: memory and file agree, what ran is marked, what is handled has not run, two workers never handle one key that is not raced. |
| `ScheduledRunsProofs!OneWorkerRunsOnce` | with one worker every key runs at most once | the same, and that one worker races with nobody. |
| `ScheduledRunsProofs!LeasesAreClosed`, `HandledIsRecorded` | `Spec => []LeasesClosed`, `Spec => []SuccessIsRecorded` | `RecordOK`: both together, step by step: a worker comes to `ack` only from the step that records its event, and leaves `close` without its lease. |
| `ScheduledRunsProofs!BudgetIsKept` | `Spec => []BudgetHolds`, for any finite set of workers | `BudgetOK`: once the budget is used up, the runs recorded and the workers whose next record may be one of a run are together fewer than the budget plus the workers; then cardinalities. |
| `ScheduledRunsProofs!ScheduledRunsAreRuns` | `ScheduledSpec => Spec`: what holds of the runner alone holds under a scheduler | none: each action is one of `AutomationRunner` or leaves its variables alone; a rejection is `CheckSeen` with an error. |
| `ScheduledRunsProofs!RunsAreLimited` | `ScheduledSpec => []RunsWithinLimits` | `TokensOK` again, kept by crashes too, and that a worker past the look-up has its call in the handler or on its way out of it. |
| `ScheduledRunsProofs!ScheduledBudgetIsKept` | `ScheduledSpec => []BudgetScheduled` | `BudgetOK`, the lemma of `BudgetIsKept`, with `MaxConcurrent` in the place of the number of workers, since only a worker with a running slot is past the gate. |
| `ScheduledRunsProofs!OneRunInTurn` | with `MaxConcurrent` 1, `ScheduledSpec` keeps every key to one run | no key is raced, for two handlers are never between look-up and mark; then `UnracedKeysRunOnce` through the refinement. |
| `SandboxedWorkspaceProofs!OperationsExclude`, `ConnectionsEnd`, `GateIsReopened` | `Quiesced`, `OldErasAreOver`, `GateReopened` | `Gate` (whose gate is closed where), `Leases` (a running call is one of this connection; a checked one is, or will find its gate closed), `Exclusion`. |
| `SandboxedWorkspaceProofs!SuccessIsLasting` | `Spec => []SuccessLasts` | `KeptOK`, `GoneOK`: a server that was added and not asked away is in the file, if it decodes, and of a live workspace in list and gateway, at every step of an operation; one that is gone is in none, and no step that undoes another adds it; `RestoreEffect`: what `Initialize` writes is what it read, or nothing is promised of it any more. |
| `SandboxedWorkspaceProofs!ProxiesAreListed` | `Spec => []ConnectedIsListed` | `ProxiesOK`: whoever is off the list, or about to be, has its proxies marked first. |
| `SandboxedWorkspaceProofs!PlacesAgree` | `Spec => []Agreement` | `AgreeOK`: at each step of each operation what list, gateway and file differ by, and how many failures it took to get there; two are not enough to come back with a difference. |
| `DeferredToolsProofs!StaleCachesAreCleared` | `Spec => []StaleIsCleared` | `LocksOK`, `OneAnswer` (one answer on the wire or in hand for whom it is due), `OrderOK` (an answer older than the tools has the notification of the change behind it on the wire) and `InHandOK` (the same of an answer in hand: the change is announced still, or being cleared). |
| `TeamProofs!MembersAgree` | `Spec => []TeamsAgree` | `NotYet`, `CreatesInTool`, `CallerRole`: a call whose handler runs has no team and no member yet, a creation is in a handler of `AgentCreate`, and a caller is of the role that has the tool. |
| `TeamProofs!TeamUpdatedIsTrue` | `Spec => []TeamUpdatedAfterTool` | `HooksOK`: what each hook has done by when; a result given is one that came out of the tool, and `StateChange` watches only what it was given. |
| `TeamProofs!ChangesAreReported` | `Spec => []ChangeReported` | `Reported`: a change shows in the version of its agent, which only grows, and so in a digest taken after it; the digests of a call that has published differ only if the change is published. |
| `TeamProofs!NamesAreUnique` | `Spec => []NamesUnique` | `SerialOK` (a reply waits for one call at a time, or for calls of `TeamSay`; one it no longer waits for was handled or left behind) and `NamesOK`: between the check of a name and the join only calls left behind take it, for the team has one leader. |
| `TeamProofs!MailIsKept` | `Spec => []MailKept` | `NoMailYet` (a worker that is not in a team was sent nothing) and `OneDrain` (two batches of one session in hand have made it unsure); then the associativity of concatenation. |

They hold for all constants: any number of calls, callers, workers, servers,
limits, and both values of every switch, unless the second column says otherwise.

Only model-checked, because the prover cannot: liveness (`ReplyEnds`, `RunsEnd`,
`CallsReturn`, `OperationsEnd`, `EndsUnlessCut`, `ResultsArrive`), for want of `ENABLED`; anything by induction
over data, whose library theorems take operators as parameters (that a set of numbers
has a least one, which `ContextSplitProofs!Least` needs, follows from the one about
well-founded relations, which does not); `RECURSIVE`
operators, of which the modules have none. Every invariant a passing run checks is
a theorem, but for the agents one of whose yields fails: of those `RunsBounded` and
`RunRecordTrue` are false (section 4: the abandoned hook counts into the run after
its own), the theorems exclude them by a hypothesis, and the bound `Agents` leaves
them out.

## 6. Bounds and fairness

| Bound | Value | Why it is enough |
| --- | --- | --- |
| `MaxIters` | 2 | one iteration that ends at the bound and one that does not |
| `CallBound`, `TurnCalls` | 2, 2 | two calls make a batch, a call behind a batch, a call that waits beside one that ran; with compaction one call is enough to be asked about, run or lost |
| `MsgBound` | 3 | a user message, a reply, and one more of either, so that a reply is no longer the last message |
| `Callers` (replies) | 2 | one reply that runs, is abandoned or waits to be resumed, and one that waits for the lock, resumes it or starts anew |
| `Agents`: policies, `Budget`, `maxIters` | 1 iteration or 1 call; 1; 1 or 3 | a limit is reached by the first pass, and two more could follow it; 1 lets a reply exceed `MaxIters` |
| `Agents`: `faults` | per agent | whether yields fail and contexts end, both where there is no middleware (with the relaying hook, yields only, for its size); contexts end with the budget and with a policy without limits; the yields of limited agents succeed, because an abandoned hook may count into the next run (section 4) |
| `AutoMaxConsecutiveDenials`, `AutoMaxTotalDenials`, `MaxDenials` | 3, 5, 7 | 3 is the limit of the code, 5 stands for its 20; distinct, each reached first in some order, and room to pass both |
| `MaxLen`, `Limits` (split) | 4, {0, 2, 4} | a compressed part and a reserved part of two messages; no budget, a tight one, a loose one |
| `Calls` (scheduler) | 4 | more than the queue takes, and two on each other limiter |
| `Workers`, `Messages`; queue, type, running (runner) | 3, 3; 2, 1, 2 | one more worker than the queue takes and than may run: a rejection, a race on one key beside an independent event, and a third run if a slot leaked. The workers are interchangeable (`WorkerSymmetry`): a path depends on the message only, and the run checks no liveness |
| `MaxDeliveries`, `MaxCrashes` (runner) | 1, 1 (`runner_lost`: 2, 1) | the second message of a key is to the runner what a redelivery of the first is, after a failure and after a restart; the theorems are for any number of either |
| `Names`, `Calls`, `MaxFaults`, `MaxEras`, `MaxCrashes` (sandbox) | 2, 1, 2, 2, 1 | a server added and another restored; an operation that fails and whose rollback fails; a proxy that outlives a connection |
| `Loads`, `Gets`, `MaxChanges` (MCP) | 2, 2, 2 | two holders for each mutex, and a change while another is being handled |
| `Settings`, `Calls`, `Drains` (teams) | 11 settings with scripts of 2 to 4 calls, 2 drains | two creations that overlap, a deletion during a creation and before a new team, mail to one and to all, mail of a deleted team, a change by a tool of either kind under each order of the hooks |

`CHECK_DEADLOCK FALSE` stands where the program may really stop: the bounded
conversation is used up, callers have returned, the split is done, messages are
delivered as often as allowed, the workspace is closed for good. The scheduler,
the permission engine and the tool caches never stop, and deadlock is checked.

Fairness is what the Go runtime and the environment give:

* *Weak fairness of a goroutine's next step* (`Flow`, `Goroutine`, `Operation`,
  `Runs`): a runnable goroutine is scheduled, and models, tools, yields and
  remote calls return, if by their timeout.
* *Strong fairness of taking a lock or a channel slot* (`Acquire`, `Locks`,
  `ClearCached`, `Invalidate`): `sync.Mutex` turns to starvation mode and hands
  itself to the longest waiter, and blocked senders of a channel are queued first
  in, first out.
* No fairness for users, applications, faults, cancellations and crashes: nobody
  has to answer, call again or fail.

## 7. What is not modelled

* Model, embedding, audio, RAG and document drivers, sandbox providers,
  credentials and extensions: conversions and network I/O with no state of their
  own that outlives a request.
* Wording, formatting, token counting, logs, metrics and traces: the modules take
  the outcome of such a computation from a set.
* The matching of permission rules, of routes and of templates: external.
* Hooks other than those of the loop runtime, the reply budget, the offloading
  and the state changes: `AgentReply` takes hooks as transparent. With two or
  more reply hooks counts may lag further than `RunsBounded` says.
* Retries and the fallback model of one reasoning pass (reasoning.go, `callModel`):
  one call a pass, so `IterationBound` and `RunsBounded` count passes, and a budget of
  tokens may be passed by what failed attempts have used. That the provider obeys
  `tool_choice` `none` is assumed.
* Streams abandoned by their consumers (agent.go, `yield` fails with reply hooks)
  beside team calls, and tools declared concurrency-safe other than `TeamSay`:
  `ReplyStream` has the first, `TeamCalls` neither, so its leaders handle the other
  team tools one at a time.
* What a drain does after it has become unsure of a session (`Team!unsure`):
  `MailKept` says nothing more of that session.
* `Connect` and `Close` of the sandbox's own proxies (gateway.go, outside `w.mu`).
* Hints, prompts, events and the remaining limits of the loop runtime; the JSON
  of state digests; tools of several chunks behind the acting hooks.
* Skills, sessions and blobs of the sandbox, the local workspace, the Go gateway
  server, the connecting and closing of an MCP client, groups of the toolkit.
* Reports, findings and costs of the automation layer; token and cost budgets.
* Torn lines of `events.jsonl`: an append is whole or fails.

Delays without a state of their own are left out as well: a remote tool holds the
mutex of its workspace for as long as it runs, so `ListMCPs` waits for it.

## 8. Plan

In this order; the number of runs is kept small, so a new component joins an
existing question or replaces a run that has become part of a larger one.

1. The goal runner (`automation/goal`): attempts until a verifier accepts, over
   replies that wait or exceed; the remaining limits of the loop runtime.
2. `SandboxedStorage`: skills, sessions and blobs under crashes; the Go gateway;
   `Connect` and `Close` of the MCP client.
3. Middleware with a life of its own: memory and retrieval; the embedding cache;
   the read cache and the task graph of
   `pkg/state`.
