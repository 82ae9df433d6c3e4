------------------------------ MODULE ScheduledRuns ------------------------------
(***************************************************************************)
(* Queue sources over a gate.Scheduler over the Runner: a source hands its *)
(* message to Scheduler.HandleEvent, whose handler is Runner.HandleEvent.  *)
(* What the scheduler rejects never reaches the runner and goes back to    *)
(* the broker.                                                             *)
(***************************************************************************)
EXTENDS AutomationRunner

CONSTANTS
  Limiters, NoLimit, Capacity, Path,  \* of the Scheduler
  Running                             \* its channel for all runs, of MaxConcurrent

\* A worker with a message calls the scheduler.
Calls == Workers \X Messages

ASSUME FiniteAssumption == IsFiniteSet(Workers) /\ IsFiniteSet(Messages)
ASSUME LimitersAssumption ==
  /\ NoLimit \notin Limiters /\ Capacity \in [Limiters -> Nat \ {0}]
  /\ Running \in Limiters

\* Every call passes the limiter of the runs last.
ASSUME CallPathAssumption ==
  /\ Path \in [Calls -> [1..4 -> Limiters \cup {NoLimit}]]
  /\ \A c \in Calls : /\ Path[c][1] # NoLimit /\ Path[c][4] = Running
                      /\ \A i, j \in 1..4 : Path[c][i] = Path[c][j] =>
                                              i = j \/ Path[c][i] = NoLimit

VARIABLES phase, stage, tokens

Sched == INSTANCE Scheduler

gates == <<phase, stage, tokens>>

ScheduledInit == Init /\ Sched!Init

CallOf(w) == <<w, message[w]>>

\* The source calls the scheduler with what it received.
HandOver(w, m) == Receive(w, m) /\ Sched!Call(<<w, m>>)

\* The scheduler lets the call through or rejects it, and gives its slots back.
Schedule(w) ==
  /\ pc[w] # "idle"
  /\ \/ Sched!Acquire(CallOf(w)) \/ Sched!GiveUp(CallOf(w)) \/ Sched!QueueFull(CallOf(w))
     \/ Sched!Handle(CallOf(w)) \/ Sched!Release(CallOf(w))
     \/ pc[w] \in {"ack", "skip", "nack"} /\ Sched!Handled(CallOf(w))
  /\ UNCHANGED vars

\* Runner.HandleEvent.
Handle(w) ==
  /\ pc[w] # "idle" /\ phase[CallOf(w)] = "handle"
  /\ \/ CheckSeen(w) \/ RecordEvent(w) \/ RouteAndGate(w) \/ RecordStopped(w)
     \/ AllocateWorkspace(w) \/ MapInput(w) \/ Run(w) \/ CloseLease(w) \/ Finish(w)
  /\ UNCHANGED gates

\* The scheduler returns the runner's result, or the error of its rejection.
HandBack(w) ==
  /\ pc[w] # "idle" /\ Sched!Return(CallOf(w))
  /\ \/ pc[w] # "check" /\ UNCHANGED vars
     \/ /\ pc[w] = "check" /\ Goto(w, "nack")
        /\ UNCHANGED <<broker, deliveries, message, failed, leased, store, history, crashes>>

\* handleMessage settles the message when the scheduler has returned.
SettleMessage(w) ==
  /\ pc[w] # "idle" /\ phase[CallOf(w)] = "idle"
  /\ Ack(w) \/ Nack(w)
  /\ UNCHANGED gates

\* The channels die with the process.
CrashAll ==
  /\ Crash
  /\ phase'  = [c \in Calls |-> "idle"]
  /\ stage'  = [c \in Calls |-> 0]
  /\ tokens' = [l \in Limiters |-> 0]

ScheduledNext ==
  \/ \E w \in Workers :
       \/ \E m \in Messages : HandOver(w, m)
       \/ Schedule(w) \/ Handle(w) \/ HandBack(w) \/ SettleMessage(w)
  \/ CrashAll

ScheduledSpec == ScheduledInit /\ [][ScheduledNext]_<<vars, gates>>

-------------------------------------------------------------------------------
\* The workers in the agent whose events pass the limiter l.
InAgent(l) == {w \in Workers : pc[w] = "run" /\ \E i \in 1..4 : Path[CallOf(w)][i] = l}

\* The limits of all runs, of a source and of a type bound the runs of the agent,
\* whatever was rejected, cancelled or failed on the way, and over crashes.
RunsWithinLimits == \A l \in Limiters : Cardinality(InAgent(l)) <= Capacity[l]

\* The runs on record exceed the budget at most by those the scheduler lets run
\* at a time: what it holds back meets the budget gate when it gets in.
BudgetScheduled == MaxRunsPerDay > 0 => recorded < MaxRunsPerDay + Capacity[Running]

\* With MaxConcurrent 1 the look-ups of an event never race: the agent runs at
\* most once for the events of a key.
RunsOnceInTurn == Capacity[Running] = 1 => \A k \in Keys : runs[k] <= 1

==============================================================================
