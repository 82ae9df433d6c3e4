-------------------------------- MODULE Scheduler --------------------------------
(***************************************************************************)
(* gate.Scheduler.HandleEvent: concurrent calls that pass the limiters of  *)
(* the queue, of their source, of their type and of the runs, each a       *)
(* buffered channel used as a counting semaphore, call the handler, and    *)
(* release what they hold in the reverse order.                            *)
(***************************************************************************)
EXTENDS Naturals, FiniteSets

CONSTANTS
  Calls,      \* goroutines that call HandleEvent, again and again
  Limiters,   \* the channels
  NoLimit,    \* no limiter is configured for this source or type
  Capacity,   \* their capacities
  Path        \* the limiters of a call: queue, source, type, running

ASSUME CallsAssumption    == IsFiniteSet(Calls)
ASSUME NoLimitAssumption  == NoLimit \notin Limiters
ASSUME CapacityAssumption == Capacity \in [Limiters -> Nat \ {0}]

Stages == 1..4

\* The four maps of a Scheduler are disjoint: no channel serves two purposes.
ASSUME PathAssumption ==
  /\ Path \in [Calls -> [Stages -> Limiters \cup {NoLimit}]]
  /\ \A c \in Calls : /\ Path[c][1] # NoLimit /\ Path[c][4] # NoLimit
                      /\ \A i, j \in Stages : Path[c][i] = Path[c][j] =>
                                                i = j \/ Path[c][i] = NoLimit

VARIABLES
  phase,    \* where each call is
  stage,    \* how many limiters it has passed and not released
  tokens    \* how many tokens each channel holds

vars == <<phase, stage, tokens>>

-------------------------------------------------------------------------------
Init ==
  /\ phase = [c \in Calls |-> "idle"]
  /\ stage = [c \in Calls |-> 0]
  /\ tokens = [l \in Limiters |-> 0]

\* HandleEvent is called with a valid event.
Call(c) ==
  /\ phase[c] = "idle"
  /\ phase' = [phase EXCEPT ![c] = "up"]
  /\ UNCHANGED <<stage, tokens>>

\* The limiter c has to pass next.
Ahead(c) == Path[c][stage[c] + 1]

\* Mutant: a call passes a full limiter without a token.
AcquireWithoutToken(c) ==
  /\ phase[c] = "up" /\ stage[c] < 4
  /\ IF Ahead(c) = NoLimit
       THEN UNCHANGED tokens
       ELSE tokens' = [tokens EXCEPT ![Ahead(c)] = IF @ < Capacity[Ahead(c)] THEN @ + 1 ELSE @]
  /\ stage' = [stage EXCEPT ![c] = @ + 1]
  /\ UNCHANGED phase

\* acquireQueue and acquireSlot: a token goes in while there is room.
Acquire(c) ==
  /\ phase[c] = "up" /\ stage[c] < 4
  /\ IF Ahead(c) = NoLimit
       THEN UNCHANGED tokens
       ELSE /\ tokens[Ahead(c)] < Capacity[Ahead(c)]
            /\ tokens' = [tokens EXCEPT ![Ahead(c)] = @ + 1]
  /\ stage' = [stage EXCEPT ![c] = @ + 1]
  /\ UNCHANGED phase

\* Mutant: a call that gives up releases nothing.
GiveUpLeaking(c) ==
  /\ phase[c] = "up" /\ stage[c] < 4 /\ Ahead(c) # NoLimit
  /\ phase' = [phase EXCEPT ![c] = "idle"]
  /\ stage' = [stage EXCEPT ![c] = 0]
  /\ UNCHANGED tokens

\* ctx.Done() before a token goes in.
GiveUp(c) ==
  /\ phase[c] = "up" /\ stage[c] < 4 /\ Ahead(c) # NoLimit
  /\ phase' = [phase EXCEPT ![c] = "down"]
  /\ UNCHANGED <<stage, tokens>>

\* acquireQueue does not wait: ErrSchedulerQueueFull.
QueueFull(c) ==
  /\ phase[c] = "up" /\ stage[c] = 0
  /\ tokens[Ahead(c)] = Capacity[Ahead(c)]
  /\ phase' = [phase EXCEPT ![c] = "down"]
  /\ UNCHANGED <<stage, tokens>>

\* s.handler.HandleEvent is called ...
Handle(c) ==
  /\ phase[c] = "up" /\ stage[c] = 4
  /\ phase' = [phase EXCEPT ![c] = "handle"]
  /\ UNCHANGED <<stage, tokens>>

\* ... and returns.
Handled(c) ==
  /\ phase[c] = "handle"
  /\ phase' = [phase EXCEPT ![c] = "down"]
  /\ UNCHANGED <<stage, tokens>>

\* The deferred releaseSlot of the limiter passed last.
Release(c) ==
  /\ phase[c] = "down" /\ stage[c] > 0
  /\ tokens' = IF Path[c][stage[c]] = NoLimit THEN tokens
               ELSE [tokens EXCEPT ![Path[c][stage[c]]] = @ - 1]
  /\ stage' = [stage EXCEPT ![c] = @ - 1]
  /\ UNCHANGED phase

Return(c) ==
  /\ phase[c] = "down" /\ stage[c] = 0
  /\ phase' = [phase EXCEPT ![c] = "idle"]
  /\ UNCHANGED <<stage, tokens>>

Next ==
  \E c \in Calls :
    \/ Call(c) \/ Acquire(c) \/ GiveUp(c) \/ QueueFull(c)
    \/ Handle(c) \/ Handled(c) \/ Release(c) \/ Return(c)

Spec == Init /\ [][Next]_vars

\* Goroutines run and handlers return; a channel serves its blocked senders in
\* turn, so a sender that finds room again and again gets in.
Fairness ==
  \A c \in Calls : /\ SF_vars(Acquire(c))
                   /\ WF_vars(QueueFull(c) \/ Handle(c) \/ Handled(c) \/ Release(c) \/ Return(c))

FairSpec == Spec /\ Fairness

-------------------------------------------------------------------------------
TypeOK ==
  /\ phase \in [Calls -> {"idle", "up", "handle", "down"}]
  /\ stage \in [Calls -> 0..4]
  /\ tokens \in [Limiters -> Nat]

\* The calls that have passed limiter l and not released it.
Holders(l) == {c \in Calls : \E i \in Stages : i <= stage[c] /\ Path[c][i] = l}

\* The calls in the handler that are subject to limiter l.
InHandler(l) == {c \in Calls : phase[c] = "handle" /\ \E i \in Stages : Path[c][i] = l}

\* No limit is exceeded by the events in the handler, in all, per source and
\* per type, whatever calls were rejected or cancelled on their way
\* (SchedulerPolicy).
LimitsHold == \A l \in Limiters : Cardinality(InHandler(l)) <= Capacity[l]

\* Every call comes back, admitted or rejected: no order of acquisitions and
\* cancellations blocks the others for ever or leaks a slot.
CallsReturn == \A c \in Calls : phase[c] = "up" ~> phase[c] = "idle"

==============================================================================
