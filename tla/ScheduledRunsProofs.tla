-------------------------- MODULE ScheduledRunsProofs --------------------------
(***************************************************************************)
(* Deduplication survives failures, redeliveries and crashes: the event is *)
(* in the file before its run, and what is in the file is not run again.   *)
(* The one way to a second run is the race of two workers between          *)
(* SeenEvent and RecordEvent.  The scheduler keeps every limit: a channel  *)
(* holds one token for each call that has passed it, and the calls in the  *)
(* handler have passed all of theirs.  Together, the limit of the runs     *)
(* bounds what exceeds the budget, and a limit of one ends the race.       *)
(***************************************************************************)
EXTENDS ScheduledRuns, FiniteSetTheorems, TLAPS

USE KeyAssumption, NoMessageAssumption, NumbersAssumption DEF Steps

\* The steps from the look-up of an event to its run.
Handling == {"record", "gate", "allocate", "map", "run"}

\* An event that is being handled was never run; it is marked once RecordEvent
\* is through, and not before unless its key is raced.
Fresh(w) ==
  /\ pc[w] # "idle" => message[w] \in Messages
  /\ pc[w] \in Handling => KeyOf(w) \in raced \/ runs[KeyOf(w)] = 0
  /\ pc[w] = "record" => KeyOf(w) \in raced \/ KeyOf(w) \notin seen
  /\ pc[w] \in Handling \ {"record"} => KeyOf(w) \in seen

\* Two workers never handle events of one key unless it is raced.
Apart(v, w) ==
  v # w /\ pc[v] \in Handling /\ pc[w] \in Handling /\ KeyOf(v) = KeyOf(w)
    => KeyOf(w) \in raced

DedupOK ==
  /\ seen = file
  /\ \A k \in Keys : runs[k] > 0 => k \in seen
  /\ \A w \in Workers : Fresh(w)
  /\ \A v, w \in Workers : Apart(v, w)
  /\ RunsOncePerKey

IInv == TypeOK /\ DedupOK

LEMMA InitIInv == Init => IInv
  BY DEF Init, IInv, TypeOK, DedupOK, Fresh, Apart, Handling, RunsOncePerKey

\* A worker's message has a key.
LEMMA KeyType == ASSUME TypeOK, NEW w \in Workers, Fresh(w), pc[w] # "idle"
                 PROVE  KeyOf(w) \in Keys
  BY DEF TypeOK, Fresh, KeyOf

LEMMA NextType == ASSUME IInv, [Next]_vars PROVE TypeOK'
<1> USE DEF IInv, TypeOK
<1>1. ASSUME NEW w \in Workers, NEW m \in Messages, Receive(w, m) PROVE TypeOK'
  <2>1. deliveries[m] + 1 \in 0..MaxDeliveries
    BY <1>1 DEF Receive
  <2> QED BY <1>1, <2>1 DEF Receive, Goto, store, history
<1>2. ASSUME NEW w \in Workers, CheckSeen(w) PROVE TypeOK'
  <2>1. KeyOf(w) \in Keys
    BY <1>2, KeyType DEF CheckSeen, DedupOK
  <2>2. raced' \subseteq Keys
    BY <1>2, <2>1 DEF CheckSeen, Races
  <2>3. pc' \in [Workers -> Steps]
    BY <1>2 DEF CheckSeen, Goto
  <2>4. \A v \in Workers : pc'[v] = "idle" <=> message'[v] = NoMessage
    BY <1>2 DEF CheckSeen, Goto
  <2> QED BY <1>2, <2>2, <2>3, <2>4 DEF CheckSeen, store
<1>3. ASSUME NEW w \in Workers, RecordEvent(w) PROVE TypeOK'
  <2>1. KeyOf(w) \in Keys
    BY <1>3, KeyType DEF RecordEvent, DedupOK
  <2> QED BY <1>3, <2>1 DEF RecordEvent, Goto, history
<1>4. ASSUME NEW w \in Workers, RouteAndGate(w) PROVE TypeOK'
  BY <1>4, ZenonT(60) DEF RouteAndGate, Goto, store, history
<1>5. ASSUME NEW w \in Workers, RecordStopped(w) PROVE TypeOK'
  <2>1. KeyOf(w) \in Keys
    BY <1>5, KeyType DEF RecordStopped, DedupOK
  <2>2. records' \in Nat /\ onRecord' \subseteq Keys
    BY <1>5, <2>1 DEF RecordStopped
  <2>3. pc' \in [Workers -> Steps]
    BY <1>5 DEF RecordStopped, Goto
  <2>4. \A v \in Workers : pc'[v] = "idle" <=> message'[v] = NoMessage
    BY <1>5 DEF RecordStopped, Goto
  <2> QED BY <1>5, <2>2, <2>3, <2>4 DEF RecordStopped
<1>6. ASSUME NEW w \in Workers, AllocateWorkspace(w) PROVE TypeOK'
  BY <1>6, ZenonT(60) DEF AllocateWorkspace, Goto, store, history
<1>7. ASSUME NEW w \in Workers, MapInput(w) PROVE TypeOK'
  BY <1>7, ZenonT(60) DEF MapInput, Goto, store, history
<1>8. ASSUME NEW w \in Workers, Run(w) PROVE TypeOK'
  <2>1. KeyOf(w) \in Keys
    BY <1>8, KeyType DEF Run, DedupOK
  <2>2. runs' \in [Keys -> Nat]
    <3>1. runs[KeyOf(w)] + 1 \in Nat
      BY <2>1
    <3> QED BY <1>8, <2>1, <3>1 DEF Run
  <2>3. finished' \subseteq Keys
    BY <1>8, <2>1 DEF Run
  <2>4. failed' \in [Workers -> BOOLEAN]
    BY <1>8 DEF Run
  <2>5. pc' \in [Workers -> Steps]
    BY <1>8 DEF Run, Goto
  <2>6. UNCHANGED <<broker, deliveries, message, leased, seen, file, records, recorded, onRecord,
                   raced, crashes>>
    BY <1>8 DEF Run, store
  <2>7. \A v \in Workers : pc'[v] = "idle" <=> message'[v] = NoMessage
    BY <1>8 DEF Run, Goto
  <2> QED BY <2>2, <2>3, <2>4, <2>5, <2>6, <2>7
<1>9. ASSUME NEW w \in Workers, CloseLease(w) PROVE TypeOK'
  BY <1>9 DEF CloseLease, Goto, store, history
<1>10. ASSUME NEW w \in Workers, Finish(w) PROVE TypeOK'
  <2>1. KeyOf(w) \in Keys
    BY <1>10, KeyType DEF Finish, DedupOK
  <2>2. records' \in Nat /\ recorded' \in Nat /\ onRecord' \subseteq Keys
    BY <1>10, <2>1 DEF Finish, Recorded
  <2> QED BY <1>10, <2>2 DEF Finish, Goto
<1>11. ASSUME NEW w \in Workers, Ack(w) \/ Nack(w) PROVE TypeOK'
  <2>1. PICK b \in {"acked", "ready"} : Settle(w, b)
    BY <1>11 DEF Ack, Nack
  <2> QED BY <2>1 DEF Settle, Goto, store, history
<1>12. CASE Crash
  BY <1>12 DEF Crash, history
<1>13. CASE UNCHANGED vars
  BY <1>13 DEF vars
<1> QED BY <1>1, <1>2, <1>3, <1>4, <1>5, <1>6, <1>7, <1>8, <1>9, <1>10, <1>11, <1>12, <1>13
        DEF Next

\* A step that neither marks an event nor runs one, and takes no worker into
\* the handling of an event it was not handling before.
LEMMA QuietStep ==
  ASSUME IInv, NEW w \in Workers, NEW step \in Steps \ {"record"}, Goto(w, step),
         UNCHANGED <<message, seen, file, runs, raced>>, pc[w] # "idle",
         step \in Handling => pc[w] \in Handling \ {"record"}
  PROVE  DedupOK'
<1> USE DEF IInv, TypeOK, DedupOK, KeyOf, Goto
<1>1. \A v \in Workers : Fresh(v)'
  BY DEF Fresh, Handling
<1>2. \A u, v \in Workers : Apart(u, v)'
  BY DEF Apart, Handling
<1> QED BY <1>1, <1>2 DEF RunsOncePerKey

LEMMA NextDedup == ASSUME IInv, [Next]_vars PROVE DedupOK'
<1>1. ASSUME NEW w \in Workers, NEW m \in Messages, Receive(w, m) PROVE DedupOK'
  <2> USE <1>1 DEF Receive, Goto, store, history, IInv, TypeOK, DedupOK, KeyOf
  <2>1. \A v \in Workers : Fresh(v)'
    BY DEF Fresh, Handling
  <2>2. \A u, v \in Workers : Apart(u, v)'
    BY DEF Apart, Handling
  <2> QED BY <2>1, <2>2 DEF RunsOncePerKey
<1>2. ASSUME NEW w \in Workers, CheckSeen(w) PROVE DedupOK'
  <2>1. CASE KeyOf(w) \notin seen /\ Goto(w, "record") /\ raced' = raced \cup Races(w)
    <3>1. KeyOf(w) \in Keys /\ runs[KeyOf(w)] = 0 /\ message[w] \in Messages
      <4>1. pc[w] = "check" /\ message[w] \in Messages
        BY <1>2 DEF CheckSeen, IInv, DedupOK, Fresh
      <4>2. KeyOf(w) \in Keys
        BY <4>1, KeyType DEF IInv, DedupOK
      <4> QED BY <2>1, <4>1, <4>2 DEF IInv, TypeOK, DedupOK
    <3>2. UNCHANGED <<message, seen, file, runs>> /\ raced \subseteq raced'
      BY <1>2, <2>1 DEF CheckSeen, store
    <3>3. pc' = [pc EXCEPT ![w] = "record"]
      BY <2>1 DEF Goto
    <3>4. \A v \in Workers : Fresh(v)'
      BY <2>1, <3>1, <3>2, <3>3 DEF Fresh, Handling, IInv, TypeOK, DedupOK, KeyOf
    <3>5. \A v \in Workers : v # w /\ pc[v] \in Handling /\ KeyOf(v) = KeyOf(w)
                              => KeyOf(w) \in raced'
      <4> SUFFICES ASSUME NEW v \in Workers, v # w, pc[v] \in Handling, KeyOf(v) = KeyOf(w)
                   PROVE  KeyOf(w) \in raced'
        OBVIOUS
      <4>1. pc[v] = "record"
        BY <2>1 DEF IInv, DedupOK, Fresh
      <4> QED BY <2>1, <4>1 DEF Races
    <3>6. \A u, v \in Workers : Apart(u, v)'
      BY <3>2, <3>3, <3>5 DEF Apart, IInv, TypeOK, DedupOK, KeyOf
    <3> QED BY <3>2, <3>4, <3>6 DEF IInv, DedupOK, RunsOncePerKey
  <2>2. ASSUME NEW step \in {"skip", "nack"}, Goto(w, step), UNCHANGED raced PROVE DedupOK'
    BY <1>2, <2>2, QuietStep DEF Handling, CheckSeen, store
  <2> QED BY <1>2, <2>1, <2>2 DEF CheckSeen
<1>3. ASSUME NEW w \in Workers, RecordEvent(w) PROVE DedupOK'
  <2>1. CASE Goto(w, "gate") /\ file' = file \cup {KeyOf(w)} /\ seen' = seen \cup {KeyOf(w)}
    <3> USE DEF IInv, TypeOK, DedupOK
    <3>1. KeyOf(w) \in Keys /\ pc[w] = "record" /\ UNCHANGED <<message, runs, raced>>
      BY <1>3, KeyType DEF RecordEvent, history
    <3>2. pc' = [pc EXCEPT ![w] = "gate"]
      BY <2>1 DEF Goto
    <3>3. \A v \in Workers \ {w} : pc[v] = "record" /\ KeyOf(v) = KeyOf(w)
                                    => KeyOf(v) \in raced
      BY <3>1 DEF Apart, Handling
    <3>4. \A v \in Workers : Fresh(v)'
      BY <2>1, <3>1, <3>2, <3>3 DEF Fresh, Handling, KeyOf
    <3>5. \A u, v \in Workers : Apart(u, v)'
      BY <3>1, <3>2 DEF Apart, Handling, KeyOf
    <3> QED BY <2>1, <3>1, <3>4, <3>5 DEF RunsOncePerKey
  <2>2. CASE Goto(w, "nack") /\ UNCHANGED <<seen, file>>
    BY <1>3, <2>2, QuietStep DEF Handling, RecordEvent, history
  <2> QED BY <1>3, <2>1, <2>2 DEF RecordEvent
<1>4. ASSUME NEW w \in Workers, RouteAndGate(w) PROVE DedupOK'
  <2>1. PICK step \in {"stopped", "allocate", "close"} : Goto(w, step)
    BY <1>4 DEF RouteAndGate
  <2> QED BY <1>4, <2>1, QuietStep DEF Handling, RouteAndGate, store, history
<1>5. ASSUME NEW w \in Workers, RecordStopped(w) PROVE DedupOK'
  <2>1. PICK step \in {"ack", "nack"} : Goto(w, step)
    BY <1>5 DEF RecordStopped
  <2> QED BY <1>5, <2>1, QuietStep DEF Handling, RecordStopped
<1>6. ASSUME NEW w \in Workers, AllocateWorkspace(w) PROVE DedupOK'
  <2>1. PICK step \in {"map", "close"} : Goto(w, step)
    BY <1>6 DEF AllocateWorkspace
  <2> QED BY <1>6, <2>1, QuietStep DEF Handling, AllocateWorkspace, store, history
<1>7. ASSUME NEW w \in Workers, MapInput(w) PROVE DedupOK'
  <2>1. PICK step \in {"run", "close"} : Goto(w, step)
    BY <1>7 DEF MapInput
  <2> QED BY <1>7, <2>1, QuietStep DEF Handling, MapInput, store, history
<1>8. ASSUME NEW w \in Workers, Run(w) PROVE DedupOK'
  <2> USE DEF IInv, TypeOK, DedupOK
  <2>1. /\ pc[w] = "run" /\ KeyOf(w) \in Keys /\ KeyOf(w) \in seen
        /\ KeyOf(w) \in raced \/ runs[KeyOf(w)] = 0
    BY <1>8, KeyType DEF Run, Fresh, Handling
  <2>2. runs' = [runs EXCEPT ![KeyOf(w)] = runs[KeyOf(w)] + 1]
    BY <1>8 DEF Run
  <2>3. pc' = [pc EXCEPT ![w] = "close"] /\ UNCHANGED <<message, seen, file, raced>>
    BY <1>8 DEF Run, Goto, store
  <2>4. \A k \in Keys : runs'[k] > 0 => k \in seen'
    BY <2>1, <2>2, <2>3
  <2>5. \A k \in Keys \ raced' : runs'[k] <= 1
    BY <2>1, <2>2, <2>3 DEF RunsOncePerKey
  <2>6. \A v \in Workers \ {w} : pc[v] \in Handling /\ KeyOf(v) = KeyOf(w)
                                  => KeyOf(v) \in raced
    BY <2>1 DEF Apart, Handling
  <2>7. \A v \in Workers : Fresh(v)'
    <3> SUFFICES ASSUME NEW v \in Workers PROVE Fresh(v)'
      OBVIOUS
    <3>1. CASE v = w
      BY <2>1, <2>3, <3>1 DEF Fresh, Handling
    <3>2. CASE v # w
      <4>1. pc'[v] = pc[v] /\ KeyOf(v)' = KeyOf(v)
        BY <2>3, <3>2 DEF KeyOf
      <4>2. pc[v] \in Handling => KeyOf(v) \in raced \/ runs'[KeyOf(v)] = 0
        <5> SUFFICES ASSUME pc[v] \in Handling, KeyOf(v) \notin raced
                     PROVE  runs'[KeyOf(v)] = 0
          OBVIOUS
        <5>1. KeyOf(v) # KeyOf(w) /\ KeyOf(v) \in Keys /\ runs[KeyOf(v)] = 0
          BY <2>6, <3>2, KeyType DEF Fresh, Handling
        <5> QED BY <2>2, <5>1
      <4> QED BY <2>3, <4>1, <4>2 DEF Fresh
    <3> QED BY <3>1, <3>2
  <2>8. \A u, v \in Workers : Apart(u, v)'
    BY <2>3 DEF Apart, Handling, KeyOf
  <2> QED BY <2>3, <2>4, <2>5, <2>7, <2>8 DEF RunsOncePerKey
<1>9. ASSUME NEW w \in Workers, CloseLease(w) PROVE DedupOK'
  BY <1>9, QuietStep DEF Handling, CloseLease, store, history
<1>10. ASSUME NEW w \in Workers, Finish(w) PROVE DedupOK'
  <2>1. PICK step \in {"ack", "nack"} : Goto(w, step)
    BY <1>10 DEF Finish
  <2> QED BY <1>10, <2>1, QuietStep DEF Handling, Finish
<1>11. ASSUME NEW w \in Workers, Ack(w) \/ Nack(w) PROVE DedupOK'
  <2>1. PICK b \in {"acked", "ready"} : Settle(w, b)
    BY <1>11 DEF Ack, Nack
  <2> USE <2>1 DEF Settle, Goto, store, history, IInv, TypeOK, DedupOK, KeyOf
  <2>2. \A v \in Workers : Fresh(v)'
    BY DEF Fresh, Handling
  <2>3. \A u, v \in Workers : Apart(u, v)'
    BY DEF Apart, Handling
  <2> QED BY <2>2, <2>3 DEF RunsOncePerKey
<1>12. CASE Crash
  BY <1>12 DEF Crash, history, IInv, TypeOK, DedupOK, Fresh, Apart, Handling, RunsOncePerKey
<1>13. CASE UNCHANGED vars
  <2> USE <1>13 DEF vars, IInv, TypeOK, DedupOK, KeyOf
  <2>1. \A v \in Workers : Fresh(v)'
    BY DEF Fresh
  <2>2. \A u, v \in Workers : Apart(u, v)'
    BY DEF Apart
  <2> QED BY <2>1, <2>2 DEF RunsOncePerKey
<1> QED BY <1>1, <1>2, <1>3, <1>4, <1>5, <1>6, <1>7, <1>8, <1>9, <1>10, <1>11, <1>12, <1>13
        DEF Next

LEMMA Invariant == Spec => []IInv
<1>1. IInv /\ [Next]_vars => IInv'
  BY NextType, NextDedup DEF IInv
<1> QED BY InitIInv, <1>1, PTL DEF Spec

\* Every variable keeps its type, a message and its record included (HandleEvent).
THEOREM TypeCorrect == Spec => []TypeOK
<1>1. IInv => TypeOK
  BY DEF IInv
<1> QED BY <1>1, Invariant, PTL

\* The agent runs at most once for a deduplication key that no two workers
\* looked up at the same time, whatever fails, however often the broker delivers
\* and wherever the process dies (recordIncomingEvent, FileRunStore.RecordEvent,
\* loadSeen).
THEOREM UnracedKeysRunOnce == Spec => []RunsOncePerKey
<1>1. IInv => RunsOncePerKey
  BY DEF IInv, DedupOK
<1> QED BY <1>1, Invariant, PTL

\* With one worker no key is ever raced, so that the agent runs at most once for
\* every key: the serial loop of queue.Source over one store.
THEOREM OneWorkerRunsOnce ==
  ASSUME \A v, w \in Workers : v = w
  PROVE  Spec => [](\A k \in Keys : runs[k] <= 1)
<1>1. Init => raced = {}
  BY DEF Init
<1>2. raced = {} /\ [Next]_vars => (raced = {})'
  <2> SUFFICES ASSUME raced = {}, [Next]_vars PROVE raced' = {}
    OBVIOUS
  <2>1. ASSUME NEW w \in Workers, CheckSeen(w) PROVE raced' = {}
    BY <2>1 DEF CheckSeen, Races
  <2> QED BY <2>1 DEF Next, vars, history, Receive, RecordEvent, RouteAndGate, RecordStopped,
          AllocateWorkspace, MapInput, Run, CloseLease, Finish, Ack, Nack, Settle, Crash
<1>3. RunsOncePerKey /\ raced = {} => \A k \in Keys : runs[k] <= 1
  BY DEF RunsOncePerKey
<1> QED BY UnracedKeysRunOnce, <1>1, <1>2, <1>3, PTL DEF Spec
-------------------------------------------------------------------------------
(* What is left on record, and the lease *)

\* A worker that is to acknowledge has recorded its event.
RecordOK == LeasesClosed /\ SuccessIsRecorded /\ recorded <= records

LEMMA RecordInit == Init => RecordOK
BY DEF Init, RecordOK, LeasesClosed, SuccessIsRecorded

\* A step of one worker that leaves the records alone and is not the one
\* before an acknowledgement.
LEMMA OtherStep ==
  ASSUME TypeOK, RecordOK, NEW w \in Workers, NEW step \in Steps \ {"ack"}, Goto(w, step),
         \A v \in Workers \ {w} : leased'[v] = leased[v] /\ message'[v] = message[v],
         leased'[w] => step \in {"map", "run", "close"},
         UNCHANGED <<records, recorded, onRecord>>
  PROVE  RecordOK'
BY DEF TypeOK, RecordOK, LeasesClosed, SuccessIsRecorded, Goto, KeyOf

LEMMA NextRecord == ASSUME IInv, RecordOK, [Next]_vars PROVE RecordOK'
<1> USE DEF IInv, TypeOK
<1>1. ASSUME NEW w \in Workers, NEW m \in Messages, Receive(w, m) PROVE RecordOK'
  <2>1. ~leased[w]
    BY <1>1 DEF Receive, RecordOK, LeasesClosed
  <2> QED BY <1>1, <2>1, OtherStep DEF Receive, store, history
<1>2. ASSUME NEW w \in Workers, CheckSeen(w) \/ RecordEvent(w) PROVE RecordOK'
  <2>1. ~leased[w]
    BY <1>2 DEF CheckSeen, RecordEvent, RecordOK, LeasesClosed
  <2>2. PICK step \in {"skip", "record", "nack", "gate"} : Goto(w, step)
    BY <1>2 DEF CheckSeen, RecordEvent
  <2> QED BY <1>2, <2>1, <2>2, OtherStep DEF CheckSeen, RecordEvent, store, history
<1>3. ASSUME NEW w \in Workers, RouteAndGate(w) PROVE RecordOK'
  <2>1. ~leased[w]
    BY <1>3 DEF RouteAndGate, RecordOK, LeasesClosed
  <2>2. PICK step \in {"stopped", "allocate", "close"} : Goto(w, step)
    BY <1>3 DEF RouteAndGate
  <2> QED BY <1>3, <2>1, <2>2, OtherStep DEF RouteAndGate, store, history
<1>4. ASSUME NEW w \in Workers, AllocateWorkspace(w) \/ MapInput(w) \/ Run(w) PROVE RecordOK'
  <2>1. PICK step \in {"map", "run", "close"} : Goto(w, step)
    BY <1>4 DEF AllocateWorkspace, MapInput, Run
  <2> QED BY <1>4, <2>1, OtherStep
          DEF AllocateWorkspace, MapInput, Run, store, history
<1>5. ASSUME NEW w \in Workers, CloseLease(w) PROVE RecordOK'
  BY <1>5, OtherStep, ZenonT(60) DEF CloseLease, store, history
<1>6. ASSUME NEW w \in Workers, RecordStopped(w) \/ Finish(w) PROVE RecordOK'
  <2>1. ~leased[w] /\ pc[w] # "idle"
    BY <1>6 DEF RecordStopped, Finish, RecordOK, LeasesClosed
  <2>2. CASE /\ records' = records + 1 /\ recorded' \in {recorded, recorded + 1}
             /\ onRecord' = onRecord \cup {KeyOf(w)}
             /\ Goto(w, "ack") \/ Goto(w, "nack")
    BY <1>6, <2>1, <2>2
       DEF RecordStopped, Finish, RecordOK, LeasesClosed, SuccessIsRecorded, Goto, KeyOf
  <2>3. CASE Goto(w, "nack") /\ UNCHANGED <<records, recorded, onRecord>>
    BY <1>6, <2>1, <2>3, OtherStep DEF RecordStopped, Finish
  <2> QED BY <1>6, <2>2, <2>3 DEF RecordStopped, Finish, Recorded
<1>7. ASSUME NEW w \in Workers, Ack(w) \/ Nack(w) PROVE RecordOK'
  <2>1. PICK b \in {"acked", "ready"} : Settle(w, b)
    BY <1>7 DEF Ack, Nack
  <2>2. ~leased[w]
    BY <1>7 DEF Ack, Nack, RecordOK, LeasesClosed
  <2> QED BY <2>1, <2>2, OtherStep DEF Settle, store, history
<1>8. CASE Crash
  BY <1>8 DEF Crash, history, RecordOK, LeasesClosed, SuccessIsRecorded
<1>9. CASE UNCHANGED vars
  BY <1>9 DEF vars, RecordOK, LeasesClosed, SuccessIsRecorded, KeyOf
<1> QED BY <1>1, <1>2, <1>3, <1>4, <1>5, <1>6, <1>7, <1>8, <1>9 DEF Next

LEMMA RecordAlways == Spec => []RecordOK
BY Invariant, RecordInit, NextRecord, PTL DEF Spec

\* A workspace lease is closed on every way out of HandleEvent, by error or by
\* the end of the run (HandleEvent, closeWorkspaceLease).
THEOREM LeasesAreClosed == Spec => []LeasesClosed
BY RecordAlways, PTL DEF RecordOK

\* No event is acknowledged as handled without a record of its run or of the
\* gate that stopped it (finishRunRecord, handleMessage).
THEOREM HandledIsRecorded == Spec => []SuccessIsRecorded
BY RecordAlways, PTL DEF RecordOK

-------------------------------------------------------------------------------
(* The budget *)

\* Workers past the gate whose run is not over.
Under == {"allocate", "map", "run"}

\* Workers whose next record may be one of a run: they run, or they handle an
\* event of a key that has run or is about to.
Pending ==
  {w \in Workers :
     \/ pc[w] \in Under
     \/ /\ pc[w] \in {"record", "gate", "close", "finish"}
        /\ \/ runs[KeyOf(w)] > 0
           \/ \E v \in Workers : pc[v] \in Under /\ KeyOf(v) = KeyOf(w)}

\* Once the budget is used up, a worker has one record left at most, and n
\* workers had when it was.
BudgetOK(n) ==
  MaxRunsPerDay > 0 /\ records >= MaxRunsPerDay =>
    recorded + Cardinality(Pending) < MaxRunsPerDay + n

\* Of the workers whose next record may be one of a run, one leaves at most and
\* none joins them in a step that takes no worker past the look-up or the gate.
LEMMA NoneJoins ==
  ASSUME TypeOK, NEW w \in Workers, NEW step \in Steps, Goto(w, step),
         \A v \in Workers \ {w} : message'[v] = message[v],
         step \in Under \cup {"gate", "close", "finish"} => message'[w] = message[w],
         step \in Under => pc[w] \in Under,
         step \in {"gate", "close", "finish"} =>
           pc[w] \in Under \cup {"record", "gate", "close"},
         step # "record",
         \A v \in Workers : runs'[KeyOf(v)] > 0 =>
           runs[KeyOf(v)] > 0 \/ (pc[w] \in Under /\ KeyOf(v) = KeyOf(w))
  PROVE  Pending' \subseteq Pending
<1> SUFFICES ASSUME NEW v \in Workers, v \in Pending' PROVE v \in Pending
  BY DEF Pending
<1> USE DEF TypeOK, Goto, Pending, KeyOf
<1>1. CASE pc'[v] \in Under
  BY <1>1
<1>2. CASE pc'[v] \in {"gate", "close", "finish", "record"} \ Under
  <2>1. message'[v] = message[v]
    BY <1>2
  <2>2. pc[v] \in Under \/ pc[v] \in {"record", "gate", "close", "finish"}
    BY <1>2
  <2>3. CASE runs'[KeyOf(v)'] > 0
    BY <2>1, <2>2, <2>3
  <2>4. CASE \E u \in Workers : pc'[u] \in Under /\ KeyOf(u)' = KeyOf(v)'
    <3>1. PICK u \in Workers : pc'[u] \in Under /\ KeyOf(u)' = KeyOf(v)'
      BY <2>4
    <3>2. pc[u] \in Under /\ message'[u] = message[u]
      BY <3>1
    <3> QED BY <2>1, <2>2, <3>1, <3>2
  <2> QED BY <1>2, <2>3, <2>4 DEF Under
<1> QED BY <1>1, <1>2

LEMMA LookUp ==
  ASSUME IInv, NEW w \in Workers, CheckSeen(w)
  PROVE  Pending' \subseteq Pending
<1> USE DEF IInv, TypeOK
<1>1. /\ message[w] \in Messages /\ pc[w] = "check"
      /\ UNCHANGED <<message, runs>>
  BY DEF CheckSeen, DedupOK, Fresh, store
<1>2. CASE Goto(w, "skip") \/ Goto(w, "nack")
  BY <1>1, <1>2, NoneJoins DEF Under
<1>3. CASE KeyOf(w) \notin seen /\ Goto(w, "record")
  <2>1. runs[KeyOf(w)] = 0
    BY <1>1, <1>3, KeyType DEF DedupOK
  <2>2. \A v \in Workers : pc[v] \in Under => KeyOf(v) # KeyOf(w)
    BY <1>3 DEF DedupOK, Fresh, Under, Handling
  <2>3. w \notin Pending'
    BY <1>1, <1>3, <2>1, <2>2 DEF Pending, Goto, KeyOf, Under
  <2>4. \A v \in Workers \ {w} : v \in Pending' => v \in Pending
    BY <1>1, <1>3 DEF Pending, Goto, KeyOf, Under
  <2> QED BY <2>3, <2>4 DEF Pending
<1> QED BY <1>2, <1>3 DEF CheckSeen

\* A step that leaves the records alone.
LEMMA QuietPending ==
  ASSUME IInv, MaxRunsPerDay > 0, records >= MaxRunsPerDay, [Next]_vars, records' = records
  PROVE  Pending' \subseteq Pending /\ recorded' = recorded
<1> USE DEF IInv, TypeOK
<1>1. ASSUME NEW w \in Workers, NEW m \in Messages, Receive(w, m)
      PROVE Pending' \subseteq Pending /\ recorded' = recorded
  BY <1>1, NoneJoins DEF Receive, store, history, Under
<1>2. ASSUME NEW w \in Workers, CheckSeen(w)
      PROVE Pending' \subseteq Pending /\ recorded' = recorded
  BY <1>2, LookUp DEF CheckSeen
<1>3. ASSUME NEW w \in Workers, RecordEvent(w)
      PROVE Pending' \subseteq Pending /\ recorded' = recorded
  BY <1>3, NoneJoins DEF RecordEvent, history, Under
<1>4. ASSUME NEW w \in Workers, RouteAndGate(w)
      PROVE Pending' \subseteq Pending /\ recorded' = recorded
  <2>1. PICK step \in {"stopped", "close"} : Goto(w, step)
    BY <1>4 DEF RouteAndGate, OverBudget
  <2> QED BY <1>4, <2>1, NoneJoins DEF RouteAndGate, store, history, Under
<1>5. ASSUME NEW w \in Workers, RecordStopped(w) \/ Finish(w)
      PROVE Pending' \subseteq Pending /\ recorded' = recorded
  <2>1. Goto(w, "nack") /\ UNCHANGED <<message, runs, recorded>>
    BY <1>5 DEF RecordStopped, Finish, Recorded
  <2> QED BY <2>1, NoneJoins DEF Under
<1>6. ASSUME NEW w \in Workers, AllocateWorkspace(w) \/ MapInput(w)
      PROVE Pending' \subseteq Pending /\ recorded' = recorded
  <2>1. PICK step \in {"map", "run", "close"} : Goto(w, step)
    BY <1>6 DEF AllocateWorkspace, MapInput
  <2> QED BY <1>6, <2>1, NoneJoins DEF AllocateWorkspace, MapInput, store, history, Under
<1>7. ASSUME NEW w \in Workers, Run(w)
      PROVE Pending' \subseteq Pending /\ recorded' = recorded
  <2>1. pc[w] = "run" /\ KeyOf(w) \in Keys
    BY <1>7, KeyType DEF Run, DedupOK
  <2>2. \A k : k # KeyOf(w) /\ runs'[k] > 0 => runs[k] > 0
    BY <1>7, <2>1 DEF Run
  <2> QED BY <1>7, <2>1, <2>2, NoneJoins DEF Run, Under
<1>8. ASSUME NEW w \in Workers, CloseLease(w)
      PROVE Pending' \subseteq Pending /\ recorded' = recorded
  BY <1>8, NoneJoins DEF CloseLease, store, history, Under
<1>9. ASSUME NEW w \in Workers, Ack(w) \/ Nack(w)
      PROVE Pending' \subseteq Pending /\ recorded' = recorded
  <2>1. PICK b \in {"acked", "ready"} : Settle(w, b)
    BY <1>9 DEF Ack, Nack
  <2> QED BY <2>1, NoneJoins DEF Settle, history, Under
<1>10. CASE Crash
  BY <1>10 DEF Crash, history, Pending, Under
<1>11. CASE UNCHANGED vars
  BY <1>11 DEF vars, history, Pending, KeyOf
<1> QED BY <1>1, <1>2, <1>3, <1>4, <1>5, <1>6, <1>7, <1>8, <1>9, <1>10, <1>11 DEF Next

\* A step that writes a record: of a worker that is then done, and counted if
\* its record is one of a run.
LEMMA RecordingStep ==
  ASSUME IInv, [Next]_vars, records' # records
  PROVE  \E w \in Workers :
           /\ pc[w] \in {"stopped", "finish"}
           /\ records' = records + 1 /\ w \notin Pending' /\ Pending' \subseteq Pending
           /\ recorded' = recorded \/ (recorded' = recorded + 1 /\ w \in Pending)
<1> USE DEF IInv, TypeOK
<1>1. PICK w \in Workers : RecordStopped(w) \/ Finish(w)
  BY DEF Next, vars, Receive, CheckSeen, RecordEvent, RouteAndGate, AllocateWorkspace, MapInput,
         Run, CloseLease, Ack, Nack, Settle, Crash, store
<1>2. PICK step \in {"ack", "nack"} : Goto(w, step)
  BY <1>1 DEF RecordStopped, Finish
<1>3. UNCHANGED <<message, runs>> /\ records' = records + 1
  BY <1>1 DEF RecordStopped, Finish, Recorded
<1>4. Pending' \subseteq Pending
  BY <1>2, <1>3, NoneJoins DEF Under
<1>5. w \notin Pending'
  BY <1>2 DEF Pending, Goto, Under
<1>6. recorded' = recorded \/ (recorded' = recorded + 1 /\ w \in Pending)
  <2>1. CASE RecordStopped(w)
    BY <2>1 DEF RecordStopped
  <2>2. CASE Finish(w)
    BY <2>2 DEF Finish, Recorded, Pending
  <2> QED BY <1>1, <2>1, <2>2
<1>7. pc[w] \in {"stopped", "finish"}
  BY <1>1 DEF RecordStopped, Finish
<1> QED BY <1>3, <1>4, <1>5, <1>6, <1>7

LEMMA NextBudget ==
  ASSUME IsFiniteSet(Workers), NEW n \in Nat, IInv, RecordOK, BudgetOK(n), [Next]_vars,
         \A w \in Workers : pc[w] \in {"stopped", "finish"} => Cardinality(Pending \cup {w}) <= n
  PROVE  BudgetOK(n)'
<1> SUFFICES ASSUME MaxRunsPerDay > 0, records' >= MaxRunsPerDay
             PROVE  recorded' + Cardinality(Pending') < MaxRunsPerDay + n
  BY DEF BudgetOK
<1>1. IsFiniteSet(Pending) /\ IsFiniteSet(Pending')
  BY FS_Subset DEF Pending
<1>2. Cardinality(Pending) \in Nat /\ Cardinality(Pending') \in Nat
  BY <1>1, FS_CardinalityType
<1>3. records \in Nat /\ recorded \in Nat /\ recorded <= records
  BY DEF IInv, TypeOK, RecordOK
<1>4. CASE records' = records
  <2>1. Pending' \subseteq Pending /\ recorded' = recorded
    BY <1>4, QuietPending
  <2>2. Cardinality(Pending') <= Cardinality(Pending)
    BY <1>1, <2>1, FS_Subset
  <2> QED BY <1>2, <1>3, <1>4, <2>1, <2>2 DEF BudgetOK
<1>5. CASE records' # records
  <2>1. PICK w \in Workers :
          /\ pc[w] \in {"stopped", "finish"}
          /\ records' = records + 1 /\ w \notin Pending' /\ Pending' \subseteq Pending
          /\ recorded' = recorded \/ (recorded' = recorded + 1 /\ w \in Pending)
    BY <1>5, RecordingStep
  <2>2. CASE records >= MaxRunsPerDay /\ recorded' = recorded
    <3>1. Cardinality(Pending') <= Cardinality(Pending)
      BY <1>1, <2>1, FS_Subset
    <3> QED BY <1>2, <1>3, <2>2, <3>1 DEF BudgetOK
  <2>3. CASE records >= MaxRunsPerDay /\ recorded' = recorded + 1 /\ w \in Pending
    <3>1. Cardinality(Pending \ {w}) = Cardinality(Pending) - 1 /\ IsFiniteSet(Pending \ {w})
      BY <1>1, <2>3, FS_RemoveElement
    <3>2. Cardinality(Pending') <= Cardinality(Pending \ {w})
      BY <2>1, <3>1, FS_Subset
    <3> QED BY <1>2, <1>3, <2>3, <3>1, <3>2 DEF BudgetOK
  <2>4. CASE records < MaxRunsPerDay
    <3>1. IsFiniteSet(Pending \cup {w}) /\ Cardinality(Pending \cup {w}) <= n
      BY <1>1, <2>1, FS_AddElement
    <3>2. /\ Cardinality((Pending \cup {w}) \ {w}) = Cardinality(Pending \cup {w}) - 1
          /\ IsFiniteSet((Pending \cup {w}) \ {w})
      BY <3>1, FS_RemoveElement
    <3>3. Cardinality(Pending') <= Cardinality((Pending \cup {w}) \ {w})
      BY <2>1, <3>2, FS_Subset
    <3>4. Cardinality(Pending \cup {w}) \in Nat
      BY <3>1, FS_CardinalityType
    <3> QED BY <1>2, <1>3, <2>1, <2>4, <3>1, <3>2, <3>3, <3>4
  <2> QED BY <1>3, <2>1, <2>2, <2>3, <2>4
<1> QED BY <1>4, <1>5

LEMMA BudgetBound ==
  ASSUME IsFiniteSet(Workers), NEW n \in Nat, IInv, RecordOK, BudgetOK(n),
         MaxRunsPerDay > 0
  PROVE  recorded < MaxRunsPerDay + n
<1>1. IsFiniteSet(Pending)
  BY FS_Subset DEF Pending
<1>2. Cardinality(Pending) \in Nat
  BY <1>1, FS_CardinalityType
<1>3. records \in Nat /\ recorded \in Nat /\ recorded <= records
  BY DEF IInv, TypeOK, RecordOK
<1> QED BY <1>2, <1>3 DEF BudgetOK

\* The budget of a day is exceeded at most by the runs that were under way when
\* it was used up: one of each worker (BudgetGate.evaluateLimit, RecordRun).
THEOREM BudgetIsKept ==
  ASSUME IsFiniteSet(Workers)
  PROVE  Spec => []BudgetHolds
<1>. DEFINE n == Cardinality(Workers)
           B == BudgetOK(n)
<1>1. n \in Nat
  BY FS_CardinalityType
<1>. HIDE DEF n
<1>2. Init => B
  BY DEF Init, BudgetOK
<1>3. IInv /\ RecordOK /\ B /\ [Next]_vars => B'
  <2>1. \A w \in Workers : Pending \cup {w} \subseteq Workers
    BY DEF Pending
  <2>2. \A w \in Workers : Cardinality(Pending \cup {w}) <= n
    BY <2>1, FS_Subset DEF n
  <2> QED BY <1>1, <2>2, NextBudget
<1>4. IInv /\ RecordOK /\ B => BudgetHolds
  <2> SUFFICES ASSUME IInv, RecordOK, B, MaxRunsPerDay > 0
               PROVE  recorded < MaxRunsPerDay + n
    BY DEF BudgetHolds, n
  <2> QED BY <1>1, BudgetBound
<1> QED BY Invariant, RecordAlways, <1>2, <1>3, <1>4, PTL DEF Spec

-------------------------------------------------------------------------------
(* The scheduler *)

LEMMA CallsFinite == IsFiniteSet(Calls)
BY FiniteAssumption, FS_Product DEF Calls

USE CallsFinite, LimitersAssumption, CallPathAssumption DEF Sched!Stages

\* A channel holds the tokens of its holders, and no more than fit.
TokensOK ==
  \A l \in Limiters : tokens[l] = Cardinality(Sched!Holders(l)) /\ tokens[l] <= Capacity[l]

\* The handler is reached with every limiter passed.
StageOK == \A c \in Calls : /\ phase[c] = "idle" => stage[c] = 0
                            /\ phase[c] = "handle" => stage[c] = 4

SchedIInv == Sched!TypeOK /\ StageOK /\ TokensOK

LEMMA HoldersFinite == \A l : IsFiniteSet(Sched!Holders(l)) /\ Cardinality(Sched!Holders(l)) \in Nat
  BY FS_Subset, FS_CardinalityType DEF Sched!Holders

LEMMA InitSched == Sched!Init => SchedIInv
<1> SUFFICES ASSUME Sched!Init PROVE SchedIInv
  OBVIOUS
<1>1. Sched!TypeOK /\ StageOK
  BY DEF Sched!Init, Sched!TypeOK, StageOK
<1>2. \A l : Sched!Holders(l) = {}
  BY DEF Sched!Init, Sched!Holders
<1>3. ASSUME NEW l \in Limiters PROVE tokens[l] = Cardinality(Sched!Holders(l))
               /\ tokens[l] <= Capacity[l]
  <2>1. Sched!Holders(l) = {} /\ tokens[l] = 0
    BY <1>2 DEF Sched!Init
  <2>2. Cardinality(Sched!Holders(l)) = 0
    BY <2>1, FS_EmptySet
  <2> QED BY <2>1, <2>2
<1> QED BY <1>1, <1>3 DEF SchedIInv, TokensOK

\* A step that changes neither the stages nor the channels.
LEMMA PhaseStep ==
  ASSUME SchedIInv, UNCHANGED <<stage, tokens>>,
         phase' \in [Calls -> {"idle", "up", "handle", "down"}], StageOK'
  PROVE  SchedIInv'
<1>1. \A l : Sched!Holders(l)' = Sched!Holders(l)
  BY DEF Sched!Holders
<1>2. TokensOK'
  BY <1>1 DEF SchedIInv, TokensOK
<1> QED BY <1>2 DEF SchedIInv, Sched!TypeOK

LEMMA AcquireStep ==
  ASSUME SchedIInv, NEW c \in Calls, Sched!Acquire(c)
  PROVE  SchedIInv'
<1> DEFINE k == Path[c][stage[c] + 1]
<1>1. /\ stage[c] \in 0..3 /\ stage' = [stage EXCEPT ![c] = stage[c] + 1]
      /\ phase' = phase /\ phase[c] = "up"
  BY DEF Sched!Acquire, SchedIInv, Sched!TypeOK
<1>2. k \in Limiters \cup {NoLimit}
  BY <1>1
<1>3. Sched!TypeOK'
  BY <1>1, <1>2, SMTT(30) DEF SchedIInv, Sched!TypeOK, Sched!Acquire, Sched!Ahead
<1>4. StageOK'
  BY <1>1 DEF SchedIInv, Sched!TypeOK, StageOK
<1>5. ASSUME NEW l \in Limiters
      PROVE  tokens'[l] = Cardinality(Sched!Holders(l)') /\ tokens'[l] <= Capacity[l]
  <2>1. CASE l = k
    <3>1. c \notin Sched!Holders(l)
      <4> SUFFICES ASSUME NEW i \in Sched!Stages, i <= stage[c], Path[c][i] = l PROVE FALSE
        BY DEF Sched!Holders
      <4> QED BY <2>1, <1>1
    <3>2. Sched!Holders(l)' = Sched!Holders(l) \cup {c}
      BY <2>1, <1>1 DEF Sched!Holders, SchedIInv, Sched!TypeOK
    <3>3. Cardinality(Sched!Holders(l)') = Cardinality(Sched!Holders(l)) + 1
      BY <3>1, <3>2, FS_AddElement, HoldersFinite
    <3>4. tokens[l] < Capacity[l] /\ tokens' = [tokens EXCEPT ![l] = tokens[l] + 1]
      BY <2>1, <1>2 DEF Sched!Acquire, Sched!Ahead
    <3> QED BY <3>3, <3>4 DEF SchedIInv, TokensOK, Sched!TypeOK
  <2>2. CASE l # k
    <3>1. Sched!Holders(l)' = Sched!Holders(l)
      BY <2>2, <1>1 DEF Sched!Holders, SchedIInv, Sched!TypeOK
    <3>2. tokens'[l] = tokens[l]
      BY <2>2, <1>2 DEF Sched!Acquire, Sched!Ahead, SchedIInv, Sched!TypeOK
    <3> QED BY <3>1, <3>2 DEF SchedIInv, TokensOK
  <2> QED BY <2>1, <2>2
<1> QED BY <1>3, <1>4, <1>5 DEF SchedIInv, TokensOK

LEMMA ReleaseStep ==
  ASSUME SchedIInv, NEW c \in Calls, Sched!Release(c)
  PROVE  SchedIInv'
<1> DEFINE k == Path[c][stage[c]]
<1>1. /\ stage[c] \in 1..4 /\ stage' = [stage EXCEPT ![c] = stage[c] - 1]
      /\ phase' = phase /\ phase[c] = "down"
  BY DEF Sched!Release, SchedIInv, Sched!TypeOK
<1>2. k \in Limiters \cup {NoLimit}
  BY <1>1
<1>3. StageOK'
  BY <1>1 DEF SchedIInv, Sched!TypeOK, StageOK
<1>4. ASSUME NEW l \in Limiters
      PROVE  /\ tokens'[l] = Cardinality(Sched!Holders(l)') /\ tokens'[l] <= Capacity[l]
             /\ tokens'[l] \in Nat
  <2>1. CASE l = k
    <3>1. c \in Sched!Holders(l)
      BY <2>1, <1>1 DEF Sched!Holders
    <3>2. Sched!Holders(l)' = Sched!Holders(l) \ {c}
      <4>1. ASSUME NEW i \in Sched!Stages, i <= stage[c] - 1 PROVE Path[c][i] # l
        BY <2>1, <1>1, <4>1
      <4>2. c \notin Sched!Holders(l)'
        BY <4>1, <1>1 DEF Sched!Holders, SchedIInv, Sched!TypeOK
      <4>3. \A d \in Calls : d # c => (d \in Sched!Holders(l)' <=> d \in Sched!Holders(l))
        BY <1>1 DEF Sched!Holders, SchedIInv, Sched!TypeOK
      <4> QED BY <4>2, <4>3 DEF Sched!Holders
    <3>3. Cardinality(Sched!Holders(l)') = Cardinality(Sched!Holders(l)) - 1
      BY <3>1, <3>2, FS_RemoveElement, HoldersFinite
    <3>4. tokens' = [tokens EXCEPT ![l] = tokens[l] - 1]
      BY <2>1, <1>2 DEF Sched!Release
    <3>5. Cardinality(Sched!Holders(l)') \in Nat
      BY <3>2, HoldersFinite, FS_Subset, FS_CardinalityType
    <3> QED BY <3>3, <3>4, <3>5 DEF SchedIInv, TokensOK, Sched!TypeOK
  <2>2. CASE l # k
    <3>1. Sched!Holders(l)' = Sched!Holders(l)
      BY <2>2, <1>1 DEF Sched!Holders, SchedIInv, Sched!TypeOK
    <3>2. tokens'[l] = tokens[l]
      BY <2>2, <1>2 DEF Sched!Release, SchedIInv, Sched!TypeOK
    <3> QED BY <3>1, <3>2 DEF SchedIInv, TokensOK, Sched!TypeOK
  <2> QED BY <2>1, <2>2
<1>5. Sched!TypeOK'
  BY <1>1, <1>2, <1>4 DEF SchedIInv, Sched!TypeOK, Sched!Release
<1> QED BY <1>3, <1>4, <1>5 DEF SchedIInv, TokensOK

LEMMA NextSched == SchedIInv /\ [Sched!Next]_Sched!vars => SchedIInv'
<1> SUFFICES ASSUME SchedIInv, [Sched!Next]_Sched!vars PROVE SchedIInv'
  OBVIOUS
<1>1. ASSUME NEW c \in Calls,
             Sched!Call(c) \/ Sched!GiveUp(c) \/ Sched!QueueFull(c) \/ Sched!Handle(c)
               \/ Sched!Handled(c) \/ Sched!Return(c)
      PROVE  SchedIInv'
  <2>1. UNCHANGED <<stage, tokens>>
    BY <1>1 DEF Sched!Call, Sched!GiveUp, Sched!QueueFull, Sched!Handle, Sched!Handled, Sched!Return
  <2>2. phase' \in [Calls -> {"idle", "up", "handle", "down"}]
    BY <1>1, SMTT(60) DEF Sched!Call, Sched!GiveUp, Sched!QueueFull, Sched!Handle, Sched!Handled,
       Sched!Return, SchedIInv, Sched!TypeOK
  <2>3. StageOK'
    BY <1>1, <2>1 DEF Sched!Call, Sched!GiveUp, Sched!QueueFull, Sched!Handle, Sched!Handled,
       Sched!Return, SchedIInv, Sched!TypeOK, StageOK
  <2> QED BY <2>1, <2>2, <2>3, PhaseStep
<1>2. CASE UNCHANGED Sched!vars
  <2>1. StageOK'
    BY <1>2 DEF Sched!vars, SchedIInv, StageOK
  <2> QED BY <1>2, <2>1, PhaseStep DEF Sched!vars, SchedIInv, Sched!TypeOK
<1> QED BY <1>1, <1>2, AcquireStep, ReleaseStep DEF Sched!Next

LEMMA SchedInvariant == Sched!Spec => []SchedIInv
  BY InitSched, NextSched, PTL DEF Sched!Spec

\* Every variable keeps its type, for any number of calls (HandleEvent).
THEOREM SchedulerTypes == Sched!Spec => []Sched!TypeOK
<1>1. SchedIInv => Sched!TypeOK
  BY DEF SchedIInv
<1> QED BY <1>1, SchedInvariant, PTL

\* The calls in the handler have passed all their limiters.
LEMMA SameCardinality == \A S : Sched!Cardinality(S) = Cardinality(S)
BY DEF Sched!Cardinality, Cardinality

LEMMA SchedLimits == SchedIInv => Sched!LimitsHold
<1>1. ASSUME SchedIInv, NEW l \in Limiters
      PROVE  Cardinality(Sched!InHandler(l)) <= Capacity[l]
  <2>1. Sched!InHandler(l) \subseteq Sched!Holders(l)
    BY <1>1 DEF SchedIInv, StageOK, Sched!InHandler, Sched!Holders
  <2>2. Cardinality(Sched!InHandler(l)) <= Cardinality(Sched!Holders(l))
    BY <2>1, HoldersFinite, FS_Subset
  <2>3. Cardinality(Sched!InHandler(l)) \in Nat
    BY <2>1, HoldersFinite, FS_Subset, FS_CardinalityType
  <2> QED BY <1>1, <2>2, <2>3, HoldersFinite DEF SchedIInv, TokensOK
<1> QED BY <1>1, SameCardinality DEF Sched!LimitsHold

\* However many calls there are and whichever were rejected or cancelled, the
\* handler never runs more events than the limits of all runs, of a source and
\* of a type allow (NewScheduler, HandleEvent).
THEOREM LimitsAreKept == Sched!Spec => []Sched!LimitsHold
BY SchedLimits, SchedInvariant, PTL

-------------------------------------------------------------------------------
(* The runner behind the scheduler *)

\* The steps of Runner.HandleEvent after its first.
Inside == {"record", "gate", "stopped", "allocate", "map", "run", "close", "finish"}

\* A worker inside the runner holds a slot of the runs.
InsideOK == \A w \in Workers : pc[w] \in Inside => phase[CallOf(w)] = "handle"

\* A step of the whole is one of the runner, or none.
LEMMA RunnerStep ==
  ASSUME ScheduledNext \/ UNCHANGED <<vars, gates>>
  PROVE  [Next]_vars
<1>1. ASSUME NEW w \in Workers, HandBack(w) PROVE [Next]_vars
  BY <1>1 DEF HandBack, Next, CheckSeen, history
<1>2. ASSUME NEW w \in Workers, Schedule(w) PROVE [Next]_vars
  BY <1>2 DEF Schedule
<1>3. ASSUME NEW w \in Workers, NEW m \in Messages, HandOver(w, m) PROVE [Next]_vars
  BY <1>3 DEF HandOver, Next
<1>4. ASSUME NEW w \in Workers, Handle(w) \/ SettleMessage(w) PROVE [Next]_vars
  BY <1>4 DEF Handle, SettleMessage, Next
<1>5. CASE CrashAll
  BY <1>5 DEF CrashAll, Next
<1> QED BY <1>1, <1>2, <1>3, <1>4, <1>5 DEF ScheduledNext

\* Behind a scheduler the runner is the same runner: it keeps all it keeps when
\* its source calls it (HandleEvent of Scheduler, event.EventHandler).
THEOREM ScheduledRunsAreRuns == ScheduledSpec => Spec
<1>1. ScheduledInit => Init
  BY DEF ScheduledInit
<1>2. [ScheduledNext]_<<vars, gates>> => [Next]_vars
  BY RunnerStep
<1> QED BY <1>1, <1>2, PTL DEF ScheduledSpec, Spec

\* A message is in a worker's hands while the worker is busy.
LEMMA CallType ==
  ASSUME IInv, NEW w \in Workers, pc[w] # "idle"
  PROVE  CallOf(w) \in Calls
  BY DEF IInv, DedupOK, Fresh, CallOf, Calls

\* A step of the whole is one of the scheduler, or none, or its restart.
LEMMA SchedulerStep ==
  ASSUME IInv, ScheduledNext \/ UNCHANGED <<vars, gates>>
  PROVE  [Sched!Next]_(Sched!vars) \/ CrashAll
<1>1. ASSUME NEW w \in Workers, HandBack(w) \/ Schedule(w)
      PROVE [Sched!Next]_(Sched!vars)
  <2>1. CallOf(w) \in Calls
    BY <1>1, CallType DEF HandBack, Schedule
  <2> QED BY <1>1, <2>1 DEF HandBack, Schedule, Sched!Next
<1>2. ASSUME NEW w \in Workers, NEW m \in Messages, HandOver(w, m)
      PROVE [Sched!Next]_(Sched!vars)
  BY <1>2 DEF HandOver, Sched!Next, Calls
<1>3. ASSUME NEW w \in Workers, Handle(w) \/ SettleMessage(w) PROVE [Sched!Next]_(Sched!vars)
  BY <1>3 DEF Handle, SettleMessage, gates, Sched!vars
<1>4. CASE UNCHANGED <<vars, gates>>
  BY <1>4 DEF gates, Sched!vars
<1> QED BY <1>1, <1>2, <1>3, <1>4 DEF ScheduledNext

\* The new process has a new scheduler.
LEMMA SchedulerAlways ==
  ASSUME IInv, SchedIInv, ScheduledNext \/ UNCHANGED <<vars, gates>>
  PROVE  SchedIInv'
<1>1. CASE [Sched!Next]_(Sched!vars)
  BY <1>1, NextSched
<1>2. CASE CrashAll
  <2>1. /\ phase' = [c \in Calls |-> "idle"] /\ stage' = [c \in Calls |-> 0]
        /\ tokens' = [l \in Limiters |-> 0]
    BY <1>2 DEF CrashAll
  <2>2. (Sched!Init)'
    BY <2>1 DEF Sched!Init
  <2>3. (Sched!Init => SchedIInv)'
    BY InitSched, PTL
  <2> QED BY <2>2, <2>3
<1> QED BY <1>1, <1>2, SchedulerStep

LEMMA OtherCalls ==
  ASSUME NEW v \in Workers, NEW w \in Workers, v # w
  PROVE  CallOf(v) # CallOf(w) /\ \A m \in Messages : CallOf(v) # <<w, m>>
  BY DEF CallOf

LEMMA NextInside ==
  ASSUME IInv, SchedIInv, InsideOK, ScheduledNext \/ UNCHANGED <<vars, gates>>
  PROVE  InsideOK'
<1> USE DEF IInv, TypeOK
<1>1. phase \in [Calls -> {"idle", "up", "handle", "down"}]
  BY DEF SchedIInv, Sched!TypeOK
<1>2. ASSUME NEW w \in Workers, NEW m \in Messages, HandOver(w, m) PROVE InsideOK'
  <2>1. /\ pc' = [pc EXCEPT ![w] = "check"] /\ message' = [message EXCEPT ![w] = m]
        /\ phase' = [phase EXCEPT ![<<w, m>>] = "up"]
    BY <1>2 DEF HandOver, Receive, Goto, Sched!Call
  <2>2. ASSUME NEW v \in Workers, pc'[v] \in Inside
        PROVE  phase'[CallOf(v)'] = "handle"
    <3>1. v # w /\ pc[v] \in Inside /\ CallOf(v)' = CallOf(v)
      BY <2>1, <2>2 DEF Inside, CallOf
    <3>2. CallOf(v) \in Calls /\ phase[CallOf(v)] = "handle"
      BY <3>1, CallType DEF Inside, InsideOK
    <3> QED BY <1>1, <2>1, <3>1, <3>2, OtherCalls
  <2> QED BY <2>2 DEF InsideOK
<1>3. ASSUME NEW w \in Workers, Schedule(w) \/ HandBack(w) PROVE InsideOK'
  <2>1. CallOf(w) \in Calls
    BY <1>3, CallType DEF Schedule, HandBack
  <2>2. pc[w] \notin Inside
    BY <1>3 DEF Schedule, HandBack, Sched!Acquire, Sched!GiveUp, Sched!QueueFull, Sched!Handle,
                Sched!Release, Sched!Handled, Sched!Return, InsideOK, Inside
  <2>3. message' = message /\ (pc' = pc \/ pc' = [pc EXCEPT ![w] = "nack"])
    BY <1>3 DEF Schedule, HandBack, Goto, vars
  <2>4. phase' = phase \/ \E p : phase' = [phase EXCEPT ![CallOf(w)] = p]
    BY <1>3 DEF Schedule, HandBack, Sched!Acquire, Sched!GiveUp, Sched!QueueFull, Sched!Handle,
                Sched!Release, Sched!Handled, Sched!Return
  <2>5. ASSUME NEW v \in Workers, pc'[v] \in Inside
        PROVE  phase'[CallOf(v)'] = "handle"
    <3>1. v # w /\ pc[v] \in Inside /\ CallOf(v)' = CallOf(v)
      BY <2>2, <2>3, <2>5 DEF Inside, CallOf
    <3>2. CallOf(v) \in Calls /\ phase[CallOf(v)] = "handle"
      BY <3>1, CallType DEF Inside, InsideOK
    <3>3. CallOf(v) # CallOf(w)
      BY <3>1, OtherCalls
    <3> QED BY <1>1, <2>4, <3>1, <3>2, <3>3
  <2> QED BY <2>5 DEF InsideOK
<1>4. ASSUME NEW w \in Workers, Handle(w) PROVE InsideOK'
  <2>1. /\ phase[CallOf(w)] = "handle" /\ phase' = phase /\ message' = message
        /\ \E step : Goto(w, step)
    BY <1>4 DEF Handle, gates, CheckSeen, RecordEvent, RouteAndGate, RecordStopped,
                AllocateWorkspace, MapInput, Run, CloseLease, Finish
  <2>2. \A v \in Workers : CallOf(v)' = CallOf(v) /\ (v # w => pc'[v] = pc[v])
    BY <2>1 DEF Goto, CallOf
  <2> QED BY <2>1, <2>2 DEF InsideOK
<1>5. ASSUME NEW w \in Workers, SettleMessage(w) PROVE InsideOK'
  <2>1. /\ phase' = phase /\ pc' = [pc EXCEPT ![w] = "idle"]
        /\ message' = [message EXCEPT ![w] = NoMessage]
    BY <1>5 DEF SettleMessage, gates, Ack, Nack, Settle, Goto
  <2>2. \A v \in Workers : pc'[v] \in Inside => pc[v] \in Inside /\ CallOf(v)' = CallOf(v)
    BY <2>1 DEF Inside, CallOf
  <2> QED BY <2>1, <2>2 DEF InsideOK
<1>6. CASE CrashAll
  BY <1>6 DEF CrashAll, Crash, InsideOK, Inside
<1>7. CASE UNCHANGED <<vars, gates>>
  BY <1>7 DEF vars, gates, InsideOK, CallOf
<1> QED BY <1>2, <1>3, <1>4, <1>5, <1>6, <1>7 DEF ScheduledNext

\* A set of workers inside the runner whose events pass a limiter is within its
\* limit.
LEMMA InsideLimited ==
  ASSUME IInv, SchedIInv, InsideOK, NEW l \in Limiters, NEW S \in SUBSET Workers,
         \A w \in S : pc[w] \in Inside /\ \E i \in 1..4 : Path[CallOf(w)][i] = l
  PROVE  Cardinality(S) <= Capacity[l]
<1>. DEFINE T == Sched!InHandler(l)
           f == [w \in S |-> CallOf(w)]
<1>1. IsFiniteSet(S) /\ Cardinality(S) \in Nat
  BY FiniteAssumption, FS_Subset, FS_CardinalityType
<1>2. \A w \in S : CallOf(w) \in T
  <2>1. ASSUME NEW w \in S PROVE CallOf(w) \in T
    <3>1. CallOf(w) \in Calls /\ phase[CallOf(w)] = "handle"
      BY CallType DEF Inside, InsideOK
    <3> QED BY <3>1 DEF Sched!InHandler, Sched!Stages
  <2> QED BY <2>1
<1>3. f \in Injection(S, T)
  <2>1. f \in [S -> T]
    BY <1>2
  <2>2. \A v, w \in S : f[v] = f[w] => v = w
    BY DEF CallOf
  <2> QED BY <2>1, <2>2 DEF Injection, IsInjective
<1>4. IsFiniteSet(T) /\ Cardinality(T) <= Capacity[l]
  <2>1. T \subseteq Calls
    BY DEF Sched!InHandler
  <2>2. Sched!LimitsHold
    BY SchedLimits
  <2>3. Cardinality(T) <= Capacity[l]
    BY <2>2, SameCardinality DEF Sched!LimitsHold
  <2> QED BY <2>1, <2>3, FS_Subset
<1>5. Cardinality(S) <= Cardinality(T)
  BY <1>3, <1>4, FS_Injection
<1>6. Cardinality(T) \in Nat
  BY <1>4, FS_CardinalityType
<1>. HIDE DEF T
<1>7. Capacity[l] \in Nat
  BY LimitersAssumption
<1>. QED BY <1>1, <1>4, <1>5, <1>6, <1>7

LEMMA InsideBounded ==
  ASSUME IInv, SchedIInv, InsideOK, NEW S \in SUBSET Workers,
         \A w \in S : pc[w] \in Inside
  PROVE  Cardinality(S) <= Capacity[Running]
<1>1. ASSUME NEW w \in S PROVE \E i \in 1..4 : Path[CallOf(w)][i] = Running
  <2>1. CallOf(w) \in Calls
    BY CallType DEF Inside
  <2>2. 4 \in 1..4 /\ Path[CallOf(w)][4] = Running
    BY <2>1, CallPathAssumption
  <2> QED BY <2>2
<1>2. Running \in Limiters
  BY LimitersAssumption
<1> QED BY <1>1, <1>2, InsideLimited

\* What the parts keep, and what ties them together.
WholeInv == IInv /\ RecordOK /\ SchedIInv /\ InsideOK

LEMMA WholeInit == ScheduledInit => WholeInv
<1>1. ScheduledInit => InsideOK
  BY DEF ScheduledInit, Init, InsideOK, Inside
<1> QED BY <1>1, InitIInv, RecordInit, InitSched DEF ScheduledInit, WholeInv

LEMMA WholeNext == WholeInv /\ [ScheduledNext]_<<vars, gates>> => WholeInv'
<1> SUFFICES ASSUME WholeInv, [ScheduledNext]_<<vars, gates>> PROVE WholeInv'
  OBVIOUS
<1>1. [Next]_vars
  BY RunnerStep
<1>2. RecordOK'
  BY <1>1, NextRecord DEF WholeInv
<1>3. TypeOK' /\ DedupOK'
  BY <1>1, NextType, NextDedup DEF WholeInv
<1>4. SchedIInv' /\ InsideOK'
  BY SchedulerAlways, NextInside DEF WholeInv
<1> QED BY <1>2, <1>3, <1>4 DEF WholeInv, IInv

LEMMA WholeAlways == ScheduledSpec => []WholeInv
  BY WholeInit, WholeNext, PTL DEF ScheduledSpec

\* The limits of all runs, of a source and of a type bound the runs of the
\* agent, over crashes too (Scheduler.HandleEvent, Runner.HandleEvent).
THEOREM RunsAreLimited == ScheduledSpec => []RunsWithinLimits
<1>1. ASSUME WholeInv, NEW l \in Limiters PROVE Cardinality(InAgent(l)) <= Capacity[l]
  BY <1>1, InsideLimited DEF WholeInv, Inside, InAgent
<1>2. WholeInv => RunsWithinLimits
  BY <1>1 DEF RunsWithinLimits
<1> QED BY <1>2, WholeAlways, PTL

\* What exceeds the budget is bounded by MaxConcurrent, whatever the number of
\* workers: a run the scheduler holds back has not passed the budget gate
\* (Scheduler.HandleEvent, BudgetGate.evaluateLimit, RecordRun).
THEOREM ScheduledBudgetIsKept == ScheduledSpec => []BudgetScheduled
<1>. DEFINE n == Capacity[Running]
            B == BudgetOK(n)
<1>1. n \in Nat
  OBVIOUS
<1>2. ScheduledInit => B
  BY DEF ScheduledInit, Init, BudgetOK
<1>3. WholeInv /\ B /\ [ScheduledNext]_<<vars, gates>> => B'
  <2> SUFFICES ASSUME WholeInv, B, [ScheduledNext]_<<vars, gates>> PROVE B'
    OBVIOUS
  <2>1. ASSUME NEW w \in Workers, pc[w] \in {"stopped", "finish"}
        PROVE  Cardinality(Pending \cup {w}) <= n
    <3>1. Pending \cup {w} \subseteq Workers /\ \A v \in Pending \cup {w} : pc[v] \in Inside
      BY <2>1 DEF Pending, Under, Inside
    <3> QED BY <3>1, InsideBounded DEF WholeInv
  <2>2. [Next]_vars
    BY RunnerStep
  <2> QED BY <1>1, <2>1, <2>2, NextBudget, FiniteAssumption DEF WholeInv
<1>4. WholeInv /\ B => BudgetScheduled
  BY <1>1, BudgetBound, FiniteAssumption DEF WholeInv, BudgetScheduled
<1> QED BY <1>2, <1>3, <1>4, WholeAlways, PTL DEF ScheduledSpec

LEMMA TwoElements ==
  ASSUME NEW a, NEW b, a # b
  PROVE  Cardinality({a} \cup {b}) = 2
<1>1. IsFiniteSet({a}) /\ Cardinality({a}) = 1
  BY FS_Singleton, Zenon
<1>2. b \notin {a}
  OBVIOUS
<1>3. Cardinality({a} \cup {b}) = Cardinality({a}) + 1
  BY <1>1, <1>2, FS_AddElement, Zenon
<1>4. 1 + 1 = 2
  OBVIOUS
<1> QED BY <1>1, <1>3, <1>4, Zenon

\* Two workers inside the runner need two slots.
LEMMA InTurn ==
  ASSUME WholeInv, Capacity[Running] = 1, NEW v \in Workers, NEW w \in Workers,
         pc[v] \in Inside, CallOf(w) \in Calls, phase[CallOf(w)] = "handle"
  PROVE  v = w
<1> SUFFICES ASSUME v # w PROVE FALSE
  OBVIOUS
<1>. DEFINE T == Sched!InHandler(Running)
<1>1. CallOf(v) # CallOf(w)
  BY OtherCalls
<1>2. CallOf(v) \in Calls /\ phase[CallOf(v)] = "handle"
  BY CallType DEF WholeInv, InsideOK, Inside
<1>3. {CallOf(v)} \cup {CallOf(w)} \subseteq T
  <2>1. ASSUME NEW c \in Calls, phase[c] = "handle" PROVE c \in T
    <3>1. 4 \in 1..4 /\ Path[c][4] = Running
      OBVIOUS
    <3> QED BY <2>1, <3>1 DEF Sched!InHandler, Sched!Stages
  <2> QED BY <1>2, <2>1
<1>4. IsFiniteSet(T) /\ Cardinality(T) <= 1
  <2>1. T \subseteq Calls
    BY DEF Sched!InHandler
  <2>2. Sched!LimitsHold
    BY SchedLimits DEF WholeInv
  <2>3. Cardinality(T) <= Capacity[Running]
    BY <2>2, SameCardinality DEF Sched!LimitsHold
  <2> QED BY <2>1, <2>3, FS_Subset
<1>. HIDE DEF T
<1>5. Cardinality({CallOf(v)} \cup {CallOf(w)}) = 2
  BY <1>1, TwoElements, Zenon
<1>6. Cardinality({CallOf(v)} \cup {CallOf(w)}) <= Cardinality(T)
  BY <1>3, <1>4, FS_Subset
<1>7. Cardinality(T) \in Nat
  BY <1>4, FS_CardinalityType
<1> QED BY <1>4, <1>5, <1>6, <1>7

\* With one run at a time no two workers look an event up before one marks it,
\* and the agent runs at most once for the events of one key
\* (SchedulerPolicy.MaxConcurrent, recordIncomingEvent).
THEOREM OneRunInTurn == ScheduledSpec => []RunsOnceInTurn
<1>. DEFINE R == Capacity[Running] = 1 => raced = {}
<1>1. ScheduledInit => R
  BY DEF ScheduledInit, Init
<1>2. WholeInv /\ R /\ [ScheduledNext]_<<vars, gates>> => R'
  <2> SUFFICES ASSUME WholeInv, R, [ScheduledNext]_<<vars, gates>>, Capacity[Running] = 1
               PROVE  raced' = {}
    OBVIOUS
  <2>1. ASSUME NEW w \in Workers, CheckSeen(w), Handle(w) PROVE raced' = raced
    <3>1. pc[w] # "idle" /\ phase[CallOf(w)] = "handle"
      BY <2>1 DEF Handle
    <3>2. CallOf(w) \in Calls
      BY <3>1, CallType DEF WholeInv
    <3>3. \A v \in Workers : pc[v] = "record" => v = w
      BY <3>1, <3>2, InTurn DEF Inside
    <3>4. Races(w) = {}
      BY <3>3 DEF Races
    <3> QED BY <2>1, <3>4 DEF CheckSeen
  <2>2. ASSUME NEW w \in Workers, Handle(w), ~CheckSeen(w) PROVE raced' = raced
    BY <2>2 DEF Handle, RecordEvent, RouteAndGate, RecordStopped, AllocateWorkspace, MapInput,
                Run, CloseLease, Finish, history
  <2>3. ASSUME NEW w \in Workers, NEW m \in Messages, HandOver(w, m) PROVE raced' = raced
    BY <2>3 DEF HandOver, Receive, history
  <2>4. ASSUME NEW w \in Workers, Schedule(w) \/ HandBack(w) \/ SettleMessage(w)
        PROVE  raced' = raced
    BY <2>4 DEF Schedule, HandBack, SettleMessage, Ack, Nack, Settle, history, vars
  <2>5. CASE CrashAll
    BY <2>5 DEF CrashAll, Crash, history
  <2>6. CASE UNCHANGED <<vars, gates>>
    BY <2>6 DEF vars
  <2> QED BY <2>1, <2>2, <2>3, <2>4, <2>5, <2>6 DEF ScheduledNext
<1>3. WholeInv /\ R => RunsOnceInTurn
  BY DEF WholeInv, IInv, DedupOK, RunsOncePerKey, RunsOnceInTurn
<1> QED BY <1>1, <1>2, <1>3, WholeAlways, PTL DEF ScheduledSpec

==============================================================================
