----------------------------- MODULE AutomationRunner -----------------------------
(***************************************************************************)
(* runner.Runner.HandleEvent fed by queue.Source loops, over one           *)
(* store.FileRunStore and a gate.BudgetGate: messages of a broker are      *)
(* received, deduplicated, routed, gated and run, and acknowledged or      *)
(* returned to the broker, which delivers them again; the process may      *)
(* crash and open its store again.                                         *)
(*                                                                         *)
(* A message stands for its event; Key is Event.DeduplicationKey.  What    *)
(* the agent's reply does is AgentReply's subject, here it succeeds or     *)
(* fails.  Of the run records the model keeps how many there are.          *)
(***************************************************************************)
EXTENDS Naturals, FiniteSets

CONSTANTS
  Workers,        \* goroutines that handle messages
  Messages,       \* messages of the broker
  Keys,           \* deduplication keys
  Key,            \* the key of a message's event
  NoMessage,      \* a worker has no message
  MaxRunsPerDay,  \* of the budget, 0 for none
  MaxDeliveries,  \* bound: deliveries of a message
  MaxCrashes      \* bound: crashes of the process

ASSUME KeyAssumption    == Key \in [Messages -> Keys]
ASSUME NoMessageAssumption == NoMessage \notin Messages
ASSUME NumbersAssumption   == /\ MaxRunsPerDay \in Nat /\ MaxDeliveries \in Nat
                              /\ MaxCrashes \in Nat

VARIABLES
  broker,      \* where each message is
  deliveries,  \* how often it was delivered
  pc,          \* where each worker is
  message,     \* its message
  failed,      \* runErr and closeErr of its HandleEvent: is one of them set
  leased,      \* does it hold a workspace lease
  seen,        \* FileRunStore.seen
  file,        \* the keys in events.jsonl
  records,     \* the lines of runs.jsonl
  runs,        \* history: agent replies started for each key
  finished,    \* history: keys with a reply that ended without error
  recorded,    \* history: run records of agent replies
  onRecord,    \* history: keys with a run record
  raced,       \* history: keys two workers looked up before either marked them
  crashes

vars == <<broker, deliveries, pc, message, failed, leased, seen, file, records, runs,
          finished, recorded, onRecord, raced, crashes>>
history == <<runs, finished, recorded, onRecord, raced>>
store   == <<seen, file, records>>

Steps == {"idle", "check", "record", "gate", "stopped", "allocate", "map", "run", "close",
          "finish", "ack", "skip", "nack"}

-------------------------------------------------------------------------------
Init ==
  /\ broker = [m \in Messages |-> "ready"]
  /\ deliveries = [m \in Messages |-> 0]
  /\ pc = [w \in Workers |-> "idle"]
  /\ message = [w \in Workers |-> NoMessage]
  /\ failed = [w \in Workers |-> FALSE]
  /\ leased = [w \in Workers |-> FALSE]
  /\ seen = {} /\ file = {} /\ records = 0
  /\ runs = [k \in Keys |-> 0] /\ finished = {} /\ recorded = 0 /\ onRecord = {}
  /\ raced = {} /\ crashes = 0

KeyOf(w) == Key[message[w]]
Goto(w, step) == pc' = [pc EXCEPT ![w] = step]

\* Source.Start receives a message and decodes it to a valid event.
Receive(w, m) ==
  /\ pc[w] = "idle" /\ broker[m] = "ready" /\ deliveries[m] < MaxDeliveries
  /\ broker' = [broker EXCEPT ![m] = "taken"]
  /\ deliveries' = [deliveries EXCEPT ![m] = @ + 1]
  /\ message' = [message EXCEPT ![w] = m]
  /\ failed' = [failed EXCEPT ![w] = FALSE]
  /\ Goto(w, "check")
  /\ UNCHANGED <<leased, store, history, crashes>>

\* Another worker has looked up the key and not marked it.
Races(w) == {KeyOf(v) : v \in {v \in Workers : v # w /\ pc[v] = "record"}} \cap {KeyOf(w)}

\* SeenEvent: a seen event is skipped without an error; the store or the
\* context may fail.
CheckSeen(w) ==
  /\ pc[w] = "check"
  /\ \/ KeyOf(w) \in seen /\ Goto(w, "skip") /\ UNCHANGED raced
     \/ KeyOf(w) \notin seen /\ Goto(w, "record") /\ raced' = raced \cup Races(w)
     \/ Goto(w, "nack") /\ UNCHANGED raced
  /\ UNCHANGED <<broker, deliveries, message, failed, leased, store, runs, finished, recorded,
                 onRecord, crashes>>

\* Mutant: the event is marked as seen and not written.
RecordEventInMemory(w) ==
  /\ pc[w] = "record"
  /\ \/ seen' = seen \cup {KeyOf(w)} /\ Goto(w, "gate")
     \/ Goto(w, "nack") /\ UNCHANGED seen
  /\ UNCHANGED <<broker, deliveries, message, failed, leased, file, records, history, crashes>>

\* RecordEvent: the line is appended, then the key is marked.
RecordEvent(w) ==
  /\ pc[w] = "record"
  /\ \/ /\ file' = file \cup {KeyOf(w)}
        /\ seen' = seen \cup {KeyOf(w)}
        /\ Goto(w, "gate")
     \/ Goto(w, "nack") /\ UNCHANGED <<seen, file>>
  /\ UNCHANGED <<broker, deliveries, message, failed, leased, records, history, crashes>>

\* Mutant: the budget is exceeded only above the limit.
OverBudgetLate == MaxRunsPerDay > 0 /\ records > MaxRunsPerDay

\* evaluateLimit of the global limit, over the records of one day.
OverBudget == MaxRunsPerDay > 0 /\ records >= MaxRunsPerDay

\* routeAndGate: the gate stops the event or lets it pass, or route or gate
\* fail.
RouteAndGate(w) ==
  /\ pc[w] = "gate"
  /\ \/ Goto(w, IF OverBudget THEN "stopped" ELSE "allocate") /\ UNCHANGED failed
     \/ Goto(w, "close") /\ failed' = [failed EXCEPT ![w] = TRUE]
  /\ UNCHANGED <<broker, deliveries, message, leased, store, history, crashes>>

\* A stopped event is recorded like a run; the result of RecordRun is
\* HandleEvent's.
RecordStopped(w) ==
  /\ pc[w] = "stopped"
  /\ \/ /\ records' = records + 1
        /\ onRecord' = onRecord \cup {KeyOf(w)}
        /\ Goto(w, "ack")
     \/ Goto(w, "nack") /\ UNCHANGED <<records, onRecord>>
  /\ UNCHANGED <<broker, deliveries, message, failed, leased, seen, file, runs, finished,
                 recorded, raced, crashes>>

AllocateWorkspace(w) ==
  /\ pc[w] = "allocate"
  /\ \/ leased' = [leased EXCEPT ![w] = TRUE] /\ Goto(w, "map") /\ UNCHANGED failed
     \/ failed' = [failed EXCEPT ![w] = TRUE] /\ Goto(w, "close") /\ UNCHANGED leased
  /\ UNCHANGED <<broker, deliveries, message, store, history, crashes>>

\* Mutant: a failed mapping returns at once.
MapInputReturning(w) ==
  /\ pc[w] = "map"
  /\ Goto(w, "run") \/ Goto(w, "nack")
  /\ UNCHANGED <<broker, deliveries, message, failed, leased, store, history, crashes>>

\* mapEventInput and resolveRunAgent.
MapInput(w) ==
  /\ pc[w] = "map"
  /\ \/ Goto(w, "run") /\ UNCHANGED failed
     \/ Goto(w, "close") /\ failed' = [failed EXCEPT ![w] = TRUE]
  /\ UNCHANGED <<broker, deliveries, message, leased, store, history, crashes>>

\* runAgentReply, until it returns.
Run(w) ==
  /\ pc[w] = "run"
  /\ runs' = [runs EXCEPT ![KeyOf(w)] = @ + 1]
  /\ \/ finished' = finished \cup {KeyOf(w)} /\ UNCHANGED failed
     \/ failed' = [failed EXCEPT ![w] = TRUE] /\ UNCHANGED finished
  /\ Goto(w, "close")
  /\ UNCHANGED <<broker, deliveries, message, leased, store, recorded, onRecord, raced,
                 crashes>>

\* closeWorkspaceLease, which may fail.
CloseLease(w) ==
  /\ pc[w] = "close"
  /\ leased' = [leased EXCEPT ![w] = FALSE]
  /\ \/ UNCHANGED failed
     \/ leased[w] /\ failed' = [failed EXCEPT ![w] = TRUE]
  /\ Goto(w, "finish")
  /\ UNCHANGED <<broker, deliveries, message, store, history, crashes>>

\* RecordRun writes the record of w's run.
Recorded(w) ==
  /\ records' = records + 1
  /\ recorded' = recorded + (IF runs[KeyOf(w)] > 0 THEN 1 ELSE 0)
  /\ onRecord' = onRecord \cup {KeyOf(w)}

\* Mutant: an error of RecordRun is dropped.
FinishUnjoined(w) ==
  /\ pc[w] = "finish"
  /\ Recorded(w) \/ UNCHANGED <<records, recorded, onRecord>>
  /\ Goto(w, IF failed[w] THEN "nack" ELSE "ack")
  /\ UNCHANGED <<broker, deliveries, message, failed, leased, seen, file, runs, finished, raced,
                 crashes>>

\* RecordRun of finishRunRecord, whose error joins the others.
Finish(w) ==
  /\ pc[w] = "finish"
  /\ \/ Recorded(w) /\ Goto(w, IF failed[w] THEN "nack" ELSE "ack")
     \/ Goto(w, "nack") /\ UNCHANGED <<records, recorded, onRecord>>
  /\ UNCHANGED <<broker, deliveries, message, failed, leased, seen, file, runs, finished, raced,
                 crashes>>

\* The message leaves the worker for b.
Settle(w, b) ==
  /\ broker' = [broker EXCEPT ![message[w]] = b]
  /\ message' = [message EXCEPT ![w] = NoMessage]
  /\ Goto(w, "idle")
  /\ UNCHANGED <<deliveries, failed, leased, store, history, crashes>>

\* handleMessage acknowledges after a nil error; the broker may not hear it.
Ack(w) == pc[w] \in {"ack", "skip"} /\ \E b \in {"acked", "ready"} : Settle(w, b)

\* ... or rejects, and Start ends with the error; the application starts it
\* again.
Nack(w) == pc[w] = "nack" /\ Settle(w, "ready")

\* The process dies. NewFileRunStore of the next one reads events.jsonl, and
\* the broker delivers again what was not acknowledged.
Crash ==
  /\ crashes < MaxCrashes
  /\ crashes' = crashes + 1
  /\ broker' = [m \in Messages |-> IF broker[m] = "taken" THEN "ready" ELSE broker[m]]
  /\ pc' = [w \in Workers |-> "idle"]
  /\ message' = [w \in Workers |-> NoMessage]
  /\ failed' = [w \in Workers |-> FALSE]
  /\ leased' = [w \in Workers |-> FALSE]
  /\ seen' = file
  /\ UNCHANGED <<deliveries, file, records, history>>

Next ==
  \/ \E w \in Workers :
       \/ \E m \in Messages : Receive(w, m)
       \/ CheckSeen(w) \/ RecordEvent(w) \/ RouteAndGate(w) \/ RecordStopped(w)
       \/ AllocateWorkspace(w) \/ MapInput(w) \/ Run(w) \/ CloseLease(w)
       \/ Finish(w) \/ Ack(w) \/ Nack(w)
  \/ Crash

Spec == Init /\ [][Next]_vars

-------------------------------------------------------------------------------
\* Types of every variable; a worker has a message exactly while it handles one.
TypeOK ==
  /\ broker \in [Messages -> {"ready", "taken", "acked"}]
  /\ deliveries \in [Messages -> 0..MaxDeliveries]
  /\ pc \in [Workers -> Steps]
  /\ message \in [Workers -> Messages \cup {NoMessage}]
  /\ \A w \in Workers : pc[w] = "idle" <=> message[w] = NoMessage
  /\ failed \in [Workers -> BOOLEAN] /\ leased \in [Workers -> BOOLEAN]
  /\ seen \subseteq Keys /\ file \subseteq Keys
  /\ finished \subseteq Keys /\ onRecord \subseteq Keys /\ raced \subseteq Keys
  /\ records \in Nat /\ recorded \in Nat /\ crashes \in 0..MaxCrashes
  /\ runs \in [Keys -> Nat]

\* "De-duplicate through RunStore": the agent runs at most once for the events
\* of one key, over redeliveries, failures and crashes, unless two workers
\* looked the key up before either had marked it (recordIncomingEvent takes the
\* lock of the store twice).
RunsOncePerKey == \A k \in Keys \ raced : runs[k] <= 1

\* A workspace lease is closed on every way out of HandleEvent.
LeasesClosed == \A w \in Workers : leased[w] => pc[w] \in {"map", "run", "close"}

\* The runs on record exceed the budget at most by the runs that were under way
\* when it was reached (BudgetGate reads what RecordRun has written before).
BudgetHolds == MaxRunsPerDay > 0 => recorded < MaxRunsPerDay + Cardinality(Workers)

\* HandleEvent returns no error for an event it did not skip unless the event
\* has a run record, of a run or of the gate's stop (finishRunRecord).
SuccessIsRecorded == \A w \in Workers : pc[w] = "ack" => KeyOf(w) \in onRecord

\* "Ack acknowledges successful processing of the message": an acknowledged
\* event was run to its end or stopped by a gate that recorded it
\* (handleMessage).
AckedWasProcessed ==
  \A m \in Messages : broker[m] = "acked" /\ MaxRunsPerDay = 0 => Key[m] \in finished

==============================================================================
