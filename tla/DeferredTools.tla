------------------------------ MODULE DeferredTools ------------------------------
(***************************************************************************)
(* mcp.DeferredToolkit over a stateful mcp.Client: the list of a server's  *)
(* tools is cached twice, raw in the client under c.mu and wrapped in the  *)
(* toolkit under t.mu, and a notification of the server clears both. The   *)
(* application calls Invalidate from its handler, as the documentation     *)
(* proposes.                                                               *)
(*                                                                         *)
(* The transport is external: one goroutine reads what the server sends,   *)
(* and calls handleNotification itself.                                    *)
(***************************************************************************)
EXTENDS Naturals, Sequences

CONSTANTS
  Loads,       \* goroutines that read the toolkit: ToolSchemas, FindTool
  Gets,        \* goroutines that use the client: GetTool, CallTool
  MaxChanges,  \* bound: changes of the server's tools
  None

Threads == Loads \cup Gets

ASSUME NoneAssumption == None \notin Threads \cup Nat

VARIABLES
  version,       \* of the server's tools
  request,       \* the goroutine whose request the server has
  inline,        \* does the handler call Invalidate itself, not in a goroutine
  wire,          \* what the server sent and the reader has not read
  handling,      \* is the reader in a handler that wants t.mu
  clearing,      \* goroutines of handleNotification that want c.mu
  invalidating,  \* handlers in a goroutine that want t.mu
  cMu, tMu,      \* who holds the client's mutex, and the toolkit's
  cached,        \* c.cachedTools, as the version they are of
  toolkit,       \* t.toolkit
  pc, answer     \* of each goroutine

vars == <<version, request, wire, inline, handling, clearing, invalidating, cMu, tMu, cached,
          toolkit, pc, answer>>
server  == <<version, request, wire>>
handler == <<inline, handling, clearing, invalidating>>
caches  == <<cached, toolkit>>

Changed     == [kind |-> "changed"]
Tools(t, v) == [kind |-> "answer", to |-> t, of |-> v]

Init ==
  /\ version = 0 /\ request = None /\ wire = <<>>
  /\ inline \in BOOLEAN /\ handling = FALSE /\ clearing = 0 /\ invalidating = 0
  /\ cMu = None /\ tMu = None /\ cached = None /\ toolkit = None
  /\ pc = [t \in Threads |-> "idle"] /\ answer = [t \in Threads |-> None]

Goto(t, step) == pc' = [pc EXCEPT ![t] = step]

-------------------------------------------------------------------------------
(* The toolkit *)

\* A call of ToolSchemas, FindTool, CallTool or RunTool.
Call(t) ==
  /\ pc[t] = "idle" /\ Goto(t, IF t \in Loads THEN "ensure" ELSE "get")
  /\ UNCHANGED <<server, handler, cMu, tMu, caches, answer>>

\* Mutant: ensureToolkit does not hold t.mu while it lists.
EnsureUnlocked(t) ==
  /\ pc[t] = "ensure" /\ tMu = None
  /\ Goto(t, IF toolkit # None THEN "idle" ELSE "list")
  /\ UNCHANGED <<server, handler, cMu, tMu, caches, answer>>

\* ensureToolkit has the tools, or lists them with t.mu held.
EnsureToolkit(t) ==
  /\ pc[t] = "ensure" /\ tMu = None
  /\ \/ toolkit # None /\ Goto(t, "idle") /\ UNCHANGED tMu
     \/ toolkit = None /\ Goto(t, "list") /\ tMu' = t
  /\ UNCHANGED <<server, handler, cMu, caches, answer>>

\* It wraps what was listed, or NewToolkit refuses one of the tools.
BuildToolkit(t) ==
  /\ pc[t] = "build"
  /\ toolkit' \in {answer[t], None} /\ answer' = [answer EXCEPT ![t] = None]
  /\ tMu' = None /\ Goto(t, "idle")
  /\ UNCHANGED <<server, handler, cMu, cached>>

-------------------------------------------------------------------------------
(* The client *)

\* ListRawTools asks the server, whatever is cached.
ListRawTools(t) ==
  /\ pc[t] = "list" /\ cMu = None
  /\ cMu' = t /\ request' = t /\ Goto(t, "listing")
  /\ UNCHANGED <<version, wire, handler, tMu, caches, answer>>

\* GetTool asks it when nothing is cached.
GetTool(t) ==
  /\ pc[t] = "get" /\ cMu = None
  /\ \/ cached # None /\ Goto(t, "idle") /\ UNCHANGED <<cMu, request>>
     \/ cached = None /\ cMu' = t /\ request' = t /\ Goto(t, "listing")
  /\ UNCHANGED <<version, wire, handler, tMu, caches, answer>>

\* CallTool holds c.mu until the tool has answered.
CallTool(t) ==
  /\ pc[t] = "get" /\ cMu = None
  /\ cMu' = t /\ request' = t /\ Goto(t, "calling")
  /\ UNCHANGED <<version, wire, handler, tMu, caches, answer>>

\* listRawToolsLocked caches the answer.
CacheTools(t) ==
  /\ pc[t] = "listing" /\ answer[t] # None
  /\ cached' = answer[t] /\ cMu' = None
  /\ IF t \in Loads THEN Goto(t, "build") /\ UNCHANGED answer
     ELSE Goto(t, "idle") /\ answer' = [answer EXCEPT ![t] = None]
  /\ UNCHANGED <<server, handler, tMu, toolkit>>

CallReturns(t) ==
  /\ pc[t] = "calling" /\ answer[t] # None
  /\ cMu' = None /\ Goto(t, "idle") /\ answer' = [answer EXCEPT ![t] = None]
  /\ UNCHANGED <<server, handler, tMu, caches>>

\* Is the message at i of the wire the answer to t?
ForCaller(i, t) == wire[i] # Changed /\ wire[i].to = t

\* The wire without the message at i.
Without(i) == [j \in 1..Len(wire) - 1 |-> wire[IF j < i THEN j ELSE j + 1]]

\* A request fails, or its context ends; a late answer goes to nobody.
GiveUp(t) ==
  /\ pc[t] \in {"listing", "calling"} /\ answer[t] = None
  /\ cMu' = None /\ tMu' = (IF tMu = t THEN None ELSE tMu) /\ Goto(t, "idle")
  /\ request' = (IF request = t THEN None ELSE request)
  /\ \/ /\ \A i \in DOMAIN wire : ~ForCaller(i, t)
        /\ UNCHANGED wire
     \/ \E i \in DOMAIN wire : ForCaller(i, t) /\ wire' = Without(i)
  /\ UNCHANGED <<version, handler, caches, answer>>

-------------------------------------------------------------------------------
(* Notifications *)

\* Mutant: a notification that finds c.mu held is dropped.
NotifyTryOnly ==
  /\ ~handling /\ wire # <<>> /\ Head(wire) = Changed /\ wire' = Tail(wire)
  /\ IF cMu = None
     THEN /\ cached' = None
          /\ IF inline THEN handling' = TRUE /\ UNCHANGED invalidating
             ELSE invalidating' = invalidating + 1 /\ UNCHANGED handling
     ELSE UNCHANGED <<cached, handling, invalidating>>
  /\ UNCHANGED <<version, request, inline, clearing, cMu, tMu, toolkit, pc, answer>>

\* Mutant: it waits for c.mu on the goroutine that reads.
NotifyLocking ==
  /\ ~handling /\ wire # <<>> /\ Head(wire) = Changed /\ wire' = Tail(wire)
  /\ cMu = None /\ cached' = None
  /\ IF inline THEN handling' = TRUE /\ UNCHANGED invalidating
     ELSE invalidating' = invalidating + 1 /\ UNCHANGED handling
  /\ UNCHANGED <<version, request, inline, clearing, cMu, tMu, toolkit, pc, answer>>

\* handleNotification, on the goroutine that reads: with c.mu at once, or in
\* a goroutine that waits for it.
HandleNotification ==
  /\ ~handling /\ wire # <<>> /\ Head(wire) = Changed /\ wire' = Tail(wire)
  /\ IF cMu = None
     THEN /\ cached' = None
          /\ IF inline THEN handling' = TRUE /\ UNCHANGED invalidating
             ELSE invalidating' = invalidating + 1 /\ UNCHANGED handling
          /\ UNCHANGED clearing
     ELSE clearing' = clearing + 1 /\ UNCHANGED <<cached, handling, invalidating>>
  /\ UNCHANGED <<version, request, inline, cMu, tMu, toolkit, pc, answer>>

\* The goroutine clears the cache and calls the handler.
ClearCached ==
  /\ clearing > 0 /\ cMu = None
  /\ cached' = None /\ clearing' = clearing - 1 /\ invalidating' = invalidating + 1
  /\ UNCHANGED <<server, inline, handling, cMu, tMu, toolkit, pc, answer>>

\* Invalidate, in a goroutine of its own and in the reader.
Invalidate ==
  /\ tMu = None /\ toolkit' = None
  /\ \/ invalidating > 0 /\ invalidating' = invalidating - 1 /\ UNCHANGED handling
     \/ handling /\ handling' = FALSE /\ UNCHANGED invalidating
  /\ UNCHANGED <<server, inline, clearing, cMu, tMu, cached, pc, answer>>

-------------------------------------------------------------------------------
(* The server and the transport *)

Change ==
  /\ version < MaxChanges
  /\ version' = version + 1 /\ wire' = Append(wire, Changed)
  /\ UNCHANGED <<request, handler, cMu, tMu, caches, pc, answer>>

Answer ==
  /\ request # None
  /\ wire' = Append(wire, Tools(request, version)) /\ request' = None
  /\ UNCHANGED <<version, handler, cMu, tMu, caches, pc, answer>>

Deliver ==
  /\ ~handling /\ wire # <<>> /\ Head(wire) # Changed
  /\ answer' = [answer EXCEPT ![Head(wire).to] = Head(wire).of] /\ wire' = Tail(wire)
  /\ UNCHANGED <<version, request, handler, cMu, tMu, caches, pc>>

-------------------------------------------------------------------------------
Locks(t) == EnsureToolkit(t) \/ ListRawTools(t) \/ GetTool(t) \/ CallTool(t)
Runs(t)  == CacheTools(t) \/ CallReturns(t) \/ BuildToolkit(t)

Next ==
  \/ \E t \in Threads : Call(t) \/ Locks(t) \/ Runs(t) \/ GiveUp(t)
  \/ HandleNotification \/ ClearCached \/ Invalidate
  \/ Change \/ Answer \/ Deliver

Spec == Init /\ [][Next]_vars

\* A mutex is passed to those that wait for it, goroutines run, and the
\* server answers.
FairSpec ==
  /\ Spec
  /\ \A t \in Threads : SF_vars(Locks(t)) /\ WF_vars(Runs(t))
  /\ WF_vars(HandleNotification) /\ SF_vars(ClearCached) /\ SF_vars(Invalidate)
  /\ WF_vars(Answer) /\ WF_vars(Deliver)

-------------------------------------------------------------------------------
(* Properties *)

Versions == 0..MaxChanges

\* Only a reader of the toolkit wraps tools, and with t.mu (ensureToolkit);
\* a notification has one goroutine at most.
TypeOK ==
  /\ version \in Versions /\ request \in Threads \cup {None}
  /\ \A i \in DOMAIN wire :
       wire[i] = Changed \/ \E t \in Threads, v \in Versions : wire[i] = Tools(t, v)
  /\ inline \in BOOLEAN /\ handling \in BOOLEAN
  /\ clearing \in Versions /\ invalidating \in Versions /\ clearing + invalidating <= MaxChanges
  /\ cMu \in Threads \cup {None} /\ tMu \in Loads \cup {None}
  /\ cached \in Versions \cup {None} /\ toolkit \in Versions \cup {None}
  /\ \A t \in Loads : pc[t] \in {"idle", "ensure", "list", "listing", "build"}
  /\ \A t \in Gets  : pc[t] \in {"idle", "get", "listing", "calling"}
  /\ answer \in [Threads -> Versions \cup {None}]

Old(v) == v # None /\ v # version

Announced == \E i \in DOMAIN wire : wire[i] = Changed

\* A cache of old tools is about to be cleared: the notification is still to
\* be handled, also when a list was on its way or in hand when it came
\* (handleNotification).
StaleIsCleared ==
  /\ Old(cached)  => Announced \/ clearing > 0
  /\ Old(toolkit) => Announced \/ clearing > 0 \/ invalidating > 0 \/ handling

\* The reader waits for a toolkit that waits for the reader: a list under
\* t.mu whose answer is behind the handler.
HandlerBlocks == handling /\ tMu # None

\* A call of the toolkit or the client returns, whoever waits for c.mu when a
\* notification comes: unless the handler itself waits for a goroutine that
\* lists (Invalidate).
CallsReturn == \A t \in Threads : pc[t] # "idle" ~> pc[t] = "idle" \/ HandlerBlocks

==============================================================================
