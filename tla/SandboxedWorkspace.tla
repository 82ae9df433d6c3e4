---------------------------- MODULE SandboxedWorkspace ----------------------------
(***************************************************************************)
(* sandboxed.Workspace: the MCP servers of a remote sandbox are kept in    *)
(* three places, the gateway process in the sandbox, the .mcp file beside  *)
(* it and the proxies of the host, by operations that are several remote   *)
(* calls long, each of which may fail. Calls of MCP tools go round the     *)
(* workspace's mutex and through an operationGate, which the operations    *)
(* that take servers away close and drain.                                 *)
(*                                                                         *)
(* w.mu is held by the operation pc is in. The runtime is one the provider *)
(* preserves when the workspace is closed.                                 *)
(***************************************************************************)
EXTENDS Naturals, FiniteSets

CONSTANTS
  Names,        \* names of MCP servers
  Calls,        \* calls of MCP tools
  Defaults,     \* Config.DefaultMCPs
  MaxFaults,    \* bound: remote calls that fail during one operation
  MaxEras,      \* bound: connections to the sandbox
  MaxCrashes    \* bound: crashes of the host process

ASSUME DefaultsAssumption == Defaults \subseteq Names
ASSUME BoundsAssumption   == MaxFaults \in Nat /\ MaxEras \in Nat /\ MaxCrashes \in Nat

VARIABLES
  alive,      \* w.alive
  mcps,       \* w.mcps, by name
  live,       \* the servers in the gateway process
  fileIs,     \* is there a .mcp file, and does it decode
  file,       \* its servers
  pc,         \* the operation that holds w.mu, and where it is
  arg,        \* the name it is about
  snapshot,   \* liveConfigs of a reset
  pending,    \* those of them a loop has still to visit
  broken,     \* did a rollback fail
  faults,     \* remote calls of the operation that failed
  cancelled,  \* is its context done
  era,        \* the connection, and with it the gateway client and its gate
  closing,    \* the eras whose gate is closing
  calls,      \* the calls of MCP tools, each through one proxy
  kept,       \* history: servers added and not since taken away
  gone,       \* history: servers taken away and not since added
  crashes,
  harsh       \* may a call fail that was carried out, and a context end

vars == <<alive, mcps, live, fileIs, file, pc, arg, snapshot, pending, broken, faults, cancelled,
          era, closing, calls, kept, gone, crashes, harsh>>
registry == <<mcps, live, fileIs, file>>
reset    == <<snapshot, pending, broken>>
context  == <<faults, cancelled>>
gateVars == <<era, closing, calls>>
history  == <<kept, gone>>
mode     == <<crashes, harsh>>

NoCall == [at |-> "none"]

\* A call holds a proxy of an era for a name, found it connected, and runs
\* with a lease of the gate; a proxy may be marked as disconnected.
Call == [at : {"checked", "running"}, name : Names, era : 0..MaxEras, stale : BOOLEAN]

InitSteps   == {"init.open", "init.restore", "init.launch", "init.load"}
AddSteps    == {"add", "add.save", "add.undo"}
RemoveSteps == {"remove.wait", "remove", "remove.save", "remove.undo"}
ResetSteps  == {"reset.wait", "reset.list", "reset.remove", "reset.clear", "restore.list",
                "restore.add", "restore.file", "reset.trees"}
Reconciling == {"add.reconcile", "add.resave", "remove.reconcile", "remove.resave",
                "reset.reconcile", "reset.resave", "reset.reconcileCtx", "reset.resaveCtx"}
Steps == {"idle", "close.wait", "close"} \cup InitSteps \cup AddSteps \cup RemoveSteps
         \cup ResetSteps \cup Reconciling

-------------------------------------------------------------------------------
Init ==
  /\ alive = FALSE /\ mcps = {} /\ live = {} /\ fileIs = "none" /\ file = {}
  /\ pc = "idle" /\ arg \in Names /\ snapshot = {} /\ pending = {} /\ broken = FALSE
  /\ faults = 0 /\ cancelled = FALSE
  /\ era = 0 /\ closing = {} /\ calls = [c \in Calls |-> NoCall]
  /\ kept = {} /\ gone = {} /\ crashes = 0 /\ harsh \in BOOLEAN

-------------------------------------------------------------------------------
(* Remote calls. One under a context that is done fails before it is sent;  *)
(* detachedContext gives the rollbacks a context of their own.              *)

CanSend(detached) == detached \/ ~cancelled

Fault(detached) ==
  IF CanSend(detached) THEN faults < MaxFaults /\ faults' = faults + 1 ELSE UNCHANGED faults

\* What a failed call of the gateway leaves of what it was to change.
Left(detached, old, new) == {old} \cup (IF harsh /\ CanSend(detached) THEN {new} ELSE {})

\* Backend.WriteFile of the .mcp file, as a rule with the host's servers.
Saved(names) == fileIs' = "whole" /\ file' = names

\* A write that broke off: nothing promises that the file is replaced in one
\* step (opensandbox uploads in place), and the beginning of a JSON array, or
\* nothing at all, does not decode.
Torn == fileIs' = "torn" /\ file' = {}

\* What a failed write leaves of the file.
SaveFailed(detached, names) ==
  \/ UNCHANGED <<fileIs, file>>
  \/ harsh /\ CanSend(detached) /\ (Saved(names) \/ Torn)

\* A write of the file is under way.
Writing ==
  \/ pc \in {"init.restore", "add.save", "remove.save", "add.resave", "remove.resave",
             "reset.resave", "reset.resaveCtx"}
  \/ pc \in {"reset.remove", "restore.file"} /\ pending = {}

Running(e) == {c \in Calls : calls[c].at = "running" /\ calls[c].era = e}

\* markMCPsDisconnected, of the proxies of the era.
Disconnect(names) ==
  calls' = [c \in Calls |->
              IF calls[c].at # "none" /\ calls[c].name \in names /\ calls[c].era = era
              THEN [calls[c] EXCEPT !.stale = TRUE] ELSE calls[c]]

Goto(step) == pc' = step

\* An operation takes w.mu under a context of its own.
Begin(step) ==
  /\ pc = "idle" /\ Goto(step)
  /\ faults' = 0 /\ cancelled' = FALSE

\* The deferred reopen, then the unlock.
ReopenAndReturn == Goto("idle") /\ closing' = closing \ {era}

Cancel ==
  /\ harsh /\ pc # "idle" /\ ~cancelled /\ faults < MaxFaults
  /\ cancelled' = TRUE /\ faults' = faults + 1
  /\ UNCHANGED <<alive, registry, pc, arg, reset, gateVars, history, mode>>

-------------------------------------------------------------------------------
(* Initialize *)

StartInitialize ==
  /\ ~alive /\ era < MaxEras /\ Begin("init.open")
  /\ UNCHANGED <<alive, registry, arg, reset, gateVars, history, mode>>

\* provider.Open and ensureLayout.
OpenRuntime ==
  /\ pc = "init.open"
  /\ \/ CanSend(FALSE) /\ Goto("init.restore") /\ UNCHANGED faults
     \/ Fault(FALSE) /\ Goto("idle")
  /\ UNCHANGED <<alive, registry, arg, reset, cancelled, gateVars, history, mode>>

\* Mutant: the defaults win over the file.
RestoredDefaults == Defaults

\* The servers of the file; the defaults stand in for one that is missing or
\* does not decode.
Restored == IF fileIs = "whole" THEN file ELSE Defaults

\* What was promised of a file that does not decode is lost with it: the
\* defaults take its place.
ForgetTorn ==
  IF fileIs = "torn" THEN kept' = {} /\ gone' = {} ELSE UNCHANGED history

\* restoreMCPConfigs reads the file and writes it back.
RestoreMCPConfigs ==
  /\ pc = "init.restore"
  /\ \/ CanSend(FALSE) /\ Saved(Restored) /\ ForgetTorn
        /\ Goto("init.launch") /\ UNCHANGED faults
     \/ /\ Fault(FALSE) /\ Goto("idle") /\ SaveFailed(FALSE, Restored)
        /\ IF fileIs' = "whole" THEN ForgetTorn ELSE UNCHANGED history
  /\ UNCHANGED <<alive, mcps, live, arg, reset, cancelled, gateVars, mode>>

\* setupGateway: the script ends an old gateway and starts one, which
\* connects the servers of the file or ends; there is a new gate.
SetupGateway ==
  /\ pc = "init.launch"
  /\ \/ CanSend(FALSE) /\ live' = file /\ era' = era + 1 /\ Goto("init.load") /\ UNCHANGED faults
     \/ Fault(FALSE) /\ live' \in Left(FALSE, live, file) /\ Goto("idle") /\ UNCHANGED era
  /\ UNCHANGED <<alive, mcps, fileIs, file, arg, reset, cancelled, closing, calls, history, mode>>

\* loadGatewayMCPs and seedSkillsLocked, or rollbackInitialize.
LoadGatewayMCPs ==
  /\ pc = "init.load"
  /\ \/ CanSend(FALSE) /\ alive' = TRUE /\ mcps' = live /\ UNCHANGED <<faults, closing>>
     \/ Fault(FALSE) /\ closing' = closing \cup {era} /\ UNCHANGED <<alive, mcps>>
  /\ Goto("idle")
  /\ UNCHANGED <<live, fileIs, file, arg, reset, cancelled, era, calls, history, mode>>

-------------------------------------------------------------------------------
(* AddMCP *)

StartAdd(n) ==
  /\ alive /\ n \notin mcps /\ Begin("add")
  /\ arg' = n /\ gone' = gone \ {n}
  /\ UNCHANGED <<alive, registry, reset, gateVars, kept, mode>>

\* gateway.AddMCP; _add_mcp refuses a name it has. After a failure AddMCP
\* returns.
AddToGateway ==
  /\ pc = "add"
  /\ \/ /\ CanSend(FALSE) /\ arg \notin live
        /\ live' = live \cup {arg} /\ mcps' = mcps \cup {arg}
        /\ Goto("add.save") /\ UNCHANGED faults
     \/ /\ CanSend(FALSE) /\ arg \in live
        /\ Goto("idle") /\ UNCHANGED <<live, mcps, faults>>
     \/ /\ Fault(FALSE) /\ live' \in Left(FALSE, live, live \cup {arg})
        /\ Goto("idle") /\ UNCHANGED mcps
  /\ UNCHANGED <<alive, fileIs, file, arg, reset, cancelled, gateVars, history, mode>>

SaveAdded ==
  /\ pc = "add.save"
  /\ \/ /\ CanSend(FALSE) /\ Saved(mcps)
        /\ Goto("idle") /\ kept' = kept \cup {arg} /\ UNCHANGED faults
     \/ /\ Fault(FALSE) /\ SaveFailed(FALSE, mcps)
        /\ Goto("add.undo") /\ UNCHANGED kept
  /\ UNCHANGED <<alive, mcps, live, arg, reset, cancelled, gateVars, gone, mode>>

\* The rollback takes the server from the gateway again.
UndoAdd ==
  /\ pc = "add.undo"
  /\ \/ /\ live' = live \ {arg} /\ mcps' = mcps \ {arg} /\ Disconnect({arg})
        /\ Goto("idle") /\ UNCHANGED faults
     \/ /\ Fault(TRUE) /\ live' \in Left(TRUE, live, live \ {arg})
        /\ Goto("add.reconcile") /\ UNCHANGED <<mcps, calls>>
  /\ UNCHANGED <<alive, fileIs, file, arg, reset, cancelled, era, closing, history, mode>>

-------------------------------------------------------------------------------
(* The gate *)

\* closeAndWait closes the gate and waits for the calls that have a lease.
CloseGate(step) == Begin(step) /\ closing' = closing \cup {era}

Drained == Running(era) = {}

\* A context that ends while it waits reopens the gate.
GiveUp ==
  /\ pc \in {"remove.wait", "reset.wait", "close.wait"} /\ cancelled
  /\ ReopenAndReturn
  /\ UNCHANGED <<alive, registry, arg, reset, context, era, calls, history, mode>>

-------------------------------------------------------------------------------
(* RemoveMCP *)

StartRemove(n) ==
  /\ alive /\ n \in mcps /\ CloseGate("remove.wait")
  /\ arg' = n /\ kept' = kept \ {n}
  /\ UNCHANGED <<alive, registry, reset, era, calls, gone, mode>>

\* A name that is not listed needs no removal, says RemoveMCP, and asks neither
\* the gateway nor the file: what a failed operation left of it there stays.
RemoveUnlisted(n) ==
  /\ alive /\ pc = "idle" /\ n \notin mcps
  /\ gone' = gone \cup ({n} \ (live \cup file))
  /\ UNCHANGED <<alive, registry, pc, arg, reset, context, gateVars, kept, mode>>

\* Mutant: RemoveMCP does not wait.
DoNotWaitToRemove ==
  /\ pc = "remove.wait" /\ Goto("remove")
  /\ UNCHANGED <<alive, registry, arg, reset, context, gateVars, history, mode>>

WaitToRemove ==
  /\ pc = "remove.wait" /\ Drained /\ Goto("remove")
  /\ UNCHANGED <<alive, registry, arg, reset, context, gateVars, history, mode>>

\* Mutant: a failed removal returns before the deferred reopen.
RemoveLeavingClosed ==
  /\ pc = "remove"
  /\ \/ /\ CanSend(FALSE)
        /\ live' = live \ {arg} /\ mcps' = mcps \ {arg}
        /\ Goto("remove.save") /\ UNCHANGED faults
     \/ /\ Fault(FALSE) /\ live' \in Left(FALSE, live, live \ {arg})
        /\ Goto("idle") /\ UNCHANGED mcps
  /\ UNCHANGED <<alive, fileIs, file, arg, reset, cancelled, era, closing, calls, history, mode>>

\* gateway.RemoveMCP, for which a name the gateway does not have is removed;
\* _remove_mcp forgets a server before it closes it.
RemoveFromGateway ==
  /\ pc = "remove"
  /\ \/ /\ CanSend(FALSE)
        /\ live' = live \ {arg} /\ mcps' = mcps \ {arg}
        /\ Goto("remove.save") /\ UNCHANGED <<faults, closing>>
     \/ /\ Fault(FALSE) /\ live' \in Left(FALSE, live, live \ {arg})
        /\ ReopenAndReturn /\ UNCHANGED mcps
  /\ UNCHANGED <<alive, fileIs, file, arg, reset, cancelled, era, calls, history, mode>>

\* Mutant: the proxies are left connected.
SaveRemovedQuietly ==
  /\ pc = "remove.save"
  /\ \/ /\ CanSend(FALSE) /\ Saved(mcps)
        /\ ReopenAndReturn /\ gone' = gone \cup {arg} /\ UNCHANGED faults
     \/ /\ Fault(FALSE) /\ SaveFailed(FALSE, mcps)
        /\ Goto("remove.undo") /\ UNCHANGED <<gone, closing>>
  /\ UNCHANGED <<alive, mcps, live, arg, reset, cancelled, era, calls, kept, mode>>

SaveRemoved ==
  /\ pc = "remove.save"
  /\ \/ /\ CanSend(FALSE) /\ Saved(mcps) /\ Disconnect({arg})
        /\ ReopenAndReturn /\ gone' = gone \cup {arg} /\ UNCHANGED faults
     \/ /\ Fault(FALSE) /\ SaveFailed(FALSE, mcps)
        /\ Goto("remove.undo") /\ UNCHANGED <<gone, closing, calls>>
  /\ UNCHANGED <<alive, mcps, live, arg, reset, cancelled, era, kept, mode>>

\* The rollback adds the server to the gateway again and keeps its proxy.
UndoRemove ==
  /\ pc = "remove.undo"
  /\ \/ /\ live' = live \cup {arg} /\ mcps' = mcps \cup {arg}
        /\ ReopenAndReturn /\ UNCHANGED <<faults, calls>>
     \/ /\ Fault(TRUE) /\ live' \in Left(TRUE, live, live \cup {arg})
        /\ Disconnect({arg}) /\ Goto("remove.reconcile") /\ UNCHANGED <<mcps, closing>>
  /\ UNCHANGED <<alive, fileIs, file, arg, reset, cancelled, era, history, mode>>

-------------------------------------------------------------------------------
(* Reset *)

StartReset ==
  /\ alive /\ CloseGate("reset.wait")
  /\ kept' = {} /\ broken' = FALSE
  /\ UNCHANGED <<alive, registry, arg, snapshot, pending, era, calls, gone, mode>>

WaitToReset ==
  /\ pc = "reset.wait" /\ Drained /\ Goto("reset.list")
  /\ UNCHANGED <<alive, registry, arg, reset, context, gateVars, history, mode>>

\* liveConfigs; without them resetMCPsLocked returns.
ListBeforeReset ==
  /\ pc = "reset.list"
  /\ \/ CanSend(FALSE) /\ snapshot' = live /\ pending' = live /\ Goto("reset.remove") /\ UNCHANGED faults
     \/ Fault(FALSE) /\ Goto("reset.trees") /\ UNCHANGED <<snapshot, pending>>
  /\ UNCHANGED <<alive, registry, arg, broken, cancelled, gateVars, history, mode>>

\* They are removed one by one; the first failure ends that for the rollback.
RemoveAll ==
  /\ pc = "reset.remove" /\ pending # {}
  /\ \E n \in pending :
       \/ /\ CanSend(FALSE) /\ live' = live \ {n} /\ pending' = pending \ {n}
          /\ UNCHANGED <<pc, faults>>
       \/ /\ Fault(FALSE) /\ live' \in Left(FALSE, live, live \ {n})
          /\ Goto("restore.list") /\ UNCHANGED pending
  /\ UNCHANGED <<alive, mcps, fileIs, file, arg, snapshot, broken, cancelled, gateVars, history, mode>>

\* When none is left, the empty file, then the proxies.
ClearFile ==
  /\ pc = "reset.remove" /\ pending = {}
  /\ \/ /\ CanSend(FALSE) /\ Saved({}) /\ mcps' = {} /\ Disconnect(mcps)
        /\ Goto("reset.trees") /\ gone' = Names /\ UNCHANGED faults
     \/ /\ Fault(FALSE) /\ SaveFailed(FALSE, {})
        /\ Goto("reset.clear") /\ UNCHANGED <<mcps, calls, gone>>
  /\ UNCHANGED <<alive, live, arg, reset, cancelled, era, closing, kept, mode>>

\* Mutant: the rollback takes the servers of the list for the missing ones.
ListToRestoreAll ==
  /\ pc \in {"reset.clear", "restore.list"}
  /\ \/ /\ pending' = live /\ UNCHANGED <<broken, faults>>
     \/ /\ Fault(TRUE) /\ broken' = TRUE /\ pending' = {}
  /\ Goto(IF pc = "reset.clear" THEN "restore.file" ELSE "restore.add")
  /\ UNCHANGED <<alive, registry, arg, snapshot, cancelled, gateVars, history, mode>>

\* restoreGatewayMCPsLocked: the servers that are missing.
ListToRestore ==
  /\ pc \in {"reset.clear", "restore.list"}
  /\ \/ /\ pending' = snapshot \ live /\ UNCHANGED <<broken, faults>>
     \/ /\ Fault(TRUE) /\ broken' = TRUE /\ pending' = {}
  /\ Goto(IF pc = "reset.clear" THEN "restore.file" ELSE "restore.add")
  /\ UNCHANGED <<alive, registry, arg, snapshot, cancelled, gateVars, history, mode>>

\* ... are added one by one, each whether or not the others could be.
AddMissing ==
  /\ pc \in {"restore.add", "restore.file"} /\ pending # {}
  /\ \E n \in pending :
       /\ pending' = pending \ {n}
       /\ \/ live' = live \cup {n} /\ UNCHANGED <<broken, faults>>
          \/ Fault(TRUE) /\ live' \in Left(TRUE, live, live \cup {n}) /\ broken' = TRUE
  /\ UNCHANGED <<alive, mcps, fileIs, file, pc, arg, snapshot, cancelled, gateVars, history, mode>>

\* After a failed removal the file is as it was; the reconciliation of that
\* branch is under the operation's context.
RemovalRestored ==
  /\ pc = "restore.add" /\ pending = {}
  /\ Goto(IF broken THEN "reset.reconcileCtx" ELSE "reset.trees")
  /\ UNCHANGED <<alive, registry, arg, reset, context, gateVars, history, mode>>

\* After a failed write the file is written again, with the host's servers.
RestoreFile ==
  /\ pc = "restore.file" /\ pending = {}
  /\ \/ Saved(mcps) /\ UNCHANGED faults
     \/ Fault(TRUE) /\ SaveFailed(TRUE, mcps)
  /\ Goto(IF broken THEN "reset.reconcile" ELSE "reset.trees")
  /\ UNCHANGED <<alive, mcps, live, arg, reset, cancelled, gateVars, history, mode>>

\* deleteTrees and ensureDataDirectories, whatever became of the servers.
DeleteTrees ==
  /\ pc = "reset.trees" /\ ReopenAndReturn
  /\ UNCHANGED <<alive, registry, arg, reset, context, era, calls, history, mode>>

-------------------------------------------------------------------------------
(* reconcileMCPsLocked: what the gateway has becomes the host's servers, with *)
(* new proxies, and the file.                                                *)

Detached == pc \notin {"reset.reconcileCtx", "reset.resaveCtx"}

Reconciled ==
  IF pc \in ResetSteps \cup {"reset.reconcile", "reset.resave", "reset.reconcileCtx", "reset.resaveCtx"}
  THEN Goto("reset.trees") /\ UNCHANGED closing
  ELSE ReopenAndReturn

Resaving == [s \in {"add.reconcile", "remove.reconcile", "reset.reconcile", "reset.reconcileCtx"} |->
               CASE s = "add.reconcile"    -> "add.resave"
                 [] s = "remove.reconcile" -> "remove.resave"
                 [] s = "reset.reconcile"  -> "reset.resave"
                 [] OTHER                  -> "reset.resaveCtx"]

Reconcile ==
  /\ pc \in DOMAIN Resaving
  /\ \/ /\ CanSend(Detached) /\ mcps' = live /\ Disconnect(mcps)
        /\ Goto(Resaving[pc]) /\ UNCHANGED <<faults, closing>>
     \/ /\ Fault(Detached) /\ Reconciled /\ UNCHANGED <<mcps, calls>>
  /\ UNCHANGED <<alive, live, fileIs, file, arg, reset, cancelled, era, history, mode>>

Resave ==
  /\ pc \in {"add.resave", "remove.resave", "reset.resave", "reset.resaveCtx"}
  /\ \/ CanSend(Detached) /\ Saved(mcps) /\ UNCHANGED faults
     \/ Fault(Detached) /\ SaveFailed(Detached, mcps)
  /\ Reconciled
  /\ UNCHANGED <<alive, mcps, live, arg, reset, cancelled, era, calls, history, mode>>

-------------------------------------------------------------------------------
(* Close *)

StartClose ==
  /\ alive /\ CloseGate("close.wait")
  /\ UNCHANGED <<alive, registry, arg, reset, era, calls, history, mode>>

WaitToClose ==
  /\ pc = "close.wait" /\ Drained /\ Goto("close")
  /\ UNCHANGED <<alive, registry, arg, reset, context, gateVars, history, mode>>

\* Mutant: the gate is opened again.
CloseAndReopen ==
  /\ pc = "close"
  /\ alive' = FALSE /\ mcps' = {} /\ Disconnect(mcps) /\ ReopenAndReturn
  /\ UNCHANGED <<live, fileIs, file, arg, reset, context, era, history, mode>>

\* gateway.Close and provider.Close, whatever they return; the gate of the
\* era stays closed.
CloseRuntime ==
  /\ pc = "close"
  /\ alive' = FALSE /\ mcps' = {} /\ Disconnect(mcps) /\ Goto("idle")
  /\ UNCHANGED <<live, fileIs, file, arg, reset, context, era, closing, history, mode>>

\* The host process ends; the sandbox is what it was, but for a write of the
\* file that may have broken off.
Crash ==
  /\ crashes < MaxCrashes
  /\ crashes' = crashes + 1
  /\ alive' = FALSE /\ mcps' = {} /\ Goto("idle")
  /\ calls' = [c \in Calls |-> NoCall] /\ closing' = closing \cup {era}
  /\ UNCHANGED <<fileIs, file>> \/ (Writing /\ Torn)
  /\ UNCHANGED <<live, arg, reset, context, era, history, harsh>>

-------------------------------------------------------------------------------
(* Calls of MCP tools, without w.mu *)

\* Execute finds a proxy of ListMCPs connected.
CheckConnected(c, n) ==
  /\ calls[c].at = "none" /\ pc = "idle" /\ alive /\ n \in mcps
  /\ calls' = [calls EXCEPT ![c] = [at |-> "checked", name |-> n, era |-> era, stale |-> FALSE]]
  /\ UNCHANGED <<alive, registry, pc, arg, reset, context, era, closing, history, mode>>

\* RoundTrip takes a lease, or the gate is closing and the call fails.
BeginOperation(c) ==
  /\ calls[c].at = "checked"
  /\ calls' = [calls EXCEPT ![c] = IF calls[c].era \in closing THEN NoCall
                                  ELSE [calls[c] EXCEPT !.at = "running"]]
  /\ UNCHANGED <<alive, registry, pc, arg, reset, context, era, closing, history, mode>>

\* Mutant: the lease of a call that ended is kept.
KeepLease(c) == calls[c].at = "running" /\ UNCHANGED vars

EndOperation(c) ==
  /\ calls[c].at = "running"
  /\ calls' = [calls EXCEPT ![c] = NoCall]
  /\ UNCHANGED <<alive, registry, pc, arg, reset, context, era, closing, history, mode>>

-------------------------------------------------------------------------------
Operation ==
  \/ OpenRuntime \/ RestoreMCPConfigs \/ SetupGateway \/ LoadGatewayMCPs
  \/ AddToGateway \/ SaveAdded \/ UndoAdd
  \/ GiveUp \/ WaitToRemove \/ RemoveFromGateway \/ SaveRemoved \/ UndoRemove
  \/ WaitToReset \/ ListBeforeReset \/ RemoveAll \/ ClearFile \/ ListToRestore \/ AddMissing
  \/ RemovalRestored \/ RestoreFile \/ DeleteTrees \/ Reconcile \/ Resave
  \/ WaitToClose \/ CloseRuntime

Next ==
  \/ Operation \/ Cancel \/ Crash
  \/ StartInitialize \/ StartReset \/ StartClose
  \/ \E n \in Names : StartAdd(n) \/ StartRemove(n) \/ RemoveUnlisted(n)
  \/ \E c \in Calls : \/ \E n \in Names : CheckConnected(c, n)
                      \/ BeginOperation(c) \/ EndOperation(c)

Spec == Init /\ [][Next]_vars

\* A remote call returns, if by its timeout, and so does a call of a tool.
FairSpec == Spec /\ WF_vars(Operation) /\ \A c \in Calls : WF_vars(EndOperation(c))

-------------------------------------------------------------------------------
(* Properties *)

TypeOK ==
  /\ alive \in BOOLEAN /\ mcps \subseteq Names /\ live \subseteq Names
  /\ fileIs \in {"none", "whole", "torn"} /\ file \subseteq Names
  /\ pc \in Steps /\ arg \in Names /\ snapshot \subseteq Names /\ pending \subseteq Names
  /\ broken \in BOOLEAN /\ faults \in 0..MaxFaults /\ cancelled \in BOOLEAN
  /\ era \in 0..MaxEras /\ closing \subseteq 0..MaxEras
  /\ calls \in [Calls -> Call \cup {NoCall}]
  /\ kept \subseteq Names /\ gone \subseteq Names /\ crashes \in 0..MaxCrashes
  /\ harsh \in BOOLEAN

\* What an operation does after its gate has drained.
Exclusive == (RemoveSteps \ {"remove.wait"}) \cup (ResetSteps \ {"reset.wait"})
             \cup (Reconciling \ {"add.reconcile", "add.resave"}) \cup {"close"}

\* No MCP call is under way while RemoveMCP, Reset or Close work on the
\* gateway (closeAndWait and begin).
Quiesced == pc \in Exclusive => Drained

\* The gate is open whenever no operation is under way, on every way out of
\* one: MCP tools are not cut off from a workspace that is alive.
GateReopened == alive /\ pc = "idle" => era \notin closing

\* No call runs through a connection that was closed or lost: after Close an
\* old proxy cannot reach a new sandbox (the gate is not reopened).
OldErasAreOver == \A c \in Calls : calls[c].at = "running" => calls[c].era = era /\ (alive \/ pc # "idle")

\* ListMCPs returns the servers the gateway proxies, and the file has the
\* same, after every operation, also one that failed and was rolled back, and
\* one whose rollback failed and was reconciled: as long as a call that fails
\* changed nothing, the contexts last, and no operation has a third failure, which
\* could be one of the reconciliation.
Agreement ==
  alive /\ pc = "idle" /\ ~harsh /\ MaxFaults <= 2 => mcps = live /\ fileIs = "whole" /\ file = live

\* A server AddMCP added without an error is in the file until it is taken
\* away, if the file decodes, and after every operation in the gateway and the
\* list; one that RemoveMCP or Reset took away without an error, or RemoveMCP
\* found nowhere, does not come back unless it is added: whatever failed since,
\* and wherever the process died.  It ends where Initialize finds a file that
\* does not decode, a write of which had broken off, and restores the defaults.
SuccessLasts ==
  /\ kept # {} => fileIs # "none" /\ (fileIs = "whole" => kept \subseteq file)
  /\ alive /\ pc = "idle" => kept \subseteq mcps \cap live
  /\ gone \cap file = {} /\ (alive => gone \cap (mcps \cup live) = {})

\* Every proxy that passes for connected is of a listed server.
ConnectedIsListed ==
  pc = "idle" => \A c \in Calls : calls[c].at # "none" /\ ~calls[c].stale =>
                   alive /\ calls[c].era = era /\ calls[c].name \in mcps

\* An operation ends: closeAndWait hears of the last call.
OperationsEnd == pc # "idle" ~> pc = "idle"

==============================================================================
