------------------------- MODULE SandboxedWorkspaceProofs -------------------------
(***************************************************************************)
(* For any servers, calls and bounds: no MCP call is under way while an    *)
(* operation takes servers away, none survives its connection, and the     *)
(* gate is open whenever no operation is under way. What was added or      *)
(* removed without an error lasts, and the three places agree again after  *)
(* every operation in which at most two calls failed, and plainly.         *)
(***************************************************************************)
EXTENDS SandboxedWorkspace, TLAPS

\* The steps of the operations that close the gate, and those of AddMCP.
Waiting == {"remove.wait", "reset.wait", "close.wait"}
Closed  == Waiting \cup Exclusive
Adding  == AddSteps \cup {"add.reconcile", "add.resave"}

Proxy == [at : {"checked", "running"}, name : Names, era : Nat, stale : BOOLEAN]

Shape ==
  /\ alive \in BOOLEAN /\ pc \in Steps
  /\ era \in Nat /\ closing \subseteq 0..era
  /\ calls \in [Calls -> Proxy \cup {NoCall}]

\* An operation other than Initialize is one of a workspace that is alive.
Owned == /\ pc \in InitSteps => ~alive
         /\ pc \in Closed \cup Adding => alive

\* Whose gate is closed: that of the operations that close it, and of no
\* connection that is in use or about to be.
Gate ==
  /\ pc \in Closed => era \in closing
  /\ alive /\ pc \notin Closed => era \notin closing
  /\ pc = "init.load" => era \notin closing

\* A call that runs is one of this connection; one that does not yet is, or
\* will find its gate closed.
Leases ==
  \A c \in Calls :
    /\ calls[c].at = "running" => alive /\ calls[c].era = era
    /\ calls[c].at = "checked" => \/ alive /\ calls[c].era = era
                                  \/ calls[c].era \in closing

Exclusion == pc \in Exclusive => \A c \in Calls : calls[c].at # "running"

IInv == Shape /\ Owned /\ Gate /\ Leases /\ Exclusion

-------------------------------------------------------------------------------
(* Steps that concern no lease *)

SameCalls ==
  /\ calls' \in [Calls -> Proxy \cup {NoCall}]
  /\ \A c \in Calls : /\ calls'[c].at = calls[c].at
                      /\ calls[c].at # "none" => calls'[c].era = calls[c].era

USE DEF InitSteps, AddSteps, RemoveSteps, ResetSteps, Reconciling

\* UNCHANGED calls.
LEMMA UnchangedCalls ==
  ASSUME Shape, calls' = calls
  PROVE  SameCalls
BY DEF Shape, SameCalls

\* markMCPsDisconnected only marks.
LEMMA DisconnectKeeps ==
  ASSUME Shape, NEW names, Disconnect(names)
  PROVE  SameCalls
<1>1. ASSUME NEW c \in Calls
      PROVE  /\ calls'[c] \in Proxy \cup {NoCall}
             /\ calls'[c].at = calls[c].at
             /\ calls[c].at # "none" => calls'[c].era = calls[c].era
  <2>1. CASE calls[c] = NoCall
    BY <2>1 DEF Disconnect, NoCall
  <2>2. CASE calls[c] \in Proxy
    BY <2>2 DEF Disconnect, Proxy
  <2>. QED  BY <1>1, <2>1, <2>2 DEF Shape
<1>2. calls' = [c \in Calls |-> calls'[c]]
  BY DEF Disconnect
<1>. QED  BY <1>1, <1>2 DEF SameCalls

\* A step inside one kind of operation.
LEMMA Within ==
  ASSUME IInv, SameCalls, UNCHANGED <<alive, era, closing>>,
         \/ pc \in Exclusive /\ pc' \in Exclusive
         \/ pc \in Adding /\ pc' \in Adding \cup {"idle"}
         \/ pc' = pc
  PROVE  IInv'
<1>1. Shape'
  BY DEF IInv, Shape, SameCalls, Exclusive, Adding, Steps
<1>2. Owned' /\ Gate'
  BY DEF IInv, Owned, Gate, Closed, Waiting, Exclusive, Adding
<1>3. Leases'
  BY DEF IInv, Leases, SameCalls
<1>4. Exclusion'
  BY DEF IInv, Exclusion, SameCalls, Exclusive, Adding
<1>. QED  BY <1>1, <1>2, <1>3, <1>4 DEF IInv

\* The end of an operation that closed the gate.
LEMMA Returned ==
  ASSUME IInv, SameCalls, UNCHANGED <<alive, era>>,
         pc \in Closed, ReopenAndReturn
  PROVE  IInv'
<1>1. pc' = "idle" /\ closing' = closing \ {era} /\ alive
  BY DEF ReopenAndReturn, Goto, IInv, Owned
<1>2. Shape'
  BY <1>1 DEF IInv, Shape, SameCalls, Steps
<1>3. Owned' /\ Gate' /\ Exclusion'
  BY <1>1 DEF Owned, Gate, Exclusion, Closed, Waiting, Exclusive, Adding
<1>4. Leases'
  BY <1>1 DEF IInv, Leases, SameCalls
<1>. QED  BY <1>2, <1>3, <1>4 DEF IInv

-------------------------------------------------------------------------------
(* Initialize, and the ways in and out *)

LEMMA InitIInv == Init => IInv
<1>. SUFFICES ASSUME Init PROVE IInv
  OBVIOUS
<1>1. Shape /\ Leases /\ Exclusion
  BY DEF Init, Shape, Leases, Exclusion, Steps, NoCall, Exclusive
<1>2. Owned /\ Gate
  BY DEF Init, Owned, Gate, Closed, Waiting, Exclusive, Adding
<1>. QED  BY <1>1, <1>2 DEF IInv

\* While the workspace is not alive, every call will find its gate closed.
LEMMA InitializeKeeps ==
  ASSUME IInv,
         StartInitialize \/ OpenRuntime \/ RestoreMCPConfigs \/ SetupGateway \/ LoadGatewayMCPs
  PROVE  IInv'
<1>. USE DEF Closed, Waiting, Exclusive, Adding
<1>1. CASE StartInitialize \/ OpenRuntime \/ RestoreMCPConfigs
  <2>1. /\ UNCHANGED <<alive, era, closing, calls>> /\ ~alive
        /\ pc' \in {"init.open", "init.restore", "init.launch", "idle"}
    BY <1>1 DEF StartInitialize, OpenRuntime, RestoreMCPConfigs, Begin, Goto, gateVars, registry,
                IInv, Owned
  <2>2. Shape' /\ Owned' /\ Gate' /\ Exclusion'
    BY <2>1 DEF IInv, Shape, Owned, Gate, Exclusion, Steps
  <2>3. Leases'
    BY <2>1 DEF IInv, Leases
  <2>. QED  BY <2>2, <2>3 DEF IInv
<1>2. CASE SetupGateway
  <2>1. /\ UNCHANGED <<alive, closing, calls>> /\ ~alive
        /\ \/ pc' = "init.load" /\ era' = era + 1
           \/ pc' = "idle" /\ era' = era
    BY <1>2 DEF SetupGateway, Goto, IInv, Owned
  <2>2. Shape' /\ Owned' /\ Gate' /\ Exclusion'
    BY <2>1 DEF IInv, Shape, Owned, Gate, Exclusion, Steps
  <2>3. Leases'
    BY <2>1 DEF IInv, Leases
  <2>. QED  BY <2>2, <2>3 DEF IInv
<1>3. CASE LoadGatewayMCPs
  <2>0. /\ pc = "init.load" /\ ~alive /\ pc' = "idle"
        /\ \/ alive' = TRUE /\ closing' = closing
           \/ alive' = alive /\ closing' = closing \cup {era}
    BY <1>3 DEF LoadGatewayMCPs, Goto, IInv, Owned
  <2>1. era' = era /\ calls' = calls
    BY <1>3 DEF LoadGatewayMCPs
  <2>2. Shape'
    <3>1. alive' \in BOOLEAN
      BY <2>0 DEF IInv, Shape
    <3>2. pc' \in Steps /\ era' \in Nat
      BY <2>0, <2>1 DEF IInv, Shape, Steps
    <3>3. closing' = closing \/ closing' = closing \cup {era}
      BY <2>0
    <3>4. closing' \subseteq 0..era'
      <4>1. closing \subseteq 0..era /\ era \in 0..era
        BY DEF IInv, Shape
      <4>. QED  BY <2>1, <3>3, <4>1
    <3>5. calls' \in [Calls -> Proxy \cup {NoCall}]
      BY <2>1 DEF IInv, Shape
    <3>. QED  BY <3>1, <3>2, <3>4, <3>5 DEF Shape
  <2>3. Owned' /\ Gate' /\ Exclusion'
    BY <2>0, <2>1 DEF IInv, Owned, Gate, Exclusion
  <2>4. Leases'
    BY <2>0, <2>1 DEF IInv, Leases
  <2>. QED  BY <2>2, <2>3, <2>4 DEF IInv
<1>. QED  BY <1>1, <1>2, <1>3

\* The gate closes, and drains.
LEMMA GateKeeps ==
  ASSUME IInv,
         \/ \E n \in Names : StartAdd(n) \/ StartRemove(n) \/ RemoveUnlisted(n)
         \/ StartReset \/ StartClose
         \/ WaitToRemove \/ WaitToReset \/ WaitToClose
  PROVE  IInv'
<1>. USE DEF Closed, Waiting, Exclusive, Adding
<1>1. CASE \E n \in Names : StartAdd(n)
  <2>1. UNCHANGED <<alive, era, closing, calls>> /\ alive /\ pc = "idle" /\ pc' = "add"
    BY <1>1 DEF StartAdd, Begin, Goto, gateVars
  <2>2. Shape' /\ Owned' /\ Gate' /\ Leases' /\ Exclusion'
    BY <2>1 DEF IInv, Shape, Owned, Gate, Leases, Exclusion, Steps
  <2>. QED  BY <2>2 DEF IInv
<1>2. CASE (\E n \in Names : StartRemove(n)) \/ StartReset \/ StartClose
  <2>1. /\ UNCHANGED <<alive, era, calls>> /\ alive /\ pc' \in Waiting
        /\ closing' = closing \cup {era}
    BY <1>2 DEF StartRemove, StartReset, StartClose, CloseGate, Begin, Goto
  <2>2. Shape' /\ Owned' /\ Gate' /\ Leases' /\ Exclusion'
    BY <2>1 DEF IInv, Shape, Owned, Gate, Leases, Exclusion, Steps
  <2>. QED  BY <2>2 DEF IInv
<1>3. CASE WaitToRemove \/ WaitToReset \/ WaitToClose
  <2>1. /\ UNCHANGED <<alive, era, closing, calls>> /\ Drained
        /\ pc \in Waiting /\ pc' \in {"remove", "reset.list", "close"}
    BY <1>3 DEF WaitToRemove, WaitToReset, WaitToClose, Goto, gateVars
  <2>2. Shape' /\ Owned' /\ Gate' /\ Leases'
    BY <2>1 DEF IInv, Shape, Owned, Gate, Leases, Steps
  <2>3. \A c \in Calls : calls[c].at # "running"
    BY <2>1 DEF IInv, Leases, Drained, Running
  <2>4. Exclusion'
    BY <2>1, <2>3 DEF Exclusion
  <2>. QED  BY <2>2, <2>4 DEF IInv
<1>4. CASE \E n \in Names : RemoveUnlisted(n)
  <2>1. UNCHANGED <<alive, pc, era, closing, calls>>
    BY <1>4 DEF RemoveUnlisted, gateVars
  <2>. QED  BY <2>1, UnchangedCalls, Within DEF IInv
<1>. QED  BY <1>1, <1>2, <1>3, <1>4

\* The gate of a connection that is closed or lost stays closed.
LEMMA EndKeeps ==
  ASSUME IInv, CloseRuntime \/ Crash
  PROVE  IInv'
<1>. USE DEF Closed, Waiting, Exclusive, Adding
<1>1. CASE CloseRuntime
  <2>1. /\ UNCHANGED <<era, closing>> /\ alive' = FALSE /\ pc = "close" /\ pc' = "idle"
        /\ Disconnect(mcps)
    BY <1>1 DEF CloseRuntime, Goto
  <2>2. SameCalls
    BY <2>1, DisconnectKeeps DEF IInv
  <2>3. Shape' /\ Owned' /\ Gate' /\ Exclusion'
    BY <2>1, <2>2 DEF IInv, Shape, SameCalls, Owned, Gate, Exclusion, Steps
  <2>4. Leases'
    BY <2>1, <2>2 DEF IInv, Leases, Gate, Exclusion, SameCalls
  <2>. QED  BY <2>3, <2>4 DEF IInv
<1>2. CASE Crash
  <2>1. /\ era' = era /\ closing' = closing \cup {era} /\ alive' = FALSE /\ pc' = "idle"
        /\ calls' = [c \in Calls |-> NoCall]
    BY <1>2 DEF Crash, Goto
  <2>2. Shape'
    <3>1. alive' \in BOOLEAN
      BY <2>1 DEF IInv, Shape
    <3>2. pc' \in Steps /\ era' \in Nat /\ closing' \subseteq 0..era'
      BY <2>1 DEF IInv, Shape, Steps
    <3>3. calls' \in [Calls -> Proxy \cup {NoCall}]
      BY <2>1 DEF IInv, Shape
    <3>. QED  BY <3>1, <3>2, <3>3 DEF Shape
  <2>3. Owned' /\ Gate' /\ Exclusion'
    BY <2>1 DEF IInv, Owned, Gate, Exclusion
  <2>4. Leases'
    BY <2>1 DEF Leases, NoCall
  <2>. QED  BY <2>2, <2>3, <2>4 DEF IInv
<1>. QED  BY <1>1, <1>2

-------------------------------------------------------------------------------
(* The operations *)

LEMMA AddKeeps ==
  ASSUME IInv, AddToGateway \/ SaveAdded \/ UndoAdd
  PROVE  IInv'
<1>1. /\ UNCHANGED <<alive, era, closing>>
      /\ pc \in Adding /\ pc' \in Adding \cup {"idle"}
      /\ calls' = calls \/ Disconnect({arg})
  BY DEF AddToGateway, SaveAdded, UndoAdd, Goto, gateVars, Adding
<1>2. SameCalls
  BY <1>1, UnchangedCalls, DisconnectKeeps DEF IInv
<1>. QED  BY <1>1, <1>2, Within

LEMMA RemoveKeeps ==
  ASSUME IInv, GiveUp \/ RemoveFromGateway \/ SaveRemoved \/ UndoRemove
  PROVE  IInv'
<1>1. /\ UNCHANGED <<alive, era>> /\ pc \in Closed
      /\ calls' = calls \/ Disconnect({arg})
      /\ \/ ReopenAndReturn
         \/ closing' = closing /\ pc \in Exclusive /\ pc' \in Exclusive
  BY DEF GiveUp, RemoveFromGateway, SaveRemoved, UndoRemove, Goto, Closed, Waiting, Exclusive
<1>2. SameCalls
  BY <1>1, UnchangedCalls, DisconnectKeeps DEF IInv
<1>. QED  BY <1>1, <1>2, Within, Returned

LEMMA ResetKeeps ==
  ASSUME IInv,
         \/ ListBeforeReset \/ RemoveAll \/ ClearFile \/ ListToRestore \/ AddMissing
         \/ RemovalRestored \/ RestoreFile \/ DeleteTrees
  PROVE  IInv'
<1>1. CASE DeleteTrees
  <2>1. /\ UNCHANGED <<alive, era, calls>> /\ pc \in Closed /\ ReopenAndReturn
    BY <1>1 DEF DeleteTrees, Closed, Exclusive
  <2>. QED  BY <2>1, UnchangedCalls, Returned DEF IInv
<1>2. CASE \/ ListBeforeReset \/ RemoveAll \/ ClearFile \/ ListToRestore \/ AddMissing
           \/ RemovalRestored \/ RestoreFile
  <2>1. /\ UNCHANGED <<alive, era, closing>> /\ pc \in Exclusive /\ pc' \in Exclusive
        /\ calls' = calls \/ Disconnect(mcps)
    BY <1>2 DEF ListBeforeReset, RemoveAll, ClearFile, ListToRestore, AddMissing,
                RemovalRestored, RestoreFile, Goto, gateVars, Exclusive
  <2>2. SameCalls
    BY <2>1, UnchangedCalls, DisconnectKeeps DEF IInv
  <2>. QED  BY <2>1, <2>2, Within
<1>. QED  BY <1>1, <1>2

\* Reconciling, for the three operations that do.
LEMMA ReconcileKeeps ==
  ASSUME IInv, Reconcile \/ Resave
  PROVE  IInv'
<1>1. /\ UNCHANGED <<alive, era>>
      /\ calls' = calls \/ Disconnect(mcps)
      /\ pc \in Reconciling
      /\ \/ closing' = closing /\ pc' = Resaving[pc] /\ pc \in DOMAIN Resaving
         \/ Reconciled
  BY DEF Reconcile, Resave, Goto, Resaving
<1>2. SameCalls
  BY <1>1, UnchangedCalls, DisconnectKeeps DEF IInv
<1>3. CASE closing' = closing /\ pc' = Resaving[pc] /\ pc \in DOMAIN Resaving
  <2>1. \/ pc \in Exclusive /\ pc' \in Exclusive
        \/ pc \in Adding /\ pc' \in Adding
    BY <1>3 DEF Resaving, Exclusive, Adding
  <2>. QED  BY <1>1, <1>2, <1>3, <2>1, Within
<1>4. CASE Reconciled
  <2>1. CASE pc \in {"reset.reconcile", "reset.resave", "reset.reconcileCtx", "reset.resaveCtx"}
    <3>1. closing' = closing /\ pc' \in Exclusive /\ pc \in Exclusive
      BY <1>4, <2>1 DEF Reconciled, Goto, Exclusive
    <3>. QED  BY <1>1, <1>2, <3>1, Within
  <2>2. CASE pc \in {"remove.reconcile", "remove.resave"}
    <3>1. ReopenAndReturn /\ pc \in Closed
      BY <1>4, <2>2 DEF Reconciled, Closed, Exclusive
    <3>. QED  BY <1>1, <1>2, <3>1, Returned
  <2>3. CASE pc \in {"add.reconcile", "add.resave"}
    <3>1. /\ ReopenAndReturn /\ pc \in Adding /\ pc \notin Closed /\ alive
      BY <1>4, <2>3 DEF Reconciled, Closed, Waiting, Exclusive, Adding, IInv, Owned
    <3>2. closing' = closing /\ pc' = "idle"
      BY <3>1 DEF IInv, Gate, ReopenAndReturn, Goto
    <3>. QED  BY <1>1, <1>2, <3>1, <3>2, Within
  <2>. QED  BY <1>1, <2>1, <2>2, <2>3
<1>. QED  BY <1>1, <1>3, <1>4

\* A call runs only when its gate is open.
LEMMA CallsKeep ==
  ASSUME IInv, NEW c \in Calls,
         \/ \E n \in Names : CheckConnected(c, n)
         \/ BeginOperation(c) \/ EndOperation(c)
  PROVE  IInv'
<1>1. CASE \E n \in Names : CheckConnected(c, n)
  <2>1. PICK n \in Names : CheckConnected(c, n)
    BY <1>1
  <2>2. /\ UNCHANGED <<alive, pc, era, closing>> /\ pc = "idle" /\ alive
        /\ calls' =
             [calls EXCEPT ![c] = [at |-> "checked", name |-> n, era |-> era, stale |-> FALSE]]
    BY <2>1 DEF CheckConnected
  <2>3. Shape'
    BY <2>2 DEF IInv, Shape, Proxy
  <2>4. Leases'
    BY <2>2 DEF IInv, Shape, Leases
  <2>5. Owned' /\ Gate' /\ Exclusion'
    BY <2>2 DEF IInv, Owned, Gate, Exclusion, Exclusive, Closed, Waiting, Adding
  <2>. QED  BY <2>3, <2>4, <2>5 DEF IInv
<1>2. CASE EndOperation(c)
  <2>1. UNCHANGED <<alive, pc, era, closing>> /\ calls' = [calls EXCEPT ![c] = NoCall]
    BY <1>2 DEF EndOperation
  <2>2. Shape' /\ Leases' /\ Exclusion'
    BY <2>1 DEF IInv, Shape, Leases, Exclusion, NoCall
  <2>3. Owned' /\ Gate'
    BY <2>1 DEF IInv, Owned, Gate
  <2>. QED  BY <2>2, <2>3 DEF IInv
<1>3. CASE BeginOperation(c)
  <2>1. /\ UNCHANGED <<alive, pc, era, closing>> /\ calls[c].at = "checked" /\ calls[c] \in Proxy
    BY <1>3 DEF BeginOperation, IInv, Shape, NoCall
  <2>2. CASE calls[c].era \in closing
    <3>1. calls' = [calls EXCEPT ![c] = NoCall]
      BY <1>3, <2>2 DEF BeginOperation
    <3>2. Shape' /\ Leases' /\ Exclusion' /\ Owned' /\ Gate'
      BY <2>1, <3>1 DEF IInv, Shape, Leases, Exclusion, Owned, Gate, NoCall
    <3>. QED  BY <3>2 DEF IInv
  <2>3. CASE calls[c].era \notin closing
    <3>1. calls' = [calls EXCEPT ![c] = [calls[c] EXCEPT !.at = "running"]]
      BY <1>3, <2>3 DEF BeginOperation
    <3>2. alive /\ calls[c].era = era /\ pc \notin Exclusive
      BY <2>1, <2>3 DEF IInv, Leases, Gate, Closed
    <3>3. Shape'
      BY <2>1, <3>1 DEF IInv, Shape, Proxy
    <3>4. Leases'
      BY <2>1, <3>1, <3>2 DEF IInv, Shape, Leases, Proxy
    <3>5. Exclusion' /\ Owned' /\ Gate'
      BY <2>1, <3>2 DEF IInv, Exclusion, Owned, Gate
    <3>. QED  BY <3>3, <3>4, <3>5 DEF IInv
  <2>. QED  BY <2>2, <2>3
<1>. QED  BY <1>1, <1>2, <1>3

-------------------------------------------------------------------------------
LEMMA StepKeeps == IInv /\ [Next]_vars => IInv'
<1>. SUFFICES ASSUME IInv, [Next]_vars PROVE IInv'
  OBVIOUS
<1>1. CASE Cancel \/ UNCHANGED vars
  <2>1. UNCHANGED <<alive, pc, era, closing, calls>>
    BY <1>1 DEF Cancel, gateVars, vars
  <2>. QED  BY <2>1, UnchangedCalls, Within DEF IInv
<1>2. CASE Operation
  BY <1>2, InitializeKeeps, GateKeeps, EndKeeps, AddKeeps, RemoveKeeps, ResetKeeps, ReconcileKeeps
     DEF Operation
<1>3. CASE \/ StartInitialize \/ StartReset \/ StartClose
           \/ \E n \in Names : StartAdd(n) \/ StartRemove(n) \/ RemoveUnlisted(n)
  BY <1>3, InitializeKeeps, GateKeeps
<1>4. CASE \E c \in Calls : \/ \E n \in Names : CheckConnected(c, n)
                            \/ BeginOperation(c) \/ EndOperation(c)
  BY <1>4, CallsKeep
<1>5. CASE Crash
  BY <1>5, EndKeeps
<1>. QED  BY <1>1, <1>2, <1>3, <1>4, <1>5 DEF Next

LEMMA IInvAlways == Spec => []IInv
BY InitIInv, StepKeeps, PTL DEF Spec

-------------------------------------------------------------------------------
(* Type correctness *)

\* SetupGateway has an era left to go to.
Room == pc \in {"init.open", "init.restore", "init.launch"} => era < MaxEras

\* Remote calls keep the registry of its type.
RegistryOK == /\ mcps \subseteq Names /\ live \subseteq Names
              /\ fileIs \in {"none", "whole", "torn"} /\ file \subseteq Names
CountersOK == faults \in 0..MaxFaults /\ crashes \in 0..MaxCrashes
GateOK     == era \in 0..MaxEras /\ closing \subseteq 0..MaxEras
CallsOK    == calls \in [Calls -> Call \cup {NoCall}]
RestOK     == /\ alive \in BOOLEAN /\ cancelled \in BOOLEAN /\ arg \in Names
              /\ snapshot \subseteq Names /\ pending \subseteq Names
              /\ broken \in BOOLEAN /\ harsh \in BOOLEAN
              /\ kept \subseteq Names /\ gone \subseteq Names

LEMMA FaultKeeps == ASSUME faults \in 0..MaxFaults, NEW d, Fault(d) PROVE faults' \in 0..MaxFaults
<1>1. (faults < MaxFaults /\ faults' = faults + 1) \/ faults' = faults
  BY Zenon DEF Fault
<1>. QED  BY <1>1, BoundsAssumption

LEMMA FaultType == faults \in 0..MaxFaults /\ (Fault(TRUE) \/ Fault(FALSE) \/ Fault(Detached))
                     => faults' \in 0..MaxFaults
BY FaultKeeps

LEMMA DisconnectType ==
  ASSUME CallsOK, NEW names, Disconnect(names)
  PROVE  CallsOK'
<1>1. ASSUME NEW c \in Calls PROVE calls'[c] \in Call \cup {NoCall}
  <2>1. CASE calls[c] = NoCall
    BY <2>1 DEF Disconnect, NoCall
  <2>2. CASE calls[c] \in Call
    BY <2>2 DEF Disconnect, Call
  <2>. QED  BY <2>1, <2>2 DEF CallsOK
<1>2. calls' = [c \in Calls |-> calls'[c]]
  BY DEF Disconnect
<1>. QED  BY <1>1, <1>2 DEF CallsOK

LEMMA RegistryType ==
  ASSUME RegistryOK, RestOK, [Next]_vars
  PROVE  RegistryOK'
<1>. USE DefaultsAssumption DEF RegistryOK, RestOK, Left, Restored, registry, Saved,
     Torn, SaveFailed
<1>1. CASE OpenRuntime
  BY <1>1 DEF OpenRuntime
<1>2. CASE RestoreMCPConfigs
  <2>1. Restored \subseteq Names  BY DEF Restored
  <2>2. \/ fileIs' = "whole" /\ file' = Restored
        \/ fileIs' = "torn" /\ file' = {}
        \/ fileIs' = fileIs /\ file' = file
    BY <1>2 DEF RestoreMCPConfigs
  <2>. QED  BY <1>2, <2>1, <2>2 DEF RestoreMCPConfigs
<1>3. CASE SetupGateway
  BY <1>3 DEF SetupGateway
<1>4. CASE LoadGatewayMCPs
  BY <1>4 DEF LoadGatewayMCPs
<1>5. CASE AddToGateway \/ SaveAdded \/ UndoAdd
  BY <1>5 DEF AddToGateway, SaveAdded, UndoAdd
<1>6. CASE GiveUp \/ WaitToRemove \/ RemoveFromGateway \/ SaveRemoved \/ UndoRemove
  BY <1>6 DEF GiveUp, WaitToRemove, RemoveFromGateway, SaveRemoved, UndoRemove
<1>7. CASE WaitToReset \/ ListBeforeReset \/ RemoveAll \/ ClearFile
  BY <1>7 DEF WaitToReset, ListBeforeReset, RemoveAll, ClearFile
<1>8. CASE ListToRestore \/ AddMissing \/ RemovalRestored \/ RestoreFile \/ DeleteTrees
  BY <1>8 DEF ListToRestore, AddMissing, RemovalRestored, RestoreFile, DeleteTrees
<1>9. CASE Reconcile \/ Resave
  BY <1>9 DEF Reconcile, Resave
<1>10. CASE WaitToClose \/ CloseRuntime \/ Cancel \/ Crash
  BY <1>10 DEF WaitToClose, CloseRuntime, Cancel, Crash
<1>11. CASE StartInitialize \/ StartReset \/ StartClose
  BY <1>11 DEF StartInitialize, StartReset, StartClose
<1>12. CASE \E n \in Names : StartAdd(n) \/ StartRemove(n) \/ RemoveUnlisted(n)
  BY <1>12 DEF StartAdd, StartRemove, RemoveUnlisted
<1>13. CASE \E c \in Calls : \/ \E n \in Names : CheckConnected(c, n)
                             \/ BeginOperation(c) \/ EndOperation(c)
  BY <1>13 DEF CheckConnected, BeginOperation, EndOperation
<1>14. CASE UNCHANGED vars
  BY <1>14 DEF vars
<1>. QED
  BY <1>1, <1>2, <1>3, <1>4, <1>5, <1>6, <1>7, <1>8, <1>9, <1>10, <1>11, <1>12, <1>13,
       <1>14 DEF Next, Operation

LEMMA CountersType ==
  ASSUME CountersOK, [Next]_vars
  PROVE  CountersOK'
<1>. USE BoundsAssumption, FaultType DEF CountersOK, context, mode, Begin, CloseGate
<1>1. CASE OpenRuntime \/ RestoreMCPConfigs \/ SetupGateway \/ LoadGatewayMCPs
  BY <1>1 DEF OpenRuntime, RestoreMCPConfigs, SetupGateway, LoadGatewayMCPs
<1>2. CASE AddToGateway \/ SaveAdded \/ UndoAdd
  BY <1>2 DEF AddToGateway, SaveAdded, UndoAdd
<1>3. CASE GiveUp \/ WaitToRemove \/ RemoveFromGateway \/ SaveRemoved \/ UndoRemove
  BY <1>3 DEF GiveUp, WaitToRemove, RemoveFromGateway, SaveRemoved, UndoRemove
<1>4. CASE WaitToReset \/ ListBeforeReset \/ RemoveAll \/ ClearFile
  BY <1>4 DEF WaitToReset, ListBeforeReset, RemoveAll, ClearFile
<1>5. CASE ListToRestore \/ AddMissing \/ RemovalRestored \/ RestoreFile \/ DeleteTrees
  BY <1>5 DEF ListToRestore, AddMissing, RemovalRestored, RestoreFile, DeleteTrees
<1>6. CASE Reconcile \/ Resave
  BY <1>6 DEF Reconcile, Resave
<1>7. CASE WaitToClose \/ CloseRuntime \/ Cancel \/ Crash
  BY <1>7 DEF WaitToClose, CloseRuntime, Cancel, Crash
<1>8. CASE StartInitialize \/ StartReset \/ StartClose
  BY <1>8 DEF StartInitialize, StartReset, StartClose
<1>9. CASE \E n \in Names : StartAdd(n) \/ StartRemove(n) \/ RemoveUnlisted(n)
  BY <1>9 DEF StartAdd, StartRemove, RemoveUnlisted
<1>10. CASE \E c \in Calls : \/ \E n \in Names : CheckConnected(c, n)
                             \/ BeginOperation(c) \/ EndOperation(c)
  BY <1>10 DEF CheckConnected, BeginOperation, EndOperation
<1>11. CASE UNCHANGED vars
  BY <1>11 DEF vars
<1>. QED
  BY <1>1, <1>2, <1>3, <1>4, <1>5, <1>6, <1>7, <1>8, <1>9, <1>10, <1>11 DEF Next, Operation

LEMMA GateType ==
  ASSUME GateOK, Room, pc \in Steps, [Next]_vars
  PROVE  GateOK' /\ Room'
<1>. USE BoundsAssumption DEF GateOK, Room, gateVars, Begin, CloseGate, Goto, ReopenAndReturn,
     Reconciled, Resaving, Steps
<1>1. CASE OpenRuntime
  BY <1>1 DEF OpenRuntime
<1>2. CASE RestoreMCPConfigs
  BY <1>2 DEF RestoreMCPConfigs
<1>3. CASE SetupGateway
  <2>1. era < MaxEras /\ closing' = closing /\ pc' \in {"init.load", "idle"}
    BY <1>3 DEF SetupGateway
  <2>2. era' \in {era, era + 1}
    BY <1>3 DEF SetupGateway
  <2>. QED  BY <2>1, <2>2
<1>4. CASE LoadGatewayMCPs
  BY <1>4 DEF LoadGatewayMCPs
<1>5. CASE AddToGateway \/ SaveAdded \/ UndoAdd
  BY <1>5 DEF AddToGateway, SaveAdded, UndoAdd
<1>6. CASE GiveUp \/ WaitToRemove \/ RemoveFromGateway \/ SaveRemoved \/ UndoRemove
  BY <1>6 DEF GiveUp, WaitToRemove, RemoveFromGateway, SaveRemoved, UndoRemove
<1>7. CASE WaitToReset \/ ListBeforeReset \/ RemoveAll \/ ClearFile
  BY <1>7 DEF WaitToReset, ListBeforeReset, RemoveAll, ClearFile
<1>8. CASE ListToRestore \/ AddMissing \/ RemovalRestored \/ RestoreFile \/ DeleteTrees
  BY <1>8 DEF ListToRestore, AddMissing, RemovalRestored, RestoreFile, DeleteTrees
<1>9. CASE Reconcile \/ Resave
  BY <1>9 DEF Reconcile, Resave
<1>10. CASE WaitToClose \/ CloseRuntime \/ Cancel \/ Crash
  BY <1>10 DEF WaitToClose, CloseRuntime, Cancel, Crash
<1>11. CASE StartInitialize \/ StartReset \/ StartClose
  BY <1>11 DEF StartInitialize, StartReset, StartClose
<1>12. CASE \E n \in Names : StartAdd(n) \/ StartRemove(n) \/ RemoveUnlisted(n)
  BY <1>12 DEF StartAdd, StartRemove, RemoveUnlisted
<1>13. CASE \E c \in Calls : \/ \E n \in Names : CheckConnected(c, n)
                             \/ BeginOperation(c) \/ EndOperation(c)
  BY <1>13 DEF CheckConnected, BeginOperation, EndOperation
<1>14. CASE UNCHANGED vars
  BY <1>14 DEF vars
<1>. QED
  BY <1>1, <1>2, <1>3, <1>4, <1>5, <1>6, <1>7, <1>8, <1>9, <1>10, <1>11, <1>12, <1>13,
       <1>14 DEF Next, Operation

LEMMA StepsType ==
  ASSUME pc \in Steps, [Next]_vars
  PROVE  pc' \in Steps
<1>. USE DEF Begin, CloseGate, Goto, ReopenAndReturn, Reconciled, Resaving, Steps
<1>1. CASE OpenRuntime \/ RestoreMCPConfigs \/ SetupGateway \/ LoadGatewayMCPs
  BY <1>1 DEF OpenRuntime, RestoreMCPConfigs, SetupGateway, LoadGatewayMCPs
<1>2. CASE AddToGateway \/ SaveAdded \/ UndoAdd
  BY <1>2 DEF AddToGateway, SaveAdded, UndoAdd
<1>3. CASE GiveUp \/ WaitToRemove \/ RemoveFromGateway \/ SaveRemoved \/ UndoRemove
  BY <1>3 DEF GiveUp, WaitToRemove, RemoveFromGateway, SaveRemoved, UndoRemove
<1>4. CASE WaitToReset \/ ListBeforeReset \/ RemoveAll \/ ClearFile
  BY <1>4 DEF WaitToReset, ListBeforeReset, RemoveAll, ClearFile
<1>5. CASE ListToRestore \/ AddMissing \/ RemovalRestored \/ RestoreFile \/ DeleteTrees
  BY <1>5 DEF ListToRestore, AddMissing, RemovalRestored, RestoreFile, DeleteTrees
<1>6. CASE Reconcile \/ Resave
  BY <1>6 DEF Reconcile, Resave
<1>7. CASE WaitToClose \/ CloseRuntime \/ Cancel \/ Crash
  BY <1>7 DEF WaitToClose, CloseRuntime, Cancel, Crash
<1>8. CASE StartInitialize \/ StartReset \/ StartClose
  BY <1>8 DEF StartInitialize, StartReset, StartClose
<1>9. CASE \E n \in Names : StartAdd(n) \/ StartRemove(n) \/ RemoveUnlisted(n)
  BY <1>9 DEF StartAdd, StartRemove, RemoveUnlisted
<1>10. CASE \E c \in Calls : \/ \E n \in Names : CheckConnected(c, n)
                             \/ BeginOperation(c) \/ EndOperation(c)
  BY <1>10 DEF CheckConnected, BeginOperation, EndOperation
<1>11. CASE UNCHANGED vars
  BY <1>11 DEF vars
<1>. QED
  BY <1>1, <1>2, <1>3, <1>4, <1>5, <1>6, <1>7, <1>8, <1>9, <1>10, <1>11 DEF Next, Operation

LEMMA RestType ==
  ASSUME RestOK, RegistryOK, [Next]_vars
  PROVE  RestOK'
<1>. USE DEF RestOK, RegistryOK, ForgetTorn, reset, history, mode, context, Begin, CloseGate
<1>1. CASE OpenRuntime \/ RestoreMCPConfigs \/ SetupGateway \/ LoadGatewayMCPs
  BY <1>1 DEF OpenRuntime, RestoreMCPConfigs, SetupGateway, LoadGatewayMCPs
<1>2. CASE AddToGateway \/ SaveAdded \/ UndoAdd
  BY <1>2 DEF AddToGateway, SaveAdded, UndoAdd
<1>3. CASE GiveUp \/ WaitToRemove \/ RemoveFromGateway \/ SaveRemoved \/ UndoRemove
  BY <1>3 DEF GiveUp, WaitToRemove, RemoveFromGateway, SaveRemoved, UndoRemove
<1>4. CASE WaitToReset \/ ListBeforeReset \/ RemoveAll \/ ClearFile
  BY <1>4 DEF WaitToReset, ListBeforeReset, RemoveAll, ClearFile
<1>5. CASE ListToRestore \/ AddMissing \/ RemovalRestored \/ RestoreFile \/ DeleteTrees
  BY <1>5 DEF ListToRestore, AddMissing, RemovalRestored, RestoreFile, DeleteTrees
<1>6. CASE Reconcile \/ Resave
  BY <1>6 DEF Reconcile, Resave
<1>7. CASE WaitToClose \/ CloseRuntime \/ Cancel \/ Crash
  BY <1>7 DEF WaitToClose, CloseRuntime, Cancel, Crash
<1>8. CASE StartInitialize \/ StartReset \/ StartClose
  BY <1>8 DEF StartInitialize, StartReset, StartClose
<1>9. CASE \E n \in Names : StartAdd(n) \/ StartRemove(n) \/ RemoveUnlisted(n)
  BY <1>9 DEF StartAdd, StartRemove, RemoveUnlisted
<1>10. CASE \E c \in Calls : \/ \E n \in Names : CheckConnected(c, n)
                             \/ BeginOperation(c) \/ EndOperation(c)
  BY <1>10 DEF CheckConnected, BeginOperation, EndOperation
<1>11. CASE UNCHANGED vars
  BY <1>11 DEF vars
<1>. QED
  BY <1>1, <1>2, <1>3, <1>4, <1>5, <1>6, <1>7, <1>8, <1>9, <1>10, <1>11 DEF Next, Operation

LEMMA CallsType ==
  ASSUME CallsOK, GateOK, RegistryOK, [Next]_vars
  PROVE  CallsOK'
<1>1. CASE \E c \in Calls, n \in Names : CheckConnected(c, n)
  BY <1>1 DEF CheckConnected, CallsOK, GateOK, Call
<1>2. CASE \E c \in Calls : EndOperation(c)
  BY <1>2 DEF EndOperation, CallsOK
<1>3. ASSUME NEW c \in Calls, BeginOperation(c) PROVE CallsOK'
  <2>1. calls[c] \in Call
    BY <1>3 DEF BeginOperation, CallsOK, NoCall
  <2>2. [calls[c] EXCEPT !.at = "running"] \in Call
    BY <2>1 DEF Call
  <2>. QED  BY <1>3, <2>2 DEF BeginOperation, CallsOK
<1>4. CASE Crash
  BY <1>4 DEF Crash, CallsOK
<1>5. CASE calls' = calls \/ Disconnect({arg}) \/ Disconnect(mcps)
  BY <1>5, DisconnectType DEF CallsOK
<1>6. CASE Operation
  BY <1>5, <1>6 DEF Operation, gateVars, OpenRuntime, RestoreMCPConfigs, SetupGateway,
       LoadGatewayMCPs, AddToGateway, SaveAdded, UndoAdd, GiveUp, WaitToRemove, RemoveFromGateway,
            SaveRemoved, UndoRemove, WaitToReset, ListBeforeReset, RemoveAll, ClearFile,
                 ListToRestore, AddMissing, RemovalRestored, RestoreFile, DeleteTrees, Reconcile,
                      Resave, WaitToClose, CloseRuntime
<1>7. CASE \/ StartInitialize \/ StartReset \/ StartClose \/ Cancel \/ UNCHANGED vars
           \/ \E n \in Names : StartAdd(n) \/ StartRemove(n) \/ RemoveUnlisted(n)
  BY <1>5, <1>7 DEF StartInitialize, StartReset, StartClose, Cancel, StartAdd, StartRemove,
       RemoveUnlisted, gateVars, vars
<1>. QED  BY <1>1, <1>2, <1>3, <1>4, <1>6, <1>7 DEF Next

\* Every variable keeps its type, the counters within their bounds, whichever
\* operation fails at whichever step (Initialize, AddMCP, RemoveMCP, Reset, Close).
THEOREM TypeCorrect == Spec => []TypeOK
<1>. DEFINE Typed == RegistryOK /\ RestOK /\ CountersOK /\ GateOK /\ Room /\ CallsOK /\ pc \in Steps
<1>1. Init => Typed
  <2>. SUFFICES ASSUME Init PROVE Typed
    OBVIOUS
  <2>1. RegistryOK /\ RestOK  BY DEF Init, RegistryOK, RestOK
  <2>2. CountersOK /\ GateOK /\ Room  BY BoundsAssumption DEF Init, CountersOK, GateOK, Room
  <2>3. CallsOK /\ pc \in Steps  BY DEF Init, CallsOK, Steps
  <2>. QED  BY <2>1, <2>2, <2>3
<1>2. Typed /\ [Next]_vars => Typed'
  BY RegistryType, RestType, CountersType, GateType, CallsType, StepsType
<1>3. Typed => TypeOK
  BY DEF TypeOK, RegistryOK, RestOK, CountersOK, GateOK, CallsOK
<1>. QED  BY <1>1, <1>2, <1>3, PTL DEF Spec

\* No MCP call is under way while RemoveMCP, Reset or Close work on the
\* gateway: closeAndWait waits for those begin has let through.
THEOREM OperationsExclude == Spec => []Quiesced
<1>1. IInv => Quiesced
  BY DEF IInv, Exclusion, Quiesced, Drained, Running
<1>. QED  BY <1>1, IInvAlways, PTL

\* No call runs through a connection that was closed or lost: neither Close
\* nor a failed Initialize reopens the gate it closed.
THEOREM ConnectionsEnd == Spec => []OldErasAreOver
<1>1. IInv => OldErasAreOver
  BY DEF IInv, Leases, OldErasAreOver
<1>. QED  BY <1>1, IInvAlways, PTL

\* Every way out of an operation leaves the gate of a live workspace open.
THEOREM GateIsReopened == Spec => []GateReopened
<1>1. IInv => GateReopened
  BY DEF IInv, Gate, GateReopened, Closed, Waiting, Exclusive
<1>. QED  BY <1>1, IInvAlways, PTL

-------------------------------------------------------------------------------
(* What was done without an error *)

Resetting == {"reset.wait", "reset.list", "reset.remove", "reset.clear", "restore.list",
              "restore.add", "restore.file"}
Restoring == {"reset.remove", "reset.clear", "restore.list", "restore.add", "restore.file"}

\* The servers kept are in the file, if it decodes, and in a workspace that is alive
\* on the host and in the gateway; the one an operation may take away is not among them.
KeptOK ==
  /\ alive \/ kept \cup gone # {} => fileIs \in {"whole", "torn"}
  /\ pc \in {"init.launch", "init.load"} => fileIs = "whole"
  /\ fileIs = "whole" => kept \subseteq file
  /\ alive => kept \subseteq mcps \cap live
  /\ pc = "add.save" => arg \in mcps \cap live
  /\ pc \in Adding \cup RemoveSteps \cup {"remove.reconcile", "remove.resave"} => arg \notin kept
  /\ pc \in ResetSteps \cup {"reset.reconcile", "reset.resave", "reset.reconcileCtx",
                            "reset.resaveCtx"} => kept = {}

\* The servers gone are in none of the three; what an operation may add, or
\* add again, is not among them.
GoneOK ==
  /\ gone \cap file = {}
  /\ alive => gone \cap (mcps \cup live) = {}
  /\ pc = "init.load" => live = file
  /\ pc \in Adding \cup RemoveSteps \cup {"remove.reconcile", "remove.resave"} => arg \notin gone
  /\ pc \in {"remove.save", "remove.undo"} => arg \notin mcps
  /\ pc = "remove.save" => arg \notin live
  /\ pc = "reset.remove" => live = pending
  /\ pc \in Restoring => pending \subseteq snapshot /\ gone \cap snapshot = {}

\* A proxy that passes for connected is of the connection in use and of a
\* listed server, or of the one RemoveMCP is about to take from its calls.
ProxiesOK ==
  \A c \in Calls : calls[c].at # "none" /\ ~calls[c].stale =>
    /\ alive /\ calls[c].era = era
    /\ \/ calls[c].name \in mcps
       \/ pc \in {"remove.save", "remove.undo"} /\ calls[c].name = arg

Mild == ~harsh /\ MaxFaults <= 2

\* The steps before which the three places agree ...
Settled == {"idle", "add", "remove.wait", "remove", "reset.wait", "reset.list", "reset.trees",
            "close.wait"}
\* ... and those that follow on a first failed call.
FailedOnce == {"add.undo", "remove.undo", "reset.clear", "restore.list", "restore.add",
               "restore.file"}
Resaves == {"add.resave", "remove.resave", "reset.resave", "reset.resaveCtx"}

AgreeOK ==
  /\ ~cancelled
  /\ alive => fileIs = "whole"
  /\ alive /\ pc \in Settled => mcps = live /\ file = live
  /\ pc = "add" => arg \notin live
  /\ pc \in {"remove.wait", "remove"} => arg \in live
  /\ pc \in {"add.save", "add.undo"} => mcps = live /\ live = file \cup {arg} /\ arg \notin file
  /\ pc \in {"remove.save", "remove.undo"} => mcps = live /\ live = file \ {arg} /\ arg \in file
  /\ pc \in Restoring => mcps = file /\ snapshot = file /\ live \cup pending \subseteq file
  /\ pc \in {"restore.add", "restore.file"} /\ ~broken => live \cup pending = file
  /\ pc \in Resetting /\ broken => faults >= 2
  /\ pc \in FailedOnce => faults >= 1
  /\ pc \in Reconciling => faults >= 2
  /\ pc \in Resaves => mcps = live

MildOK == Mild => AgreeOK

\* Initialize writes the servers it read, or nothing is promised of what it writes.
LEMMA RestoreEffect ==
  ASSUME IInv, KeptOK, RestoreMCPConfigs
  PROVE  /\ pc = "init.restore" /\ ~alive /\ UNCHANGED <<alive, live, mcps, arg>>
         /\ pc' \in {"init.launch", "idle"} /\ (pc' = "init.launch" => fileIs' = "whole")
         /\ \/ UNCHANGED <<file, kept, gone>> /\ fileIs' = fileIs
            \/ UNCHANGED <<kept, gone>> /\ fileIs' = "torn" /\ file' = {}
            \/ kept' = {} /\ gone' = {} /\ fileIs' = "whole"
<1>. USE DEF Goto, Saved, Torn, SaveFailed, ForgetTorn, Restored, history
<1>1. pc = "init.restore" /\ ~alive /\ UNCHANGED <<alive, live, mcps, arg>>
  BY DEF RestoreMCPConfigs, IInv, Owned
<1>2. \/ pc' = "init.launch" /\ fileIs' = "whole" /\ file' = Restored /\ ForgetTorn
      \/ pc' = "idle" /\ UNCHANGED <<fileIs, file, kept, gone>>
      \/ pc' = "idle" /\ fileIs' = "whole" /\ file' = Restored /\ ForgetTorn
      \/ pc' = "idle" /\ fileIs' = "torn" /\ file' = {} /\ UNCHANGED <<kept, gone>>
  BY DEF RestoreMCPConfigs
<1>3. CASE fileIs' = "whole" /\ file' = Restored /\ ForgetTorn
  <2>1. CASE fileIs = "whole"
    BY <1>1, <1>2, <1>3, <2>1
  <2>2. CASE fileIs # "whole"
    <3>1. kept' = {} /\ gone' = {}
      BY <1>3, <2>2 DEF KeptOK
    <3>. QED  BY <1>1, <1>2, <1>3, <3>1
  <2>. QED  BY <2>1, <2>2
<1>. QED  BY <1>1, <1>2, <1>3 DEF KeptOK

\* Nothing that fails takes a server that was kept from the file, or from a
\* workspace that is alive.
LEMMA KeptKeeps ==
  ASSUME IInv, KeptOK, GoneOK, [Next]_vars
  PROVE  KeptOK'
<1>. USE DEF Begin, CloseGate, Goto, ReopenAndReturn, Reconciled, Resaving, Left,
           Saved, Torn, SaveFailed, Writing, ForgetTorn, Restored, registry, reset, history, mode,
           Adding, Restoring, Closed, Waiting, Exclusive,
           IInv, Owned, KeptOK, GoneOK
<1>1. CASE StartInitialize
  BY <1>1 DEF StartInitialize
<1>2. CASE OpenRuntime
  BY <1>2 DEF OpenRuntime
<1>3. CASE RestoreMCPConfigs
  BY <1>3, RestoreEffect
<1>4. CASE SetupGateway
  BY <1>4 DEF SetupGateway
<1>5. CASE LoadGatewayMCPs
  BY <1>5 DEF LoadGatewayMCPs
<1>6. CASE AddToGateway
  BY <1>6 DEF AddToGateway
<1>7. CASE SaveAdded
  BY <1>7 DEF SaveAdded
<1>8. CASE UndoAdd
  BY <1>8 DEF UndoAdd
<1>9. CASE GiveUp \/ WaitToRemove \/ WaitToReset \/ WaitToClose
  BY <1>9 DEF GiveUp, WaitToRemove, WaitToReset, WaitToClose
<1>10. CASE RemoveFromGateway
  BY <1>10 DEF RemoveFromGateway
<1>11. CASE SaveRemoved
  <2>1. pc = "remove.save" /\ alive /\ UNCHANGED <<alive, live, mcps, arg, kept>>
    BY <1>11 DEF SaveRemoved
  <2>2. /\ pc' \in {"idle", "remove.undo"}
        /\ \/ UNCHANGED <<fileIs, file>>
           \/ fileIs' = "whole" /\ file' = mcps
           \/ fileIs' = "torn"
    BY <1>11 DEF SaveRemoved
  <2>. QED  BY <2>1, <2>2
<1>12. CASE UndoRemove
  BY <1>12 DEF UndoRemove
<1>13. CASE ListBeforeReset \/ RemoveAll
  BY <1>13 DEF ListBeforeReset, RemoveAll
<1>14. CASE ClearFile
  BY <1>14 DEF ClearFile
<1>15. CASE ListToRestore \/ RemovalRestored
  BY <1>15 DEF ListToRestore, RemovalRestored
<1>16. CASE AddMissing
  BY <1>16 DEF AddMissing
<1>17. CASE RestoreFile \/ DeleteTrees
  BY <1>17 DEF RestoreFile, DeleteTrees
<1>18. CASE Reconcile
  BY <1>18 DEF Reconcile
<1>19. CASE Resave
  BY <1>19 DEF Resave
<1>20. CASE StartReset \/ StartClose \/ CloseRuntime
  BY <1>20 DEF StartReset, StartClose, CloseRuntime
<1>21. CASE Cancel \/ Crash
  BY <1>21 DEF Cancel, Crash
<1>22. CASE \E n \in Names : StartAdd(n) \/ StartRemove(n) \/ RemoveUnlisted(n)
  BY <1>22 DEF StartAdd, StartRemove, RemoveUnlisted
<1>23. CASE \/ \E c \in Calls : \/ \E n \in Names : CheckConnected(c, n)
                             \/ BeginOperation(c) \/ EndOperation(c)
          \/ UNCHANGED vars
  BY <1>23 DEF CheckConnected, BeginOperation, EndOperation, vars
<1>. QED
  BY <1>1, <1>2, <1>3, <1>4, <1>5, <1>6, <1>7, <1>8, <1>9, <1>10, <1>11, <1>12, <1>13, <1>14,
       <1>15, <1>16,
     <1>17, <1>18, <1>19, <1>20, <1>21, <1>22, <1>23 DEF Next, Operation

\* Nothing that fails brings a server back that is gone: what is added again was
\* there when the operation began.
LEMMA GoneKeeps ==
  ASSUME IInv, KeptOK, GoneOK, [Next]_vars
  PROVE  GoneOK'
<1>. USE DEF Begin, CloseGate, Goto, ReopenAndReturn, Reconciled, Resaving, Left,
           Saved, Torn, SaveFailed, Writing, ForgetTorn, Restored, registry, reset, history, mode,
           Adding, Restoring, Closed, Waiting, Exclusive,
           IInv, Owned, KeptOK, GoneOK
<1>1. CASE StartInitialize
  BY <1>1 DEF StartInitialize
<1>2. CASE OpenRuntime
  BY <1>2 DEF OpenRuntime
<1>3. CASE RestoreMCPConfigs
  BY <1>3, RestoreEffect
<1>4. CASE SetupGateway
  BY <1>4 DEF SetupGateway
<1>5. CASE LoadGatewayMCPs
  <2>1. /\ pc = "init.load" /\ pc' = "idle" /\ UNCHANGED <<live, fileIs, file, arg, kept, gone>>
        /\ \/ alive' = TRUE /\ mcps' = live
           \/ UNCHANGED <<alive, mcps>>
    BY <1>5 DEF LoadGatewayMCPs
  <2>2. ~alive /\ live = file
    BY <2>1 DEF GoneOK
  <2>3. gone' \cap file' = {} /\ (alive' => gone' \cap (mcps' \cup live') = {})
    BY <2>1, <2>2 DEF GoneOK
  <2>. QED  BY <2>1, <2>3
<1>6. CASE AddToGateway
  BY <1>6 DEF AddToGateway
<1>7. CASE SaveAdded
  BY <1>7 DEF SaveAdded
<1>8. CASE UndoAdd
  BY <1>8 DEF UndoAdd
<1>9. CASE GiveUp \/ WaitToRemove \/ WaitToReset \/ WaitToClose
  BY <1>9 DEF GiveUp, WaitToRemove, WaitToReset, WaitToClose
<1>10. CASE RemoveFromGateway
  BY <1>10 DEF RemoveFromGateway
<1>11. CASE SaveRemoved
  BY <1>11, ZenonT(60) DEF SaveRemoved
<1>12. CASE UndoRemove
  BY <1>12, ZenonT(60) DEF UndoRemove
<1>13. CASE ListBeforeReset \/ RemoveAll
  BY <1>13 DEF ListBeforeReset, RemoveAll
<1>14. CASE ClearFile
  BY <1>14 DEF ClearFile
<1>15. CASE ListToRestore \/ RemovalRestored
  BY <1>15 DEF ListToRestore, RemovalRestored
<1>16. CASE AddMissing
  <2>1. /\ pc \in {"restore.add", "restore.file"}
        /\ UNCHANGED <<alive, mcps, fileIs, file, pc, arg, snapshot, kept, gone>>
    BY <1>16 DEF AddMissing
  <2>2. PICK n \in pending : pending' = pending \ {n} /\ live' \in {live, live \cup {n}}
    BY <1>16 DEF AddMissing
  <2>3. n \in snapshot /\ n \notin gone
    BY <2>1, <2>2
  <2>. QED  BY <2>1, <2>2, <2>3
<1>17. CASE RestoreFile \/ DeleteTrees
  BY <1>17 DEF RestoreFile, DeleteTrees
<1>18. CASE Reconcile
  BY <1>18 DEF Reconcile
<1>19. CASE Resave
  BY <1>19 DEF Resave
<1>20. CASE StartReset \/ StartClose \/ CloseRuntime
  BY <1>20 DEF StartReset, StartClose, CloseRuntime
<1>21. CASE Cancel \/ Crash
  BY <1>21 DEF Cancel, Crash
<1>22. CASE \E n \in Names : StartAdd(n) \/ StartRemove(n) \/ RemoveUnlisted(n)
  BY <1>22 DEF StartAdd, StartRemove, RemoveUnlisted
<1>23. CASE \/ \E c \in Calls : \/ \E n \in Names : CheckConnected(c, n)
                             \/ BeginOperation(c) \/ EndOperation(c)
          \/ UNCHANGED vars
  BY <1>23 DEF CheckConnected, BeginOperation, EndOperation, vars
<1>. QED
  BY <1>1, <1>2, <1>3, <1>4, <1>5, <1>6, <1>7, <1>8, <1>9, <1>10, <1>11, <1>12, <1>13, <1>14,
       <1>15, <1>16,
     <1>17, <1>18, <1>19, <1>20, <1>21, <1>22, <1>23 DEF Next, Operation

\* One failure leads to a rollback, a second one to a reconciliation, which has
\* none.
LEMMA AgreeKeeps ==
  ASSUME IInv, CountersOK, Mild, AgreeOK, KeptOK, GoneOK, [Next]_vars
  PROVE  AgreeOK'
<1>. USE DEF Begin, CloseGate, Goto, ReopenAndReturn, Reconciled, Resaving, Left,
           Saved, Torn, SaveFailed, Writing, ForgetTorn, Restored, registry, reset, history, mode,
           Adding, Restoring, Closed, Waiting, Exclusive,
           IInv, Owned,
           AgreeOK, GoneOK, Mild, Settled, Resetting, FailedOnce, Resaves, Fault, CanSend, Detached,
           context, CountersOK
<1>1. CASE StartInitialize
  BY <1>1 DEF StartInitialize
<1>2. CASE OpenRuntime
  BY <1>2 DEF OpenRuntime
<1>3. CASE RestoreMCPConfigs
  BY <1>3 DEF RestoreMCPConfigs
<1>4. CASE SetupGateway
  BY <1>4 DEF SetupGateway
<1>5. CASE LoadGatewayMCPs
  <2>1. fileIs = "whole"
    BY <1>5 DEF LoadGatewayMCPs, KeptOK
  <2>. QED  BY <1>5, <2>1 DEF LoadGatewayMCPs
<1>6. CASE AddToGateway
  BY <1>6 DEF AddToGateway
<1>7. CASE SaveAdded
  BY <1>7 DEF SaveAdded
<1>8. CASE UndoAdd
  BY <1>8 DEF UndoAdd
<1>9. CASE GiveUp \/ WaitToRemove \/ WaitToReset \/ WaitToClose
  BY <1>9 DEF GiveUp, WaitToRemove, WaitToReset, WaitToClose
<1>10. CASE RemoveFromGateway
  BY <1>10 DEF RemoveFromGateway
<1>11. CASE SaveRemoved
  BY <1>11 DEF SaveRemoved
<1>12. CASE UndoRemove
  BY <1>12 DEF UndoRemove
<1>13. CASE ListBeforeReset \/ RemoveAll
  BY <1>13 DEF ListBeforeReset, RemoveAll
<1>14. CASE ClearFile
  BY <1>14 DEF ClearFile
<1>15. CASE ListToRestore \/ RemovalRestored
  BY <1>15 DEF ListToRestore, RemovalRestored
<1>16. CASE AddMissing
  BY <1>16 DEF AddMissing
<1>17. CASE RestoreFile \/ DeleteTrees
  BY <1>17 DEF RestoreFile, DeleteTrees
<1>18. CASE Reconcile
  <2>1. pc \in DOMAIN Resaving /\ faults >= 2 /\ ~cancelled
    BY <1>18 DEF Reconcile
  <2>2. ~Fault(Detached)
    BY <2>1, BoundsAssumption
  <2>3. /\ mcps' = live /\ pc' = Resaving[pc]
        /\ UNCHANGED <<alive, live, fileIs, file, arg, snapshot, pending, broken, faults,
                       cancelled>>
    BY <1>18, <2>2 DEF Reconcile
  <2>4. pc' \in Resaves
    BY <2>1, <2>3
  <2>. QED  BY <2>1, <2>3, <2>4
<1>19. CASE Resave
  <2>1. pc \in Resaves /\ faults >= 2 /\ ~cancelled /\ mcps = live
    BY <1>19 DEF Resave
  <2>2. ~Fault(Detached)
    BY <2>1, BoundsAssumption
  <2>3. /\ fileIs' = "whole" /\ file' = mcps /\ pc' \in {"idle", "reset.trees"}
        /\ UNCHANGED <<alive, mcps, live, arg, snapshot, pending, broken, faults, cancelled>>
    BY <1>19, <2>2 DEF Resave
  <2>. QED  BY <2>1, <2>3
<1>20. CASE StartReset \/ StartClose \/ CloseRuntime
  BY <1>20 DEF StartReset, StartClose, CloseRuntime
<1>21. CASE Cancel \/ Crash
  BY <1>21 DEF Cancel, Crash
<1>22. CASE \E n \in Names : StartAdd(n) \/ StartRemove(n) \/ RemoveUnlisted(n)
  BY <1>22 DEF StartAdd, StartRemove, RemoveUnlisted
<1>23. CASE \/ \E c \in Calls : \/ \E n \in Names : CheckConnected(c, n)
                             \/ BeginOperation(c) \/ EndOperation(c)
          \/ UNCHANGED vars
  BY <1>23 DEF CheckConnected, BeginOperation, EndOperation, vars
<1>. QED
  BY <1>1, <1>2, <1>3, <1>4, <1>5, <1>6, <1>7, <1>8, <1>9, <1>10, <1>11, <1>12, <1>13, <1>14,
       <1>15, <1>16,
     <1>17, <1>18, <1>19, <1>20, <1>21, <1>22, <1>23 DEF Next, Operation

\* A proxy that still passes for connected has not been marked.
LEMMA DisconnectMarks ==
  ASSUME Shape, NEW names, Disconnect(names), NEW c \in Calls,
         calls'[c].at # "none", ~calls'[c].stale
  PROVE  calls'[c] = calls[c] /\ ~(calls[c].name \in names /\ calls[c].era = era)
<1>1. CASE calls[c] = NoCall
  BY <1>1 DEF Disconnect, NoCall
<1>2. CASE calls[c] \in Proxy /\ calls[c].name \in names /\ calls[c].era = era
  BY <1>2 DEF Disconnect, Proxy
<1>3. CASE calls[c] \in Proxy /\ ~(calls[c].name \in names /\ calls[c].era = era)
  BY <1>3 DEF Disconnect, Proxy
<1>. QED  BY <1>1, <1>2, <1>3 DEF Shape

\* A step that marks the proxies of the servers it takes from the list.
LEMMA MarkingKeeps ==
  ASSUME Shape, ProxiesOK, NEW names, calls' = calls \/ Disconnect(names),
         \A c \in Calls : calls'[c] = calls[c] /\ calls'[c].at # "none" /\ ~calls'[c].stale =>
            \/ Disconnect(names) /\ calls[c].name \in names /\ calls[c].era = era
            \/ /\ alive' = alive /\ era' = era
               /\ \/ calls[c].name \in mcps'
                  \/ pc' \in {"remove.save", "remove.undo"} /\ calls[c].name = arg'
  PROVE  ProxiesOK'
<1>. SUFFICES ASSUME NEW c \in Calls, calls'[c].at # "none", ~calls'[c].stale
              PROVE  /\ alive' /\ calls'[c].era = era'
                     /\ \/ calls'[c].name \in mcps'
                        \/ pc' \in {"remove.save", "remove.undo"} /\ calls'[c].name = arg'
  BY DEF ProxiesOK
<1>1. /\ calls'[c] = calls[c]
      /\ Disconnect(names) => ~(calls[c].name \in names /\ calls[c].era = era)
  BY DisconnectMarks
<1>. QED  BY <1>1 DEF ProxiesOK

LEMMA ProxiesKeep ==
  ASSUME IInv, ProxiesOK, [Next]_vars
  PROVE  ProxiesOK'
<1>. USE DEF Goto, Begin, CloseGate, ReopenAndReturn, registry, gateVars, Reconciled, Resaving
<1>0. Shape
  BY DEF IInv
<1>1. CASE StartInitialize \/ OpenRuntime \/ RestoreMCPConfigs \/ SetupGateway \/ LoadGatewayMCPs
  <2>1. calls' = calls /\ ~alive
    BY <1>1 DEF StartInitialize, OpenRuntime, RestoreMCPConfigs, SetupGateway, LoadGatewayMCPs,
                IInv, Owned
  <2>. QED  BY <2>1 DEF ProxiesOK
<1>2. CASE AddToGateway \/ SaveAdded
  <2>1. UNCHANGED <<alive, era, arg, calls>> /\ pc \in AddSteps
    BY <1>2 DEF AddToGateway, SaveAdded
  <2>2. mcps \subseteq mcps'
    BY <1>2 DEF AddToGateway, SaveAdded
  <2>. QED  BY <2>1, <2>2 DEF ProxiesOK
<1>3. CASE UndoAdd
  <2>1. UNCHANGED <<alive, era, arg>> /\ pc = "add.undo"
    BY <1>3 DEF UndoAdd
  <2>2. \/ UNCHANGED <<calls, mcps>>
        \/ Disconnect({arg}) /\ mcps' = mcps \ {arg}
    BY <1>3 DEF UndoAdd
  <2>. QED  BY <1>0, <2>1, <2>2, MarkingKeeps DEF ProxiesOK
<1>4. CASE RemoveFromGateway
  <2>1. UNCHANGED <<alive, era, arg, calls>> /\ pc = "remove"
    BY <1>4 DEF RemoveFromGateway
  <2>2. \/ mcps' = mcps
        \/ pc' = "remove.save" /\ mcps' = mcps \ {arg}
    BY <1>4 DEF RemoveFromGateway
  <2>. QED  BY <2>1, <2>2 DEF ProxiesOK
<1>5. CASE SaveRemoved
  <2>1. /\ UNCHANGED <<alive, era, arg, mcps>> /\ pc = "remove.save"
        /\ \/ pc' = "remove.undo" /\ calls' = calls
           \/ Disconnect({arg})
    BY <1>5 DEF SaveRemoved
  <2>. QED  BY <1>0, <2>1, MarkingKeeps DEF ProxiesOK
<1>6. CASE UndoRemove
  <2>1. UNCHANGED <<alive, era, arg>> /\ pc = "remove.undo"
    BY <1>6 DEF UndoRemove
  <2>2. \/ calls' = calls /\ mcps' = mcps \cup {arg}
        \/ mcps' = mcps /\ Disconnect({arg})
    BY <1>6 DEF UndoRemove
  <2>. QED  BY <1>0, <2>1, <2>2, MarkingKeeps DEF ProxiesOK
<1>7. CASE ClearFile
  <2>1. /\ UNCHANGED <<alive, era>> /\ pc = "reset.remove"
        /\ UNCHANGED <<calls, mcps>> \/ Disconnect(mcps)
    BY <1>7 DEF ClearFile
  <2>. QED  BY <1>0, <2>1, MarkingKeeps DEF ProxiesOK
<1>8. CASE Reconcile
  <2>1. /\ UNCHANGED <<alive, era>> /\ pc \in Reconciling
        /\ UNCHANGED <<calls, mcps>> \/ Disconnect(mcps)
    BY <1>8 DEF Reconcile
  <2>. QED  BY <1>0, <2>1, MarkingKeeps DEF ProxiesOK
<1>9. CASE CloseRuntime
  <2>1. UNCHANGED <<era>> /\ pc = "close" /\ Disconnect(mcps)
    BY <1>9 DEF CloseRuntime
  <2>. QED  BY <1>0, <2>1, MarkingKeeps DEF ProxiesOK
<1>10. CASE Crash
  BY <1>10 DEF Crash, ProxiesOK, NoCall
<1>11. CASE /\ UNCHANGED <<alive, era, calls, mcps>>
            /\ pc \notin {"remove.save", "remove.undo"} \/ UNCHANGED <<pc, arg>>
  BY <1>11 DEF ProxiesOK
<1>12. CASE GiveUp \/ WaitToRemove \/ WaitToReset \/ ListBeforeReset \/ RemoveAll
           \/ ListToRestore
  BY <1>11, <1>12 DEF GiveUp, WaitToRemove, WaitToReset, ListBeforeReset, RemoveAll,
                       ListToRestore
<1>13. CASE AddMissing \/ RemovalRestored \/ RestoreFile \/ DeleteTrees \/ Resave \/ WaitToClose
  BY <1>11, <1>13 DEF AddMissing, RemovalRestored, RestoreFile, DeleteTrees, Resave, WaitToClose
<1>14. CASE Cancel \/ StartReset \/ StartClose \/ UNCHANGED vars
  BY <1>11, <1>14 DEF Cancel, StartReset, StartClose, vars
<1>15. CASE \E n \in Names : StartAdd(n) \/ StartRemove(n) \/ RemoveUnlisted(n)
  BY <1>11, <1>15 DEF StartAdd, StartRemove, RemoveUnlisted
<1>16. ASSUME NEW c \in Calls, NEW n \in Names, CheckConnected(c, n) PROVE ProxiesOK'
  BY <1>0, <1>16 DEF CheckConnected, ProxiesOK, Shape
<1>17. ASSUME NEW c \in Calls, BeginOperation(c) \/ EndOperation(c) PROVE ProxiesOK'
  <2>1. UNCHANGED <<alive, mcps, pc, arg, era>>
    BY <1>17 DEF BeginOperation, EndOperation
  <2>2. calls[c] \in Proxy
    BY <1>0, <1>17 DEF BeginOperation, EndOperation, Shape, NoCall
  <2>3. PICK r \in {NoCall, [calls[c] EXCEPT !.at = "running"]} : calls' = [calls EXCEPT ![c] = r]
    BY <1>17 DEF BeginOperation, EndOperation
  <2>4. /\ calls[c].at # "none"
        /\ \/ r = NoCall
           \/ r.era = calls[c].era /\ r.name = calls[c].name /\ r.stale = calls[c].stale
    BY <2>2, <2>3 DEF Proxy
  <2>5. \A d \in Calls : calls'[d] = IF d = c THEN r ELSE calls[d]
    BY <1>0, <2>3 DEF Shape
  <2>. QED  BY <2>1, <2>4, <2>5 DEF ProxiesOK, NoCall
<1>. QED
  BY <1>1, <1>2, <1>3, <1>4, <1>5, <1>6, <1>7, <1>8, <1>9, <1>10, <1>12, <1>13, <1>14, <1>15,
     <1>16, <1>17 DEF Next, Operation

-------------------------------------------------------------------------------
LastsInv == IInv /\ CountersOK /\ KeptOK /\ GoneOK /\ ProxiesOK /\ (Mild => AgreeOK)

LEMMA LastsAlways == Spec => []LastsInv
<1>1. Init => LastsInv
  <2>. SUFFICES ASSUME Init PROVE LastsInv
    OBVIOUS
  <2>1. CountersOK
    BY BoundsAssumption DEF Init, CountersOK
  <2>2. KeptOK /\ GoneOK /\ ProxiesOK
    BY DEF Init, KeptOK, GoneOK, ProxiesOK, NoCall, Adding, Restoring
  <2>3. AgreeOK
    BY DEF Init, AgreeOK, Restoring, Resetting, FailedOnce, Resaves
  <2>. QED  BY <2>1, <2>2, <2>3, InitIInv DEF LastsInv
<1>2. LastsInv /\ [Next]_vars => LastsInv'
  <2>. SUFFICES ASSUME LastsInv, [Next]_vars PROVE LastsInv'
    OBVIOUS
  <2>1. harsh' = harsh
    BY DEF Next, Operation, mode, vars, StartInitialize, OpenRuntime, RestoreMCPConfigs,
           SetupGateway, LoadGatewayMCPs, StartAdd, AddToGateway, SaveAdded, UndoAdd, GiveUp,
           StartRemove, RemoveUnlisted, WaitToRemove, RemoveFromGateway, SaveRemoved, UndoRemove,
           StartReset, WaitToReset, ListBeforeReset, RemoveAll, ClearFile, ListToRestore,
           AddMissing, RemovalRestored, RestoreFile, DeleteTrees, Reconcile, Resave, StartClose,
           WaitToClose, CloseRuntime, Cancel, Crash, CheckConnected, BeginOperation, EndOperation
  <2>2. (Mild => AgreeOK)'
    BY <2>1, AgreeKeeps DEF LastsInv, Mild
  <2>. QED  BY <2>2, StepKeeps, CountersType, KeptKeeps, GoneKeeps, ProxiesKeep DEF LastsInv
<1>. QED  BY <1>1, <1>2, PTL DEF Spec

\* A server whose AddMCP returned without an error is in the file until it is
\* taken away, if the file decodes, and after every operation on the host and in the
\* gateway; one whose RemoveMCP or Reset did does not come back, nor one RemoveMCP
\* found nowhere: whichever call failed since, carried out or not, whether the
\* rollback failed too, and wherever the process died.  It says nothing more of
\* them after an Initialize that met a file that does not decode
\* (restoreMCPConfigs then takes the defaults).
THEOREM SuccessIsLasting == Spec => []SuccessLasts
<1>1. LastsInv => SuccessLasts
  BY DEF LastsInv, KeptOK, GoneOK, SuccessLasts
<1>. QED  BY <1>1, LastsAlways, PTL

\* A proxy that passes for connected is of a listed server of this connection:
\* markMCPsDisconnected is called on every way a server leaves the list.
THEOREM ProxiesAreListed == Spec => []ConnectedIsListed
<1>1. LastsInv => ConnectedIsListed
  BY DEF LastsInv, ProxiesOK, ConnectedIsListed
<1>. QED  BY <1>1, LastsAlways, PTL

\* After every operation, the list, the gateway and the file have the same
\* servers: a failed call is rolled back, and a failed rollback reconciled.
THEOREM PlacesAgree == Spec => []Agreement
<1>1. LastsInv => Agreement
  BY DEF LastsInv, Mild, AgreeOK, Settled, Agreement
<1>. QED  BY <1>1, LastsAlways, PTL

==============================================================================
