--------------------------- MODULE DeferredToolsProofs ---------------------------
(***************************************************************************)
(* A cache of old tools is about to be cleared, for any number of          *)
(* goroutines and of changes: the notification is behind every old answer  *)
(* on its way, and meets the mutex under which the answer is cached.       *)
(***************************************************************************)
EXTENDS DeferredTools, SequenceTheorems, TLAPS

USE NoneAssumption

Wired == {Changed} \cup {Tools(t, v) : t \in Threads, v \in Nat}

\* Types as far as the argument needs them.
TypesOK ==
  /\ version \in Nat /\ request \in Threads \cup {None} /\ wire \in Seq(Wired)
  /\ clearing \in Nat /\ invalidating \in Nat
  /\ cMu \in Threads \cup {None} /\ tMu \in Threads \cup {None}
  /\ pc \in [Threads -> {"idle", "ensure", "list", "listing", "build", "get", "calling"}]
  /\ answer \in [Threads -> Nat \cup {None}]

\* The holder of c.mu is the one that asks, and the holder of t.mu the one that
\* lists and wraps; an answer is in the hands of one of them.
LocksOK ==
  /\ \A t \in Threads : pc[t] \in {"listing", "calling"} <=> cMu = t
  /\ \A t \in Threads : /\ pc[t] \in {"ensure", "list", "build"} => t \in Loads
                        /\ pc[t] \in {"get", "calling"} => t \notin Loads
  /\ \A t \in Loads : pc[t] \in {"list", "listing", "build"} => tMu = t
  /\ \A t \in Threads : answer[t] # None => cMu = t \/ pc[t] = "build"

\* One request is under way at most, of the holder of c.mu: with the server, on
\* the wire, or answered.
OneAnswer ==
  /\ request # None => /\ cMu = request /\ answer[request] = None
                       /\ \A i \in DOMAIN wire : wire[i] = Changed
  /\ \A i \in DOMAIN wire : wire[i] # Changed =>
       /\ cMu = wire[i].to /\ answer[wire[i].to] = None
       /\ \A j \in DOMAIN wire : wire[j] # Changed => i = j

\* The server announced a change behind every answer it made before it.
OrderOK ==
  \A i \in DOMAIN wire : wire[i] # Changed /\ wire[i].of # version =>
    \E j \in DOMAIN wire : i < j /\ wire[j] = Changed

\* An old answer in hand is announced too: while it is wrapped under t.mu the
\* notification may already want that mutex.
InHandOK ==
  \A t \in Threads : Old(answer[t]) =>
    \/ Announced \/ clearing > 0
    \/ pc[t] = "build" /\ (invalidating > 0 \/ handling)

IInv == TypesOK /\ LocksOK /\ OneAnswer /\ OrderOK /\ InHandOK /\ StaleIsCleared

-------------------------------------------------------------------------------
(* Sequences *)

LEMMA AppendFacts ==
  ASSUME NEW S, NEW q \in Seq(S), NEW m \in S
  PROVE  /\ Append(q, m) \in Seq(S)
         /\ DOMAIN Append(q, m) = DOMAIN q \cup {Len(q) + 1}
         /\ Append(q, m)[Len(q) + 1] = m
         /\ \A i \in DOMAIN q : i \in Nat /\ i < Len(q) + 1 /\ Append(q, m)[i] = q[i]
  OBVIOUS

LEMMA TailFacts ==
  ASSUME NEW S, NEW q \in Seq(S), q # <<>>
  PROVE  /\ Tail(q) \in Seq(S) /\ Head(q) = q[1] /\ 1 \in DOMAIN q
         /\ \A i \in DOMAIN Tail(q) : i \in Nat /\ i > 0 /\ i + 1 \in DOMAIN q
                                        /\ Tail(q)[i] = q[i + 1]
         /\ \A i \in DOMAIN q : i \in Nat /\ (i = 1
                                  \/ (i - 1 \in DOMAIN Tail(q) /\ Tail(q)[i - 1] = q[i]))
<1>1. PICK n \in Nat : n = Len(q) - 1 /\ DOMAIN q = 1..(n + 1)
  BY SMTT(20)
<1>2. Tail(q) \in Seq(S) /\ Head(q) = q[1] /\ Len(Tail(q)) = n /\ DOMAIN Tail(q) = 1..n
  BY <1>1
<1>3. \A i \in 1..n : Tail(q)[i] = q[i + 1]
  BY <1>1
<1>4. \A i \in 1..(n + 1) : i = 1 \/ (i - 1 \in 1..n /\ (i - 1) + 1 = i)
  OBVIOUS
<1>5. 1 \in DOMAIN q /\ \A i \in DOMAIN q : i \in Nat /\ (i = 1 \/ i - 1 \in DOMAIN Tail(q))
  BY <1>1, <1>2, <1>4
<1>6. \A i \in DOMAIN q : i = 1 \/ Tail(q)[i - 1] = q[i]
  BY <1>1, <1>3, <1>4
<1>7. \A i \in DOMAIN Tail(q) : i \in Nat /\ i > 0 /\ i + 1 \in DOMAIN q /\ Tail(q)[i] = q[i + 1]
  BY <1>1, <1>2, <1>3
<1>8. /\ Tail(q) \in Seq(S)
      /\ Head(q) = q[1]
  BY <1>2
<1> QED BY <1>5, <1>6, <1>7, <1>8, Zenon

LEMMA WithoutFacts ==
  ASSUME wire \in Seq(Wired), NEW i \in DOMAIN wire
  PROVE  /\ Without(i) \in Seq(Wired)
         /\ \A j \in DOMAIN Without(i) : \E k \in DOMAIN wire \ {i} : Without(i)[j] = wire[k]
         /\ \A k \in DOMAIN wire \ {i} : \E j \in DOMAIN Without(i) : Without(i)[j] = wire[k]
<1>1. PICK n \in Nat : n = Len(wire) - 1 /\ DOMAIN wire = 1..(n + 1) /\ i \in 1..(n + 1)
  <2>1. Len(wire) \in Nat /\ DOMAIN wire = 1..Len(wire)
    BY Zenon, LenProperties
  <2>2. i \in 1..Len(wire)
    BY <2>1, Zenon
  <2>3. Len(wire) - 1 \in Nat /\ (Len(wire) - 1) + 1 = Len(wire)
    BY <2>1, <2>2
  <2> QED BY <2>1, <2>2, <2>3, Zenon
<1>2. PICK w : w = Without(i) /\ w = [j \in 1..n |-> wire[IF j < i THEN j ELSE j + 1]]
  BY <1>1 DEF Without
<1>3. \A j \in 1..n : /\ (IF j < i THEN j ELSE j + 1) \in DOMAIN wire \ {i}
                      /\ w[j] = wire[IF j < i THEN j ELSE j + 1]
  BY <1>1, <1>2
<1>4. w \in Seq(Wired)
  <2>1. \A j \in 1..n : w[j] \in Wired
    <3>1. \A k \in DOMAIN wire : wire[k] \in Wired
      OBVIOUS
    <3> QED BY <1>3, <3>1
  <2> QED BY <2>1, <1>2
<1>5. ASSUME NEW k \in DOMAIN wire \ {i}
      PROVE  \E j \in 1..n : w[j] = wire[k]
  <2>1. CASE k < i
    <3>1. k \in 1..n BY <1>1, <2>1
    <3> QED BY <2>1, <3>1, <1>3
  <2>2. CASE ~(k < i)
    <3>1. k - 1 \in 1..n /\ ~(k - 1 < i) /\ (k - 1) + 1 = k BY <1>1, <2>2
    <3> QED BY <3>1, <1>3
  <2> QED BY <2>1, <2>2
<1>6. DOMAIN w = 1..n BY <1>2
<1> QED BY <1>2, <1>3, <1>4, <1>5, <1>6

LEMMA Messages ==
  ASSUME TypesOK, NEW i \in DOMAIN wire, wire[i] # Changed
  PROVE  wire[i].to \in Threads /\ wire[i].of \in Nat
<1>1. wire[i] \in Wired BY DEF TypesOK
<1> QED BY <1>1 DEF Wired, Tools

-------------------------------------------------------------------------------
(* Mutexes *)

\* The reader and the server leave the mutexes and the goroutines alone.
LEMMA OutsideStep ==
  ASSUME TypesOK, HandleNotification \/ ClearCached \/ Invalidate \/ Change \/ Answer
  PROVE  TypesOK' /\ UNCHANGED <<pc, answer, cMu, tMu>>
<1>1. ASSUME HandleNotification PROVE wire' \in Seq(Wired)
  BY <1>1, TailFacts DEF HandleNotification, TypesOK
<1>2. ASSUME Change PROVE wire' \in Seq(Wired)
  BY <1>2, AppendFacts DEF Change, TypesOK, Wired
<1>3. ASSUME Answer PROVE wire' \in Seq(Wired)
  BY <1>3, AppendFacts DEF Answer, TypesOK, Wired
<1>4. CASE HandleNotification
  BY <1>1, <1>4 DEF HandleNotification, TypesOK
<1>5. CASE ClearCached
  BY <1>5 DEF ClearCached, TypesOK, server
<1>6. CASE Invalidate
  BY <1>6 DEF Invalidate, TypesOK, server
<1>7. CASE Change
  BY <1>2, <1>7 DEF Change, TypesOK, handler
<1>8. CASE Answer
  BY <1>3, <1>8 DEF Answer, TypesOK, handler
<1>9. UNCHANGED <<pc, answer, cMu, tMu>>
  BY DEF HandleNotification, ClearCached, Invalidate, Change, Answer
<1> QED BY <1>4, <1>5, <1>6, <1>7, <1>8, <1>9

LEMMA DeliverFacts ==
  ASSUME TypesOK, OneAnswer, Deliver
  PROVE  /\ 1 \in DOMAIN wire /\ wire[1] # Changed /\ cMu = wire[1].to /\ cMu \in Threads
         /\ answer' = [answer EXCEPT ![cMu] = wire[1].of] /\ wire[1].of \in Nat
         /\ request = None
<1>1. 1 \in DOMAIN wire /\ Head(wire) = wire[1] /\ wire[1] # Changed
  BY TailFacts DEF TypesOK, Deliver
<1>2. wire[1].to \in Threads /\ wire[1].of \in Nat
  BY <1>1, Messages
<1>3. cMu = wire[1].to
  BY <1>1 DEF OneAnswer
<1>4. request = None
  BY <1>1 DEF OneAnswer
<1> QED BY <1>1, <1>2, <1>3, <1>4 DEF Deliver

LEMMA GiveUpFacts ==
  ASSUME TypesOK, LocksOK, OneAnswer, NEW t \in Threads, GiveUp(t)
  PROVE  /\ wire' \in Seq(Wired) /\ cMu = t /\ request' = None
         /\ \A i \in DOMAIN wire' : wire'[i] = Changed
         /\ Announced => Announced'
<1>1. cMu = t /\ pc[t] \in {"listing", "calling"}
  BY DEF GiveUp, LocksOK
<1>2. request' = None
  BY <1>1 DEF GiveUp, OneAnswer, TypesOK
<1>3. CASE UNCHANGED wire /\ \A i \in DOMAIN wire : ~ForCaller(i, t)
  BY <1>1, <1>2, <1>3 DEF ForCaller, OneAnswer, Announced, TypesOK
<1>4. ASSUME NEW i \in DOMAIN wire, ForCaller(i, t), wire' = Without(i)
      PROVE  /\ wire' \in Seq(Wired) /\ \A j \in DOMAIN wire' : wire'[j] = Changed
             /\ Announced => Announced'
  <2>1. \A k \in DOMAIN wire \ {i} : wire[k] = Changed
    BY <1>4 DEF OneAnswer, ForCaller
  <2>2. wire[i] # Changed
    BY <1>4 DEF ForCaller
  <2> HIDE DEF ForCaller, Without
  <2>3. /\ wire' \in Seq(Wired)
        /\ \A j \in DOMAIN wire' : \E k \in DOMAIN wire \ {i} : wire'[j] = wire[k]
        /\ \A k \in DOMAIN wire \ {i} : \E j \in DOMAIN wire' : wire'[j] = wire[k]
    BY <1>4, WithoutFacts DEF TypesOK
  <2> QED BY <2>1, <2>2, <2>3 DEF Announced
<1> QED BY <1>1, <1>2, <1>3, <1>4 DEF GiveUp

LEMMA Moved ==
  ASSUME TypesOK, NEW t \in Threads, NEW step, Goto(t, step)
  PROVE  pc'[t] = step /\ \A u \in Threads : u # t => pc'[u] = pc[u]
  BY DEF TypesOK, Goto

LEMMA NextLocks == ASSUME IInv, [Next]_vars PROVE TypesOK' /\ LocksOK'
<1> USE DEF IInv
<1>1. ASSUME NEW t \in Threads, Call(t) \/ EnsureToolkit(t) PROVE TypesOK' /\ LocksOK'
  <2>1. /\ UNCHANGED <<server, handler, cMu, caches, answer>>
        /\ \/ pc[t] = "idle" /\ Goto(t, IF t \in Loads THEN "ensure" ELSE "get") /\ UNCHANGED tMu
           \/ pc[t] = "ensure" /\ tMu = None /\ Goto(t, "idle") /\ UNCHANGED tMu
           \/ pc[t] = "ensure" /\ tMu = None /\ Goto(t, "list") /\ tMu' = t
    BY <1>1 DEF Call, EnsureToolkit
  <2>2. TypesOK'
    BY <2>1 DEF Goto, TypesOK, server, handler, caches
  <2>3. LocksOK'
    <3>1. PICK p :
          /\ p = pc' /\ \A u \in Threads : u # t => p[u] = pc[u]
          /\ \/ pc[t] = "idle" /\ p[t] = "ensure" /\ t \in Loads /\ UNCHANGED tMu
             \/ pc[t] = "idle" /\ p[t] = "get" /\ t \notin Loads /\ UNCHANGED tMu
             \/ pc[t] = "ensure" /\ p[t] = "idle" /\ UNCHANGED tMu
             \/ pc[t] = "ensure" /\ p[t] = "list" /\ tMu = None /\ tMu' = t
      BY <2>1, Moved
    <3>2. \A u \in Threads : p[u] \in {"listing", "calling"} <=> cMu' = u
      BY <2>1, <3>1 DEF LocksOK
    <3>3. \A u \in Threads : /\ p[u] \in {"ensure", "list", "build"} => u \in Loads
                             /\ p[u] \in {"get", "calling"} => u \notin Loads
      BY <3>1 DEF LocksOK
    <3>4. \A u \in Loads : p[u] \in {"list", "listing", "build"} => tMu' = u
      BY <2>1, <3>1 DEF LocksOK, Threads
    <3>5. \A u \in Threads : answer'[u] # None => cMu' = u \/ p[u] = "build"
      BY <2>1, <3>1 DEF LocksOK, TypesOK
    <3> QED BY <3>1, <3>2, <3>3, <3>4, <3>5 DEF LocksOK
  <2> QED BY <2>2, <2>3
<1>2. ASSUME NEW t \in Threads, ListRawTools(t) \/ GetTool(t) \/ CallTool(t) PROVE TypesOK'
               /\ LocksOK'
  <2>1. /\ UNCHANGED <<version, wire, handler, tMu, caches, answer>> /\ cMu = None
        /\ \/ pc[t] = "list" /\ cMu' = t /\ request' = t /\ Goto(t, "listing")
           \/ pc[t] = "get" /\ cMu' = t /\ request' = t /\ Goto(t, "listing")
           \/ pc[t] = "get" /\ cMu' = t /\ request' = t /\ Goto(t, "calling")
           \/ pc[t] = "get" /\ UNCHANGED <<cMu, request>> /\ Goto(t, "idle")
    BY <1>2 DEF ListRawTools, GetTool, CallTool
  <2>2. TypesOK'
    BY <2>1 DEF Goto, TypesOK, handler, caches
  <2>3. LocksOK'
    <3>1. PICK p :
          /\ p = pc' /\ \A u \in Threads : u # t => p[u] = pc[u]
          /\ \/ pc[t] = "list" /\ cMu' = t /\ p[t] = "listing"
             \/ pc[t] = "get" /\ cMu' = t /\ p[t] \in {"listing", "calling"}
             \/ pc[t] = "get" /\ UNCHANGED cMu /\ p[t] = "idle"
      BY <2>1, Moved
    <3>2. \A u \in Threads : p[u] \in {"listing", "calling"} <=> cMu' = u
      BY <2>1, <3>1 DEF LocksOK
    <3>3. \A u \in Threads : /\ p[u] \in {"ensure", "list", "build"} => u \in Loads
                             /\ p[u] \in {"get", "calling"} => u \notin Loads
      BY <3>1 DEF LocksOK
    <3>4. \A u \in Loads : p[u] \in {"list", "listing", "build"} => tMu' = u
      BY <2>1, <3>1 DEF LocksOK, Threads
    <3>5. \A u \in Threads : answer'[u] # None => cMu' = u \/ p[u] = "build"
      BY <2>1, <3>1 DEF LocksOK, TypesOK
    <3> QED BY <3>1, <3>2, <3>3, <3>4, <3>5 DEF LocksOK
  <2> QED BY <2>2, <2>3
<1>3. ASSUME NEW t \in Threads, CacheTools(t) \/ CallReturns(t) \/ BuildToolkit(t) PROVE TypesOK'
               /\ LocksOK'
  <2>1. /\ UNCHANGED <<server, handler>>
        /\ \/ /\ pc[t] = "listing" /\ t \in Loads /\ answer[t] # None
              /\ cMu' = None /\ Goto(t, "build") /\ UNCHANGED <<tMu, answer>>
           \/ /\ pc[t] \in {"listing", "calling"} /\ t \notin Loads
              /\ cMu' = None /\ Goto(t, "idle") /\ UNCHANGED tMu
              /\ answer' = [answer EXCEPT ![t] = None]
           \/ /\ pc[t] = "build" /\ tMu' = None /\ Goto(t, "idle") /\ UNCHANGED cMu
              /\ answer' = [answer EXCEPT ![t] = None]
    BY <1>3 DEF CacheTools, CallReturns, BuildToolkit, LocksOK
  <2>2. TypesOK'
    BY <2>1 DEF Goto, TypesOK, server, handler
  <2>3. LocksOK'
    <3>1. PICK p :
          /\ p = pc' /\ \A u \in Threads : u # t => p[u] = pc[u]
          /\ \/ /\ pc[t] = "listing" /\ t \in Loads /\ cMu' = None /\ p[t] = "build"
                /\ UNCHANGED <<tMu, answer>>
             \/ /\ pc[t] \in {"listing", "calling"} /\ cMu' = None /\ p[t] = "idle"
                /\ UNCHANGED tMu /\ answer' = [answer EXCEPT ![t] = None]
             \/ /\ pc[t] = "build" /\ tMu' = None /\ p[t] = "idle" /\ UNCHANGED cMu
                /\ answer' = [answer EXCEPT ![t] = None]
      BY <2>1, Moved
    <3>2. \A u \in Threads : p[u] \in {"listing", "calling"} <=> cMu' = u
      BY <2>1, <3>1 DEF LocksOK
    <3>3. \A u \in Threads : /\ p[u] \in {"ensure", "list", "build"} => u \in Loads
                             /\ p[u] \in {"get", "calling"} => u \notin Loads
      BY <3>1 DEF LocksOK
    <3>4. \A u \in Loads : p[u] \in {"list", "listing", "build"} => tMu' = u
      BY <2>1, <3>1 DEF LocksOK, Threads
    <3>5. \A u \in Threads : answer'[u] # None => cMu' = u \/ p[u] = "build"
      BY <2>1, <3>1 DEF LocksOK, TypesOK
    <3> QED BY <3>1, <3>2, <3>3, <3>4, <3>5 DEF LocksOK
  <2> QED BY <2>2, <2>3
<1>4. ASSUME NEW t \in Threads, GiveUp(t) PROVE TypesOK' /\ LocksOK'
  <2>1. wire' \in Seq(Wired) /\ cMu = t /\ request' = None
    BY <1>4, GiveUpFacts
  <2> QED BY <1>4, <2>1 DEF GiveUp, Goto, TypesOK, LocksOK, handler, caches
<1>5. CASE HandleNotification \/ ClearCached \/ Invalidate \/ Change \/ Answer
  BY <1>5, OutsideStep DEF LocksOK
<1>6. CASE Deliver
  <2>1. wire' \in Seq(Wired)
    BY <1>6, TailFacts DEF Deliver, TypesOK
  <2>2. TypesOK'
    BY <1>6, <2>1, DeliverFacts DEF Deliver, TypesOK, handler
  <2>3. LocksOK'
    BY <1>6, DeliverFacts DEF Deliver, TypesOK, LocksOK, handler
  <2> QED BY <2>2, <2>3
<1>7. CASE UNCHANGED vars
  BY <1>7 DEF vars, TypesOK, LocksOK
<1> QED BY <1>1, <1>2, <1>3, <1>4, <1>5, <1>6, <1>7 DEF Next, Locks, Runs

-------------------------------------------------------------------------------
(* Answers *)

\* A step that takes nothing from the wire and puts nothing there.
LEMMA SameWire ==
  ASSUME OneAnswer, UNCHANGED <<wire, request>>, cMu # None => UNCHANGED <<cMu, answer>>,
         TypesOK
  PROVE  OneAnswer'
<1>1. \A i \in DOMAIN wire : wire[i] # Changed => cMu # None
  BY Messages DEF OneAnswer
<1>2. CASE cMu # None
  BY <1>2 DEF OneAnswer
<1>3. CASE cMu = None
  BY <1>1, <1>3 DEF OneAnswer
<1> QED BY <1>2, <1>3

LEMMA NextOne == ASSUME IInv, [Next]_vars PROVE OneAnswer'
<1> USE DEF IInv
<1>1. ASSUME NEW t \in Threads, Call(t) \/ EnsureToolkit(t) PROVE OneAnswer'
  BY <1>1 DEF Call, EnsureToolkit, OneAnswer, server
<1>2. ASSUME NEW t \in Threads, ListRawTools(t) \/ GetTool(t) \/ CallTool(t) PROVE OneAnswer'
  <2>1. UNCHANGED <<wire, answer>> /\ cMu = None
    BY <1>2 DEF ListRawTools, GetTool, CallTool
  <2>2. request = None /\ \A i \in DOMAIN wire : wire[i] = Changed
    BY <2>1, Messages DEF OneAnswer, TypesOK
  <2>3. \/ UNCHANGED request
        \/ request' = t /\ cMu' = t
    BY <1>2 DEF ListRawTools, GetTool, CallTool
  <2>4. answer[t] = None
    <3>1. pc[t] # "build"
      BY <1>2 DEF ListRawTools, GetTool, CallTool
    <3> QED BY <2>1, <3>1 DEF LocksOK
  <2> QED BY <2>1, <2>2, <2>3, <2>4 DEF OneAnswer
<1>3. ASSUME NEW t \in Threads, CacheTools(t) \/ CallReturns(t) PROVE OneAnswer'
  <2>1. UNCHANGED <<wire, request>> /\ cMu = t /\ answer[t] # None
    BY <1>3 DEF CacheTools, CallReturns, server, LocksOK
  <2>2. request = None /\ \A i \in DOMAIN wire : wire[i] = Changed
    BY <2>1 DEF OneAnswer
  <2> QED BY <2>1, <2>2 DEF OneAnswer
<1>4. ASSUME NEW t \in Threads, BuildToolkit(t) PROVE OneAnswer'
  <2>1. UNCHANGED <<wire, request, cMu>> /\ answer' = [answer EXCEPT ![t] = None]
    BY <1>4 DEF BuildToolkit, server
  <2>2. \A u \in Threads : answer[u] = None => answer'[u] = None
    BY <2>1 DEF TypesOK
  <2>3. \A i \in DOMAIN wire : wire[i] # Changed => wire[i].to \in Threads
    BY Messages
  <2> QED BY <2>1, <2>2, <2>3 DEF OneAnswer, TypesOK
<1>5. ASSUME NEW t \in Threads, GiveUp(t) PROVE OneAnswer'
  BY <1>5, GiveUpFacts DEF OneAnswer
<1>6. CASE HandleNotification
  <2>1. UNCHANGED <<request, cMu, answer>> /\ wire' = Tail(wire) /\ wire # <<>>
    BY <1>6 DEF HandleNotification
  <2>2. PICK w : w = wire' /\ \A i \in DOMAIN w : i \in Nat /\ i + 1 \in DOMAIN wire
               /\ w[i] = wire[i + 1]
    <3>1. wire \in Seq(Wired)
      BY DEF TypesOK
    <3>2. \A i \in DOMAIN Tail(wire) : i \in Nat /\ i + 1 \in DOMAIN wire
                                         /\ Tail(wire)[i] = wire[i + 1]
      BY <2>1, <3>1, TailFacts
    <3> QED BY <2>1, <3>2, Zenon
  <2> QED BY <2>1, <2>2 DEF OneAnswer
<1>7. CASE Deliver
  <2>1. request = None /\ 1 \in DOMAIN wire /\ wire[1] # Changed /\ UNCHANGED request
    BY <1>7, DeliverFacts DEF Deliver
  <2>2. PICK w : w = wire' /\ \A i \in DOMAIN w : i \in Nat /\ i > 0 /\ i + 1 \in DOMAIN wire
               /\ w[i] = wire[i + 1]
    <3>1. wire \in Seq(Wired) /\ wire # <<>> /\ wire' = Tail(wire)
      BY <1>7 DEF TypesOK, Deliver
    <3>2. \A i \in DOMAIN Tail(wire) : i \in Nat /\ i > 0 /\ i + 1 \in DOMAIN wire
                                         /\ Tail(wire)[i] = wire[i + 1]
      BY <3>1, TailFacts, Zenon
    <3> QED BY <3>1, <3>2, Zenon
  <2>3. \A i \in DOMAIN w : w[i] = Changed
    BY <2>1, <2>2 DEF OneAnswer
  <2> QED BY <2>1, <2>2, <2>3 DEF OneAnswer
<1>8. CASE Change
  <2>1. UNCHANGED <<request, cMu, answer>> /\ wire' = Append(wire, Changed)
    BY <1>8 DEF Change
  <2>2. PICK w : w = wire' /\ \A i \in DOMAIN w : w[i] = Changed
               \/ (i \in DOMAIN wire /\ w[i] = wire[i])
    BY <2>1, AppendFacts DEF TypesOK, Wired
  <2> QED BY <2>1, <2>2 DEF OneAnswer
<1>9. CASE Answer
  <2>1. /\ request \in Threads /\ request' = None /\ UNCHANGED <<cMu, answer>>
        /\ wire' = Append(wire, Tools(request, version))
    BY <1>9 DEF Answer, TypesOK
  <2>2. cMu = request /\ answer[request] = None /\ \A i \in DOMAIN wire : wire[i] = Changed
    BY <2>1 DEF OneAnswer
  <2>3. PICK w : /\ w = wire' /\ w[Len(wire) + 1] = Tools(request, version)
                 /\ \A i \in DOMAIN w : i = Len(wire) + 1 \/ w[i] = Changed
    <3>1. wire \in Seq(Wired) /\ Tools(request, version) \in Wired
      BY <2>1 DEF TypesOK, Wired
    <3>2. PICK a : a = Append(wire, Tools(request, version))
      OBVIOUS
    <3>3. /\ DOMAIN a = DOMAIN wire \cup {Len(wire) + 1}
          /\ a[Len(wire) + 1] = Tools(request, version) /\ \A i \in DOMAIN wire : a[i] = wire[i]
      BY <3>1, <3>2, AppendFacts
    <3> QED BY <2>1, <2>2, <3>2, <3>3, Zenon
  <2>4. Tools(request, version).to = request
    BY DEF Tools
  <2> QED BY <2>1, <2>2, <2>3, <2>4 DEF OneAnswer
<1>10. CASE ClearCached \/ Invalidate \/ UNCHANGED vars
  <2>1. UNCHANGED <<wire, request, cMu, answer>>
    BY <1>10 DEF ClearCached, Invalidate, vars, server
  <2> QED BY <2>1 DEF OneAnswer
<1> QED BY <1>1, <1>2, <1>3, <1>4, <1>5, <1>6, <1>7, <1>8, <1>9, <1>10 DEF Next, Locks, Runs

-------------------------------------------------------------------------------
(* Announcements *)

\* What the wire becomes when its first message is read, and when one is sent.
LEMMA WireRead ==
  ASSUME TypesOK, wire # <<>>, wire' = Tail(wire)
  PROVE  /\ 1 \in DOMAIN wire /\ Head(wire) = wire[1]
         /\ \A i \in DOMAIN wire' : i \in Nat /\ i > 0 /\ i + 1 \in DOMAIN wire
                                      /\ wire'[i] = wire[i + 1]
         /\ \A i \in DOMAIN wire :
              i \in Nat /\ (i = 1 \/ (i - 1 \in DOMAIN wire' /\ wire'[i - 1] = wire[i]))
<1>1. PICK q, w : q = wire /\ w = wire' /\ q \in Seq(Wired) /\ q # <<>> /\ w = Tail(q)
  BY DEF TypesOK
<1>2. /\ Head(q) = q[1] /\ 1 \in DOMAIN q
      /\ \A i \in DOMAIN w : i \in Nat /\ i > 0 /\ i + 1 \in DOMAIN q /\ w[i] = q[i + 1]
      /\ \A i \in DOMAIN q : i \in Nat /\ (i = 1 \/ (i - 1 \in DOMAIN w /\ w[i - 1] = q[i]))
  BY <1>1, TailFacts
<1> QED BY <1>1, <1>2, Zenon

LEMMA WireSent ==
  ASSUME TypesOK, NEW m \in Wired, wire' = Append(wire, m)
  PROVE  \E n \in Nat :
           /\ DOMAIN wire' = DOMAIN wire \cup {n} /\ wire'[n] = m
           /\ \A i \in DOMAIN wire : i \in Nat /\ i < n /\ wire'[i] = wire[i]
<1>1. PICK q, w : q = wire /\ w = wire' /\ q \in Seq(Wired) /\ w = Append(q, m)
  BY DEF TypesOK
<1>2. PICK n \in Nat : n = Len(q) + 1
  BY <1>1
<1>3. /\ DOMAIN w = DOMAIN q \cup {n} /\ w[n] = m
      /\ \A i \in DOMAIN q : i \in Nat /\ i < n /\ w[i] = q[i]
  BY <1>1, <1>2, AppendFacts
<1> QED BY <1>1, <1>3, Zenon

LEMMA NextOrder == ASSUME IInv, [Next]_vars PROVE OrderOK'
<1> USE DEF IInv
<1>1. CASE UNCHANGED <<wire, version>>
  BY <1>1 DEF OrderOK
<1>2. ASSUME NEW t \in Threads, GiveUp(t) PROVE OrderOK'
  BY <1>2, GiveUpFacts DEF OrderOK
<1>3. CASE HandleNotification \/ Deliver
  <2>1. wire # <<>> /\ wire' = Tail(wire) /\ version' = version
    BY <1>3 DEF HandleNotification, Deliver
  <2>2. PICK w : /\ w = wire'
                 /\ \A i \in DOMAIN w : i \in Nat /\ i > 0 /\ i + 1 \in DOMAIN wire
                                          /\ w[i] = wire[i + 1]
                 /\ \A i \in DOMAIN wire :
                      i \in Nat /\ (i = 1 \/ (i - 1 \in DOMAIN w /\ w[i - 1] = wire[i]))
    BY <2>1, WireRead
  <2>3. ASSUME NEW i \in DOMAIN w, w[i] # Changed, w[i].of # version
        PROVE  \E j \in DOMAIN w : i < j /\ w[j] = Changed
    <3>1. PICK j \in DOMAIN wire : i + 1 < j /\ wire[j] = Changed
      BY <2>2, <2>3 DEF OrderOK
    <3>2. i \in Nat /\ i > 0 /\ j \in Nat /\ j # 1
      BY <2>2, <3>1
    <3>3. j - 1 \in DOMAIN w /\ w[j - 1] = Changed /\ i < j - 1
      BY <2>2, <3>1, <3>2
    <3> QED BY <3>3
  <2> QED BY <2>1, <2>2, <2>3 DEF OrderOK
<1>4. CASE Change
  <2>1. wire' = Append(wire, Changed) /\ Changed \in Wired
    BY <1>4 DEF Change, Wired
  <2>2. \E n \in Nat : /\ DOMAIN wire' = DOMAIN wire \cup {n} /\ wire'[n] = Changed
                       /\ \A i \in DOMAIN wire : i \in Nat /\ i < n
    BY <2>1, WireSent
  <2> QED BY <2>2 DEF OrderOK
<1>5. CASE Answer
  <2>1. /\ wire' = Append(wire, Tools(request, version)) /\ Tools(request, version) \in Wired
        /\ version' = version /\ Tools(request, version).of = version
    BY <1>5 DEF Answer, Wired, TypesOK, Tools
  <2>2. \A i \in DOMAIN wire : wire[i] = Changed
    BY <1>5 DEF Answer, OneAnswer
  <2>3. \E n \in Nat : /\ DOMAIN wire' = DOMAIN wire \cup {n} /\ wire'[n] = Tools(request, version)
                       /\ \A i \in DOMAIN wire : wire'[i] = wire[i]
    BY <2>1, WireSent
  <2> QED BY <2>1, <2>2, <2>3 DEF OrderOK
<1>6. ASSUME NEW t \in Threads, Call(t) \/ Locks(t) \/ Runs(t) PROVE UNCHANGED <<wire, version>>
  BY <1>6 DEF Call, Locks, Runs, EnsureToolkit, ListRawTools, GetTool, CallTool, CacheTools,
              CallReturns, BuildToolkit, server
<1>7. CASE ClearCached \/ Invalidate \/ UNCHANGED vars
  BY <1>1, <1>7 DEF ClearCached, Invalidate, vars, server
<1> QED BY <1>1, <1>2, <1>3, <1>4, <1>5, <1>6, <1>7 DEF Next

LEMMA AnnouncedStays ==
  ASSUME IInv, Announced,
         \/ UNCHANGED wire
         \/ \E t \in Threads : GiveUp(t)
         \/ Change \/ Answer \/ Deliver
  PROVE  Announced'
<1> USE DEF IInv
<1>1. PICK i \in DOMAIN wire : wire[i] = Changed
  BY DEF Announced
<1>2. CASE Change \/ Answer
  <2>1. PICK m \in Wired : wire' = Append(wire, m)
    BY <1>2 DEF Change, Answer, Wired, TypesOK
  <2>2. i \in DOMAIN wire' /\ wire'[i] = wire[i]
    BY <2>1, WireSent
  <2> QED BY <1>1, <2>2 DEF Announced
<1>3. CASE Deliver
  <2>1. wire # <<>> /\ wire' = Tail(wire) /\ wire[1] # Changed
    BY <1>3, DeliverFacts DEF Deliver
  <2>2. i - 1 \in DOMAIN wire' /\ wire'[i - 1] = wire[i]
    BY <1>1, <2>1, WireRead
  <2> QED BY <1>1, <2>2 DEF Announced
<1> QED BY <1>2, <1>3, GiveUpFacts DEF Announced

-------------------------------------------------------------------------------
(* Caches *)

\* A notification is on the wire, or waits for c.mu; or it waits for t.mu.
ClearsCached  == Announced \/ clearing > 0
ClearsToolkit == ClearsCached \/ invalidating > 0 \/ handling

LEMMA CachesBy ==
  /\ InHandOK <=> \A t \in Threads : Old(answer[t]) =>
                     ClearsCached \/ (pc[t] = "build" /\ ClearsToolkit)
  /\ StaleIsCleared <=> (Old(cached) => ClearsCached) /\ (Old(toolkit) => ClearsToolkit)
  BY DEF InHandOK, StaleIsCleared, ClearsCached, ClearsToolkit

LEMMA NextCaches == ASSUME IInv, [Next]_vars PROVE InHandOK' /\ StaleIsCleared'
<1> USE DEF IInv
<1>1. ASSUME NEW t \in Threads, Call(t) \/ Locks(t) PROVE InHandOK' /\ StaleIsCleared'
  <2>1. UNCHANGED <<version, wire, clearing, invalidating, handling, cached, toolkit, answer>>
    BY <1>1 DEF Call, Locks, EnsureToolkit, ListRawTools, GetTool, CallTool, server, handler, caches
  <2>2. \A u \in Threads : pc[u] = "build" => pc'[u] = "build"
    <3>1. pc[t] # "build" /\ \E step : Goto(t, step)
      BY <1>1 DEF Call, Locks, EnsureToolkit, ListRawTools, GetTool, CallTool
    <3> QED BY <3>1, Moved
  <2> QED BY <2>1, <2>2 DEF InHandOK, StaleIsCleared, Old, Announced
<1>2. ASSUME NEW t \in Threads, Runs(t) PROVE InHandOK' /\ StaleIsCleared'
  <2>1. UNCHANGED <<version, wire, clearing, invalidating, handling>>
    BY <1>2 DEF Runs, CacheTools, CallReturns, BuildToolkit, server, handler
  <2>2. /\ UNCHANGED <<ClearsCached, ClearsToolkit>>
        /\ \A v : Old(v)' <=> Old(v)
    BY <2>1 DEF ClearsCached, ClearsToolkit, Announced, Old
  <2>3. \/ cached' = cached
        \/ cached' = answer[t] /\ pc[t] = "listing"
    BY <1>2 DEF Runs, CacheTools, CallReturns, BuildToolkit, caches
  <2>4. \/ toolkit' = toolkit
        \/ toolkit' = answer[t] /\ pc[t] = "build"
        \/ toolkit' = None
    BY <1>2 DEF Runs, CacheTools, CallReturns, BuildToolkit, caches
  <2>5. ASSUME NEW u \in Threads, answer'[u] # None
        PROVE  answer'[u] = answer[u] /\ (pc[u] = "build" => pc'[u] = "build")
    <3>1. /\ answer' = answer \/ answer' = [answer EXCEPT ![t] = None]
          /\ pc[t] = "build" => answer' = [answer EXCEPT ![t] = None]
          /\ \E step : Goto(t, step)
      BY <1>2 DEF Runs, CacheTools, CallReturns, BuildToolkit
    <3>2. answer'[u] = answer[u] /\ (pc[t] = "build" => u # t)
      BY <2>5, <3>1 DEF TypesOK
    <3> QED BY <3>1, <3>2, Moved
  <2>6. /\ \A u \in Threads : Old(answer[u]) => ClearsCached \/ (pc[u] = "build" /\ ClearsToolkit)
        /\ Old(cached) => ClearsCached
        /\ Old(toolkit) => ClearsToolkit
    BY CachesBy
  <2>7. \A u \in Threads : Old(answer'[u]) => ClearsCached \/ (pc'[u] = "build" /\ ClearsToolkit)
    BY <2>5, <2>6 DEF Old
  <2>8. Old(cached') => ClearsCached
    BY <2>3, <2>6
  <2>9. Old(toolkit') => ClearsToolkit
    BY <2>4, <2>6 DEF ClearsToolkit, Old
  <2> QED BY <2>1, <2>7, <2>8, <2>9 DEF InHandOK, StaleIsCleared, Old, Announced, ClearsCached,
                                         ClearsToolkit
<1>3. ASSUME NEW t \in Threads, GiveUp(t) PROVE InHandOK' /\ StaleIsCleared'
  <2>1. UNCHANGED <<version, clearing, invalidating, handling, cached, toolkit, answer>>
    BY <1>3 DEF GiveUp, handler, caches
  <2>2. Announced => Announced'
    BY <1>3, AnnouncedStays
  <2>3. \A u \in Threads : pc[u] = "build" => pc'[u] = "build"
    <3>1. pc[t] # "build" /\ Goto(t, "idle")
      BY <1>3 DEF GiveUp
    <3> QED BY <3>1, Moved
  <2> QED BY <2>1, <2>2, <2>3 DEF InHandOK, StaleIsCleared, Old
<1>4. CASE HandleNotification \/ ClearCached
  <2>1. UNCHANGED <<version, pc, answer, toolkit>>
    BY <1>4 DEF HandleNotification, ClearCached, server
  <2>2. CASE cMu = None
    <3>1. cached' = None /\ (invalidating' > 0 \/ handling')
      BY <1>4, <2>2 DEF HandleNotification, ClearCached, TypesOK
    <3>2. \A u \in Threads : answer[u] # None => pc[u] = "build"
      BY <2>2 DEF LocksOK
    <3> QED BY <2>1, <3>1, <3>2 DEF InHandOK, StaleIsCleared, Old
  <2>3. CASE cMu # None
    <3>1. clearing' > 0
      BY <1>4, <2>3 DEF HandleNotification, ClearCached, TypesOK
    <3> QED BY <3>1 DEF InHandOK, StaleIsCleared
  <2> QED BY <2>2, <2>3
<1>5. CASE Invalidate
  <2>1. UNCHANGED <<version, wire, clearing, cached, pc, answer>> /\ tMu = None /\ toolkit' = None
    BY <1>5 DEF Invalidate, server
  <2>2. \A u \in Threads : pc[u] # "build"
    BY <2>1 DEF LocksOK
  <2> QED BY <2>1, <2>2 DEF InHandOK, StaleIsCleared, Old, Announced
<1>6. CASE Change
  <2>1. wire' = Append(wire, Changed) /\ Changed \in Wired
    BY <1>6 DEF Change, Wired
  <2>2. Announced'
    BY <2>1, WireSent DEF Announced
  <2> QED BY <2>2 DEF InHandOK, StaleIsCleared
<1>7. CASE Answer
  <2>1. UNCHANGED <<version, clearing, invalidating, handling, cached, toolkit, answer, pc>>
    BY <1>7 DEF Answer, handler, caches
  <2>2. Announced => Announced'
    BY <1>7, AnnouncedStays
  <2> QED BY <2>1, <2>2 DEF InHandOK, StaleIsCleared, Old
<1>8. CASE Deliver
  <2>1. UNCHANGED <<version, clearing, invalidating, handling, cached, toolkit, pc>>
    BY <1>8 DEF Deliver, handler, caches
  <2>2. Announced => Announced'
    BY <1>8, AnnouncedStays
  <2>3. 1 \in DOMAIN wire /\ wire[1] # Changed /\ answer' = [answer EXCEPT ![cMu] = wire[1].of]
    BY <1>8, DeliverFacts
  <2>4. wire[1].of # version => Announced
    BY <2>3 DEF OrderOK, Announced
  <2>5. \A u \in Threads : answer'[u] = answer[u] \/ answer'[u] = wire[1].of
    BY <2>3 DEF TypesOK
  <2> QED BY <2>1, <2>2, <2>4, <2>5 DEF InHandOK, StaleIsCleared, Old
<1>9. CASE UNCHANGED vars
  BY <1>9 DEF vars, InHandOK, StaleIsCleared, Old, Announced
<1> QED BY <1>1, <1>2, <1>3, <1>4, <1>5, <1>6, <1>7, <1>8, <1>9 DEF Next

-------------------------------------------------------------------------------
LEMMA InitIInv == Init => IInv
<1> SUFFICES ASSUME Init PROVE IInv
  OBVIOUS
<1>1. TypesOK
  BY DEF Init, TypesOK
<1>2. LocksOK
  BY DEF Init, LocksOK, Threads
<1>3. OneAnswer /\ OrderOK
  BY DEF Init, OneAnswer, OrderOK
<1>4. InHandOK /\ StaleIsCleared
  BY DEF Init, InHandOK, StaleIsCleared, Old
<1> QED BY <1>1, <1>2, <1>3, <1>4 DEF IInv

LEMMA NextIInv == IInv /\ [Next]_vars => IInv'
  BY NextLocks, NextOne, NextOrder, NextCaches DEF IInv

\* Whoever lists while a notification comes, and whichever mutex it finds held,
\* no cache of old tools is kept: the client's is about to be cleared, and the
\* toolkit's about to be invalidated (handleNotification, Invalidate).
THEOREM StaleCachesAreCleared == Spec => []StaleIsCleared
<1>1. IInv => StaleIsCleared
  BY DEF IInv
<1> QED BY <1>1, InitIInv, NextIInv, PTL DEF Spec

==============================================================================
