--------------------------- MODULE AgentReplyProofs ---------------------------
(***************************************************************************)
(* Proofs about the reply flow of AgentReply, for every value of its       *)
(* constants: types; tools run only with a permission that still stands;   *)
(* one reply reasons at most MaxIters times; no result is left open, serial*)
(* calls run alone and a question asked in the context stands there;       *)
(* and, while the context is not compacted, a call runs at most once and   *)
(* goes through the phases of ToolCallLifecycle.                           *)
(***************************************************************************)
EXTENDS AgentReply, TLAPS

\* Where the flow is between the top of an iteration and its end.
Iterating == {"model", "handle", "single", "exec", "flush", "settle", "after"}

\* While a reply runs it has a reply ID, an iteration only runs below the
\* bound, and the flow knows where to go after a flush and how it ends.
FlowOK ==
  /\ pc # "idle" => replyID \in Msg
  /\ pc \in Iterating => curIter < MaxIters
  /\ pc \in {"flush", "settle"} => after \in {"handle", "waiting", "after"}
  /\ pc = "end" => after \in {"ended", "waiting"}

\* TypeOK in two parts: the state of the flow, and the history variables.
FlowType ==
  /\ first \in Nat /\ last \in 0..MsgBound
  /\ replies \subseteq Msg
  /\ made \in 0..CallBound
  /\ owner \in [Call -> 0..MsgBound]
  /\ kind \in [Call -> Kind]
  /\ mem \in [View -> [Call -> Block]]
  /\ at \in View
  /\ replyID \in 0..MsgBound
  /\ curIter \in 0..MaxIters
  /\ pc \in PC
  /\ todo \subseteq Call /\ batch \subseteq Call /\ ranBatch \subseteq Call
  /\ after \in {"none", "handle", "waiting", "after", "ended"}
  /\ failed \subseteq Msg
  /\ outcome \in {"none", "ended", "waiting", "exceeded", "error"}

HistoryType ==
  /\ ran \in [Call -> Nat]
  /\ permitted \subseteq Call /\ asked \subseteq Call /\ sent \subseteq Call
  /\ questions \subseteq Call
  /\ turns \in [Msg -> Nat]

LEMMA TypeParts == TypeOK <=> FlowType /\ HistoryType
BY DEF TypeOK, FlowType, HistoryType

LEMMA BlocksType ==
  ASSUME NEW b \in [Call -> Block], NEW c \in Call
  PROVE  /\ \A s \in CallState, r \in ResultState :
              [b EXCEPT ![c] = [st |-> s, res |-> r]] \in [Call -> Block]
         /\ \A s \in CallState : [b EXCEPT ![c].st = s] \in [Call -> Block]
BY DEF Block

LEMMA ConfirmedType ==
  ASSUME NEW b \in [Call -> Block], NEW c \in Call, NEW yes \in BOOLEAN
  PROVE  Confirmed(b, c, yes) \in [Call -> Block]
BY DEF Confirmed, Block, CallState

LEMMA AnsweredType ==
  ASSUME NEW b \in [Call -> Block], NEW c \in Call
  PROVE  Answered(b, c) \in [Call -> Block]
BY DEF Answered, Block, CallState, ResultState

LEMMA ApplyType ==
  ASSUME TypeOK, NEW b \in [Call -> Block], Apply(b)
  PROVE  mem' \in [View -> [Call -> Block]]
BY DEF TypeOK, Apply

LEMMA AssistantType ==
  ASSUME TypeOK
  PROVE  Assistant \in [Call -> Block]
BY DEF TypeOK, Assistant

LEMMA FailType ==
  ASSUME TypeOK, FlowOK, pc # "idle", Fail
  PROVE  /\ pc' \in PC /\ outcome' = "error" /\ failed' \subseteq Msg
         /\ todo' \subseteq Call /\ batch' \subseteq Call /\ ranBatch' \subseteq Call
         /\ after' = "none" /\ pc' = "idle"
BY DEF TypeOK, FlowOK, Fail, PC

LEMMA InitType == Init => TypeOK /\ FlowOK
BY MaxItersAssumption, BoundsAssumption
   DEF Init, TypeOK, FlowOK, Iterating, Call, Msg, View, Kind, Block, NoBlock,
       CallState, ResultState, PC

LEMMA StartReplyType ==
  ASSUME FlowType, FlowOK, NEW n \in 0..MsgBound, NEW view \in [Call -> Block],
         StartReply(n, view)
  PROVE  FlowType' /\ FlowOK'
<1>1. mem' \in [View -> [Call -> Block]] /\ at' \in View
  BY DEF StartReply, FlowType, View
<1>2. /\ first' \in Nat /\ made' \in 0..CallBound /\ owner' \in [Call -> 0..MsgBound]
      /\ kind' \in [Call -> Kind]
      /\ todo' \subseteq Call /\ batch' \subseteq Call /\ ranBatch' \subseteq Call
      /\ after' \in {"none", "handle", "waiting", "after", "ended"}
  BY DEF StartReply, FlowType, calls, acting
<1>3. CASE Resumable(n, view)
  <2>1. /\ last' = n /\ replyID' = n /\ pc' = "top"
        /\ UNCHANGED <<replies, curIter, failed, outcome>>
    BY <1>3 DEF StartReply
  <2>2. n \in Msg
    BY <1>3 DEF Resumable, FlowType
  <2>. QED
    BY <1>1, <1>2, <2>1, <2>2 DEF FlowType, FlowOK, Iterating, PC
<1>4. CASE ~Resumable(n, view)
  <2>1. /\ n < MsgBound /\ last' = n + 1 /\ replyID' = n + 1
        /\ replies' = replies \cup {n + 1} /\ curIter' = 0
    BY <1>4 DEF StartReply
  <2>2. n + 1 \in Msg /\ n + 1 \in 0..MsgBound /\ 0 \in 0..MaxIters
    BY <2>1, BoundsAssumption, MaxItersAssumption DEF Msg
  <2>3. \/ pc' = "top" /\ failed' = failed /\ outcome' = outcome
        \/ pc' = "idle" /\ outcome' = "error" /\ failed' = failed \cup {n + 1}
    BY <1>4 DEF StartReply
  <2>. QED
    BY <1>1, <1>2, <2>1, <2>2, <2>3 DEF FlowType, FlowOK, Iterating, PC
<1>. QED  BY <1>3, <1>4

LEMMA InputType ==
  ASSUME TypeOK, FlowOK, Input
  PROVE  TypeOK' /\ FlowOK'
<1>. USE TypeParts
<1>0. /\ FlowType /\ HistoryType
      /\ mem["context"] \in [Call -> Block] /\ last \in 0..MsgBound
  BY DEF FlowType, View
<1>1. CASE ReplyNil
  <2>1. StartReply(last, mem["context"]) /\ UNCHANGED history
    BY <1>1 DEF ReplyNil
  <2>2. HistoryType'
    BY <1>0, <2>1 DEF HistoryType, history
  <2>. QED  BY <1>0, <2>1, <2>2, StartReplyType DEF TypeOK, FlowType, HistoryType
<1>2. CASE ReplyMessage
  <2>1. last + 1 \in 0..MsgBound
    BY <1>0, <1>2, BoundsAssumption DEF ReplyMessage
  <2>2. StartReply(last + 1, mem["context"]) /\ UNCHANGED history
    BY <1>2 DEF ReplyMessage
  <2>3. HistoryType'
    BY <1>0, <2>2 DEF HistoryType, history
  <2>. QED  BY <1>0, <2>1, <2>2, <2>3, StartReplyType DEF TypeOK, FlowType, HistoryType
<1>3. ASSUME NEW c \in Call, NEW yes \in BOOLEAN, ReplyConfirm(c, yes)
      PROVE  TypeOK' /\ FlowOK'
  <2>. DEFINE heard == owner[c] = last /\ mem["context"][c].st # "none"
              view  == IF heard THEN Confirmed(mem["context"], c, yes)
                                ELSE mem["context"]
  <2>1. view \in [Call -> Block]
    BY <1>0, ConfirmedType
  <2>2. /\ StartReply(last, view)
        /\ permitted' \subseteq permitted \cup {c}
        /\ questions' \subseteq questions
        /\ UNCHANGED <<ran, asked, sent, turns>>
    BY <1>3 DEF ReplyConfirm
  <2>3. HistoryType'
    BY <1>0, <2>2 DEF HistoryType
  <2>4. FlowType' /\ FlowOK'
    <3>. HIDE DEF view
    <3>. QED  BY <1>0, <2>1, <2>2, StartReplyType
  <2>. QED  BY <2>3, <2>4 DEF TypeOK, FlowType, HistoryType
<1>4. ASSUME NEW c \in Call, ReplyExternal(c)
      PROVE  TypeOK' /\ FlowOK'
  <2>. DEFINE view == IF owner[c] = last THEN Answered(mem["context"], c)
                                         ELSE mem["context"]
  <2>1. view \in [Call -> Block]
    BY <1>0, AnsweredType
  <2>2. /\ StartReply(last, view) /\ questions' \subseteq questions
        /\ UNCHANGED <<ran, permitted, asked, sent, turns>>
    BY <1>4 DEF ReplyExternal
  <2>3. HistoryType'
    BY <1>0, <2>2 DEF HistoryType
  <2>4. FlowType' /\ FlowOK'
    <3>. HIDE DEF view
    <3>. QED  BY <1>0, <2>1, <2>2, StartReplyType
  <2>. QED  BY <2>3, <2>4 DEF TypeOK, FlowType, HistoryType
<1>5. CASE ObserveMessage
  BY <1>0, <1>5, BoundsAssumption
     DEF ObserveMessage, TypeOK, FlowOK, Iterating, calls, blocks, loop, acting, history
<1>6. ASSUME NEW c \in Call, NEW yes \in BOOLEAN, ObserveConfirm(c, yes)
      PROVE  TypeOK' /\ FlowOK'
  <2>1. /\ mem' = [mem EXCEPT !["context"] = Confirmed(mem["context"], c, yes)]
        /\ permitted' \subseteq permitted \cup {c} /\ questions' \subseteq questions
        /\ UNCHANGED <<conversation, calls, at, loop, pc, acting, ran, asked, sent, turns,
                       failed, outcome>>
    BY <1>6 DEF ObserveConfirm
  <2>2. Confirmed(mem["context"], c, yes) \in [Call -> Block]
    BY <1>0, ConfirmedType
  <2>. QED
    BY <2>1, <2>2 DEF TypeOK, FlowOK, Iterating, conversation, calls, loop, acting, View
<1>7. ASSUME NEW c \in Call, ObserveExternal(c)
      PROVE  TypeOK' /\ FlowOK'
  <2>1. /\ mem' = [mem EXCEPT !["context"] = Answered(mem["context"], c)]
        /\ questions' \subseteq questions
        /\ UNCHANGED <<conversation, calls, at, loop, pc, acting, ran, permitted, asked, sent,
                       turns, failed, outcome>>
    BY <1>7 DEF ObserveExternal
  <2>2. Answered(mem["context"], c) \in [Call -> Block]
    BY <1>0, AnsweredType
  <2>. QED
    BY <2>1, <2>2 DEF TypeOK, FlowOK, Iterating, conversation, calls, loop, acting, history,
                      View
<1>. QED
  BY <1>1, <1>2, <1>3, <1>4, <1>5, <1>6, <1>7 DEF Input

-------------------------------------------------------------------------------
(* The steps of the flow keep the types.                                   *)

LEMMA CompactType ==
  ASSUME TypeOK, KeepContext \/ Compact
  PROVE  first' \in Nat /\ mem' \in [View -> [Call -> Block]] /\ at' \in View
<1>1. CASE KeepContext
  BY <1>1 DEF KeepContext, TypeOK
<1>2. CASE Compact
  <2>1. first' \in Nat
    BY <1>2 DEF Compact, ReserveStarts, TypeOK
  <2>2. at' \in View /\ mem' \in [View -> [Call -> Block]]
    BY <1>2 DEF Compact, TypeOK, View
  <2>. QED  BY <2>1, <2>2
<1>. QED  BY <1>1, <1>2

LEMMA TopType ==
  ASSUME TypeOK, FlowOK, Top
  PROVE  TypeOK' /\ FlowOK'
<1>. USE DEF Top
<1>1. CASE Fail
  BY <1>1, FailType, CompactType
     DEF TypeOK, FlowOK, Iterating, calls, loop, history, KeepContext
<1>2. CASE /\ KeepContext \/ Compact
           /\ todo' = Pending(replyID, Assistant)
           /\ pc' \in {"model", "single", "handle"}
           /\ UNCHANGED <<batch, ranBatch, after, failed, outcome>>
  <2>1. todo' \subseteq Call
    BY <1>2 DEF Pending
  <2>2. pc' \in PC /\ replyID \in Msg /\ curIter < MaxIters
    BY <1>2 DEF PC, FlowOK, MoreIterations
  <2>. QED
    BY <1>2, <2>1, <2>2, CompactType DEF TypeOK, FlowOK, calls, loop, history
<1>. QED  BY <1>1, <1>2

LEMMA ExceedType ==
  ASSUME TypeOK, FlowOK, Exceed
  PROVE  TypeOK' /\ FlowOK'
<1>1. outcome' \in {"exceeded", "error"} /\ failed' \subseteq Msg
  BY DEF Exceed, TypeOK, FlowOK
<1>2. pc' = "idle" /\ UNCHANGED <<conversation, calls, blocks, loop, acting, history>>
  BY DEF Exceed
<1>. QED
  BY <1>1, <1>2 DEF TypeOK, FlowOK, Iterating, PC, conversation, calls, blocks, loop,
                    acting, history

LEMMA ReasonType ==
  ASSUME TypeOK, FlowOK, NEW n \in 0..TurnCalls, NEW k \in [1..n -> Kinds], Reason(n, k)
  PROVE  TypeOK' /\ FlowOK'
<1>. DEFINE new  == (made + 1)..(made + n)
            view == [c \in Call |-> IF c \in new THEN [st |-> "pending", res |-> "none"]
                                                 ELSE Assistant[c]]
<1>. USE BoundsAssumption
<1>1. /\ made \in Nat /\ n \in Nat /\ made + n <= CallBound /\ made' = made + n
      /\ replyID \in Msg
  BY DEF Reason, TypeOK, FlowOK
<1>2. new \subseteq Call /\ made' \in 0..CallBound
  BY <1>1 DEF Call
<1>3. view \in [Call -> Block]
  BY AssistantType DEF Block, CallState, ResultState
<1>4. mem' \in [View -> [Call -> Block]]
  <2>1. Apply(view)
    BY DEF Reason
  <2>. QED  BY <1>3, <2>1, ApplyType
<1>5. owner' \in [Call -> 0..MsgBound]
  BY <1>1 DEF Reason, TypeOK, Msg
<1>6. kind' \in [Call -> Kind]
  <2>1. ASSUME NEW c \in Call, c \in new
        PROVE  k[c - made] \in Kind
    BY <1>1, <2>1, KindsAssumption
  <2>2. kind' = [c \in Call |-> IF c \in new THEN k[c - made] ELSE kind[c]]
    BY DEF Reason
  <2>. QED  BY <2>1, <2>2 DEF TypeOK
<1>7. turns' \in [Msg -> Nat]
  BY <1>1 DEF Reason, TypeOK
<1>8. /\ pc' \in PC /\ outcome' \in {outcome, "error"} /\ failed' \subseteq Msg
      /\ todo' \subseteq Call /\ after' \in {"ended", "none"}
      /\ pc' \notin {"flush", "settle"} /\ (pc' = "end" => after' = "ended")
      /\ UNCHANGED <<conversation, at, loop, batch, ranBatch, ran, permitted, asked,
                       questions, sent>>
  <2>1. /\ UNCHANGED <<conversation, at, loop, batch, ranBatch, ran, permitted, asked,
                       questions, sent>>
        /\ \E ok \in Success :
             /\ Continue(ok, IF n = 0 THEN "end" ELSE IF n = 1 THEN "single" ELSE "handle")
             /\ todo' = IF ok THEN new ELSE {}
             /\ after' = IF ok /\ n = 0 THEN "ended" ELSE "none"
    BY DEF Reason
  <2>2. PICK ok \in Success :
             /\ Continue(ok, IF n = 0 THEN "end" ELSE IF n = 1 THEN "single" ELSE "handle")
             /\ todo' = IF ok THEN new ELSE {}
             /\ after' = IF ok /\ n = 0 THEN "ended" ELSE "none"
    BY <2>1
  <2>. HIDE DEF new
  <2>3. CASE ok
    <3>1. /\ pc' \in {"end", "single", "handle"} /\ (pc' = "end" => n = 0)
          /\ UNCHANGED <<outcome, failed>>
      BY <1>1, <2>2, <2>3 DEF Continue
    <3>2. todo' = new /\ after' = IF n = 0 THEN "ended" ELSE "none"
      BY <2>2, <2>3
    <3>. QED  BY <1>2, <2>1, <3>1, <3>2 DEF PC, TypeOK
  <2>4. CASE ~ok
    <3>1. pc' = "idle" /\ outcome' = "error" /\ failed' = failed \cup {replyID}
      BY <2>2, <2>4 DEF Continue
    <3>2. todo' = {} /\ after' = "none"
      BY <2>2, <2>4
    <3>. QED  BY <1>1, <2>1, <3>1, <3>2 DEF PC, TypeOK
  <2>. QED  BY <2>3, <2>4
<1>9. curIter < MaxIters
  BY DEF Reason, FlowOK, Iterating
<1>. QED
  <2>. HIDE DEF new, view
  <2>. QED
    BY <1>1, <1>2, <1>4, <1>5, <1>6, <1>7, <1>8, <1>9
       DEF TypeOK, FlowOK, conversation, loop

LEMMA AfterActingType ==
  ASSUME TypeOK, FlowOK, AfterActing
  PROVE  TypeOK' /\ FlowOK'
<1>1. CASE Fail /\ KeepContext /\ UNCHANGED curIter
  BY <1>1, FailType, CompactType
     DEF AfterActing, TypeOK, FlowOK, Iterating, calls, history
<1>2. CASE /\ KeepContext \/ Compact
           /\ curIter' = curIter + 1 /\ pc' = "top"
           /\ UNCHANGED <<acting, failed, outcome>>
  <2>1. curIter + 1 \in 0..MaxIters
    BY MaxItersAssumption DEF AfterActing, TypeOK, FlowOK, Iterating
  <2>2. UNCHANGED <<last, replies, calls, replyID, history>> /\ replyID \in Msg
    BY DEF AfterActing, FlowOK
  <2>. QED
    BY <1>2, <2>1, <2>2, CompactType
       DEF TypeOK, FlowOK, Iterating, PC, calls, acting, history
<1>. QED  BY <1>1, <1>2 DEF AfterActing

LEMMA EndType ==
  ASSUME TypeOK, FlowOK, End
  PROVE  TypeOK' /\ FlowOK'
<1>1. failed' \subseteq Msg
  BY DEF End, TypeOK, FlowOK
<1>. QED
  BY <1>1 DEF End, TypeOK, FlowOK, Iterating, PC, conversation, calls, blocks, loop, history

\* What every step of runActing leaves alone.
ActFrame == UNCHANGED <<conversation, calls, at, loop, turns>>

LEMMA ActTypeFrame ==
  ASSUME TypeOK, FlowOK, pc \in Iterating, ActFrame,
         mem' \in [View -> [Call -> Block]],
         ran' \in [Call -> Nat],
         permitted' \subseteq Call, asked' \subseteq Call, questions' \subseteq Call,
         sent' \subseteq Call,
         pc' \in PC, todo' \subseteq Call, batch' \subseteq Call, ranBatch' \subseteq Call,
         after' \in {"none", "handle", "waiting", "after", "ended"},
         pc' \in {"flush", "settle"} => after' \in {"handle", "waiting", "after"},
         pc' = "end" => after' \in {"ended", "waiting"},
         failed' \subseteq Msg,
         outcome' \in {outcome, "error"}
  PROVE  TypeOK' /\ FlowOK'
BY DEF ActFrame, TypeOK, FlowOK, Iterating, conversation, calls, loop

LEMMA HandledType ==
  ASSUME TypeOK, NEW c \in Call, Handled(c)
  PROVE  /\ pc' = "handle" /\ todo' \subseteq Call /\ batch' \subseteq Call
         /\ ranBatch' \subseteq Call /\ UNCHANGED <<after, failed, outcome>>
BY DEF Handled, TypeOK

LEMMA WaitType ==
  ASSUME TypeOK, NEW c \in Call, Wait(c)
  PROVE  /\ pc' \in {"end", "flush"} /\ after' = "waiting"
         /\ todo' \subseteq Call /\ batch' \subseteq Call /\ ranBatch' \subseteq Call
         /\ UNCHANGED <<failed, outcome>>
BY DEF Wait, TypeOK

LEMMA ToolErrorType ==
  ASSUME TypeOK, FlowOK, pc \in Iterating, NEW c \in Call, NEW how \in {"done", "denied"},
         ToolError(c, how), ActFrame,
         UNCHANGED <<ran, permitted, asked, questions, sent>>
  PROVE  TypeOK' /\ FlowOK'
<1>0. Assistant \in [Call -> Block] /\ pc # "idle"
  BY AssistantType DEF Iterating
<1>1. CASE Handled(c) /\ Apply([Assistant EXCEPT ![c] = [st |-> "finished", res |-> how]])
  <2>1. mem' \in [View -> [Call -> Block]]
    <3>1. [Assistant EXCEPT ![c] = [st |-> "finished", res |-> how]] \in [Call -> Block]
      BY <1>0, BlocksType DEF CallState, ResultState
    <3>. QED  BY <1>1, <3>1, ApplyType
  <2>2. /\ pc' = "handle" /\ todo' \subseteq Call /\ batch' \subseteq Call
        /\ ranBatch' \subseteq Call /\ UNCHANGED <<after, failed, outcome>>
    BY <1>1, HandledType
  <2>3. FlowType /\ HistoryType
    BY TypeParts
  <2>. QED  BY <2>1, <2>2, <2>3, ActTypeFrame DEF FlowType, HistoryType, PC
<1>2. CASE /\ Fail
           /\ \E res \in {"running", how} :
                Apply([Assistant EXCEPT ![c] =
                  [st |-> IF res = how \/ how = "denied" THEN "finished" ELSE @.st,
                   res |-> res]])
  <2>1. mem' \in [View -> [Call -> Block]]
    <3>1. PICK res \in {"running", how} :
            Apply([Assistant EXCEPT ![c] =
                  [st |-> IF res = how \/ how = "denied" THEN "finished"
                          ELSE Assistant[c].st,
                   res |-> res]])
      BY <1>2
    <3>2. /\ (IF res = how \/ how = "denied" THEN "finished" ELSE Assistant[c].st)
               \in CallState
          /\ res \in ResultState
      BY <1>0 DEF Block, CallState, ResultState
    <3>. QED  BY <1>0, <3>1, <3>2, BlocksType, ApplyType
  <2>2. /\ pc' = "idle" /\ todo' \subseteq Call /\ batch' \subseteq Call
        /\ ranBatch' \subseteq Call /\ after' = "none" /\ failed' \subseteq Msg
        /\ outcome' = "error"
    BY <1>0, <1>2, FailType
  <2>3. FlowType /\ HistoryType
    BY TypeParts
  <2>. QED  BY <2>1, <2>2, <2>3, ActTypeFrame DEF FlowType, HistoryType, PC
<1>. QED  BY <1>1, <1>2 DEF ToolError

LEMMA FailTypeFrame ==
  ASSUME TypeOK, FlowOK, pc \in Iterating, Fail, ActFrame,
         mem' \in [View -> [Call -> Block]], ran' \in [Call -> Nat],
         permitted' \subseteq Call, asked' \subseteq Call, questions' \subseteq Call,
         sent' \subseteq Call
  PROVE  TypeOK' /\ FlowOK'
<1>1. pc # "idle"
  BY DEF Iterating
<1>2. /\ pc' = "idle" /\ todo' \subseteq Call /\ batch' \subseteq Call
      /\ ranBatch' \subseteq Call /\ after' = "none" /\ failed' \subseteq Msg
      /\ outcome' = "error"
  BY <1>1, FailType
<1>. QED  BY <1>2, ActTypeFrame DEF PC

LEMMA WaitTypeFrame ==
  ASSUME TypeOK, FlowOK, pc \in Iterating, NEW c \in Call, Wait(c), ActFrame,
         mem' \in [View -> [Call -> Block]], ran' \in [Call -> Nat],
         permitted' \subseteq Call, asked' \subseteq Call, questions' \subseteq Call,
         sent' \subseteq Call
  PROVE  TypeOK' /\ FlowOK'
<1>1. /\ pc' \in {"end", "flush"} /\ after' = "waiting"
      /\ todo' \subseteq Call /\ batch' \subseteq Call /\ ranBatch' \subseteq Call
      /\ UNCHANGED <<failed, outcome>>
  BY WaitType
<1>2. FlowType
  BY TypeParts
<1>. QED  BY <1>1, <1>2, ActTypeFrame DEF PC, FlowType

\* The blocks of call c after a step that gives it a state and a result.
LEMMA ApplyBlockType ==
  ASSUME TypeOK, NEW c \in Call, NEW s \in CallState, NEW r \in ResultState,
         Apply([Assistant EXCEPT ![c] = [st |-> s, res |-> r]])
  PROVE  mem' \in [View -> [Call -> Block]]
BY AssistantType, BlocksType, ApplyType

LEMMA HandlingIterating ==
  ASSUME NEW c \in Call, Handling(c)
  PROVE  pc \in Iterating /\ pc \in {"handle", "single"} /\ c \in todo
BY DEF Handling, Iterating, IsFirst

LEMMA HandleUncallableType ==
  ASSUME TypeOK, FlowOK, NEW c \in Call, HandleUncallable(c)
  PROVE  TypeOK' /\ FlowOK'
BY HandlingIterating, ToolErrorType DEF HandleUncallable, ActFrame, history

LEMMA HandleDeniedType ==
  ASSUME TypeOK, FlowOK, NEW c \in Call, HandleDenied(c)
  PROVE  TypeOK' /\ FlowOK'
BY HandlingIterating, ToolErrorType DEF HandleDenied, ActFrame, history

LEMMA EngineErrorType ==
  ASSUME TypeOK, FlowOK, NEW c \in Call, EngineError(c)
  PROVE  TypeOK' /\ FlowOK'
<1>1. mem' \in [View -> [Call -> Block]] /\ ActFrame /\ HistoryType' /\ Fail
  BY TypeParts DEF EngineError, ActFrame, history, blocks, HistoryType, FlowType
<1>. QED  BY <1>1, HandlingIterating, FailTypeFrame DEF EngineError, HistoryType

LEMMA FlushBeforeType ==
  ASSUME TypeOK, FlowOK, NEW c \in Call, FlushBefore(c)
  PROVE  TypeOK' /\ FlowOK'
BY DEF FlushBefore, TypeOK, FlowOK, Iterating, PC, conversation, calls, blocks, loop, history

LEMMA AllHandledType ==
  ASSUME TypeOK, FlowOK, AllHandled
  PROVE  TypeOK' /\ FlowOK'
BY DEF AllHandled, TypeOK, FlowOK, Iterating, PC, conversation, calls, blocks, loop, history

LEMMA HandleAskType ==
  ASSUME TypeOK, FlowOK, NEW c \in Call, HandleAsk(c)
  PROVE  TypeOK' /\ FlowOK'
<1>1. pc \in Iterating /\ ActFrame
  BY HandlingIterating DEF HandleAsk, ActFrame
<1>2. mem' \in [View -> [Call -> Block]]
  <2>1. [Assistant EXCEPT ![c].st = "asking"] \in [Call -> Block]
    BY AssistantType, BlocksType DEF CallState
  <2>. QED  BY <2>1, ApplyType DEF HandleAsk
<1>3. HistoryType'
  BY TypeParts DEF HandleAsk, HistoryType
<1>. QED
  BY <1>1, <1>2, <1>3, WaitTypeFrame, FailTypeFrame DEF HandleAsk, HistoryType

LEMMA PermitType ==
  ASSUME TypeOK, NEW c \in Call, Permit(c)
  PROVE  permitted' \subseteq Call /\ pc \in Iterating
BY HandlingIterating DEF Permit, TypeOK

LEMMA HandleExternalType ==
  ASSUME TypeOK, FlowOK, NEW c \in Call, HandleExternal(c)
  PROVE  TypeOK' /\ FlowOK'
<1>1. pc \in Iterating /\ ActFrame /\ permitted' \subseteq Call
  BY PermitType DEF HandleExternal, ActFrame
<1>2. /\ ran' \in [Call -> Nat] /\ asked' \subseteq Call /\ questions' \subseteq Call
      /\ sent' \subseteq Call
  BY TypeParts DEF HandleExternal, HistoryType
<1>3. mem' \in [View -> [Call -> Block]]
  BY ApplyBlockType DEF HandleExternal, CallState, ResultState
<1>. QED
  BY <1>1, <1>2, <1>3, WaitTypeFrame, FailTypeFrame DEF HandleExternal

LEMMA HandleLocalType ==
  ASSUME TypeOK, FlowOK, NEW c \in Call, HandleLocal(c)
  PROVE  TypeOK' /\ FlowOK'
<1>1. pc \in Iterating /\ ActFrame /\ permitted' \subseteq Call
  BY PermitType DEF HandleLocal, ActFrame
<1>2. /\ ran' \in [Call -> Nat] /\ asked' \subseteq Call /\ questions' \subseteq Call
      /\ sent' \subseteq Call
  BY TypeParts DEF HandleLocal, HistoryType
<1>3. mem' \in [View -> [Call -> Block]]
  BY ApplyBlockType DEF HandleLocal, CallState, ResultState
<1>4. CASE Fail
  BY <1>1, <1>2, <1>3, <1>4, FailTypeFrame
<1>5. CASE /\ pc' \in {pc, "exec"} /\ todo' \subseteq todo /\ batch' \subseteq batch \cup {c}
           /\ UNCHANGED <<ranBatch, after, failed, outcome>>
  <2>1. FlowType /\ pc \in {"handle", "single"}
    BY TypeParts, HandlingIterating DEF HandleLocal, Permit
  <2>. QED  BY <1>1, <1>2, <1>3, <1>5, <2>1, ActTypeFrame DEF PC, FlowType
<1>. QED  BY <1>4, <1>5 DEF HandleLocal, acting

LEMMA ExecType ==
  ASSUME TypeOK, FlowOK, NEW c \in Call, Exec(c)
  PROVE  TypeOK' /\ FlowOK'
<1>1. pc \in Iterating /\ ActFrame
  BY DEF Exec, ActFrame, Iterating
<1>2. ran' \in [Call -> Nat] /\ permitted' \subseteq Call /\ asked' \subseteq Call
      /\ questions' \subseteq Call /\ sent' \subseteq Call
  BY TypeParts DEF Exec, HistoryType
<1>3. mem' \in [View -> [Call -> Block]]
  <2>1. mem' = mem \/ Apply([Assistant EXCEPT ![c] = [st |-> "finished", res |-> "done"]])
    BY DEF Exec
  <2>. QED  BY <2>1, ApplyBlockType DEF TypeOK, CallState, ResultState
<1>4. CASE Fail
  BY <1>1, <1>2, <1>3, <1>4, FailTypeFrame
<1>5. CASE Handled(c)
  <2>1. FlowType
    BY TypeParts
  <2>. QED  BY <1>1, <1>2, <1>3, <1>5, <2>1, HandledType, ActTypeFrame DEF PC, FlowType
<1>. QED  BY <1>4, <1>5 DEF Exec

LEMMA RunBatchedType ==
  ASSUME TypeOK, FlowOK, NEW c \in Call, RunBatched(c)
  PROVE  TypeOK' /\ FlowOK'
<1>1. pc \in Iterating /\ ActFrame
  BY DEF RunBatched, ActFrame, Iterating, blocks
<1>2. ran' \in [Call -> Nat] /\ permitted' \subseteq Call /\ asked' \subseteq Call
      /\ questions' \subseteq Call /\ sent' \subseteq Call
  BY TypeParts DEF RunBatched, HistoryType
<1>3. FlowType /\ after \in {"handle", "waiting", "after"}
  BY TypeParts DEF RunBatched, FlowOK
<1>. QED
  BY <1>1, <1>2, <1>3, ActTypeFrame DEF RunBatched, blocks, PC, FlowType

LEMMA SettleType ==
  ASSUME TypeOK, FlowOK, NEW c \in Call, Settle(c)
  PROVE  TypeOK' /\ FlowOK'
<1>1. pc \in Iterating /\ ActFrame
  BY DEF Settle, ActFrame, Iterating, history
<1>2. ran' \in [Call -> Nat] /\ permitted' \subseteq Call /\ asked' \subseteq Call
      /\ questions' \subseteq Call /\ sent' \subseteq Call
  BY TypeParts DEF Settle, HistoryType, history
<1>3. mem' \in [View -> [Call -> Block]]
  <2>1. mem' = mem \/ Apply([Assistant EXCEPT ![c] = [st |-> "finished", res |-> "done"]])
    BY DEF Settle
  <2>. QED  BY <2>1, ApplyBlockType DEF TypeOK, CallState, ResultState
<1>4. CASE Fail
  BY <1>1, <1>2, <1>3, <1>4, FailTypeFrame
<1>5. CASE /\ batch' = batch \ {c} /\ ranBatch' = ranBatch \ {c}
           /\ pc' = IF batch' # {} THEN "settle"
                    ELSE IF after = "waiting" THEN "end" ELSE after
           /\ UNCHANGED <<todo, after, failed, outcome>>
  <2>1. FlowType /\ after \in {"handle", "waiting", "after"}
    BY TypeParts DEF Settle, FlowOK
  <2>2. /\ pc' \in PC
        /\ pc' \in {"flush", "settle"} => after' \in {"handle", "waiting", "after"}
        /\ pc' = "end" => after' \in {"ended", "waiting"}
    BY <1>5, <2>1 DEF PC
  <2>. QED  BY <1>1, <1>2, <1>3, <1>5, <2>1, <2>2, ActTypeFrame DEF FlowType
<1>. QED  BY <1>4, <1>5 DEF Settle

\* Every step, and so every behaviour, keeps the types.
LEMMA NextType ==
  ASSUME TypeOK, FlowOK, [Next]_vars
  PROVE  TypeOK' /\ FlowOK'
<1>1. CASE Input
  BY <1>1, InputType
<1>2. CASE Flow
  <2>1. ASSUME NEW c \in Call, Act(c)
        PROVE  TypeOK' /\ FlowOK'
    BY <2>1, FlushBeforeType, HandleUncallableType, EngineErrorType, HandleDeniedType,
       HandleAskType, HandleExternalType, HandleLocalType, ExecType, RunBatchedType,
       SettleType DEF Act
  <2>. QED
    BY <1>2, <2>1, TopType, ExceedType, ReasonType, AllHandledType, AfterActingType, EndType
       DEF Flow
<1>3. CASE UNCHANGED vars
  BY <1>3 DEF vars, conversation, calls, blocks, loop, acting, history, TypeOK, FlowOK
<1>. QED  BY <1>1, <1>2, <1>3 DEF Next

\* Every variable keeps its type: in particular the reply flow is always at a
\* known step (continueReply, runActing, toolBatchRunner.flush).
THEOREM TypeCorrect == Spec => []TypeOK
<1>1. Init => TypeOK /\ FlowOK
  BY InitType
<1>2. TypeOK /\ FlowOK /\ [Next]_vars => (TypeOK /\ FlowOK)'
  BY NextType
<1>. QED  BY <1>1, <1>2, PTL DEF Spec

-------------------------------------------------------------------------------
\* Where runActing is at work.
Acting == {"handle", "single", "exec", "flush", "settle"}

\* How the conversation, the reply in hand and the work of runActing relate:
\* the newest reply is the only one that can be resumed, a running reply is
\* the last message, and the batch is empty wherever a reply may stop.
ShapeOK ==
  /\ replies \subseteq 1..replyID /\ replyID <= last
  /\ pc # "idle" => replyID = last
  /\ \A c \in Call : owner[c] <= last /\ (c > made => owner[c] = 0)
  /\ \A c \in asked : c <= made
  /\ pc \in Acting => \A c \in todo : owner[c] = replyID /\ c <= made
  /\ pc \notin {"handle", "flush", "settle"} => batch = {}

\* A call that may run without asking again is permitted: in the context as
\* long as its message is the last one, in the running loop's message always.
PermitOK ==
  /\ \A c \in Call : owner[c] = last /\ mem["context"][c].st = "allowed" => c \in permitted
  /\ \A c \in Call : mem["context"][c].st = "allowed" => c <= made
  /\ pc # "idle" =>
       \A c \in Call : owner[c] = replyID /\ Assistant[c].st = "allowed" => c \in permitted
  /\ batch \subseteq permitted
  /\ pc = "exec" => \A c \in Call : IsFirst(c, todo) => c \in permitted

\* The model has been called at most once more than iterations were counted,
\* and then calls are left to act on before it may be called again.
IterOK ==
  /\ \A m \in Msg : m \notin replies => turns[m] = 0
  /\ replyID \in Msg =>
       /\ replyID \in replies
       /\ turns[replyID] <= curIter + 1
       /\ pc = "model" => turns[replyID] <= curIter
       /\ pc = "top" => turns[replyID] <= curIter \/ Pending(replyID, Assistant) # {}
  /\ \A m \in Msg : turns[m] <= MaxIters

SafeOK == ShapeOK /\ PermitOK /\ IterOK

LEMMA InitSafe == Init => SafeOK
BY MaxItersAssumption, BoundsAssumption
   DEF Init, SafeOK, ShapeOK, PermitOK, IterOK, Msg, Call, View, NoBlock, Assistant

-------------------------------------------------------------------------------
(* The steps of runActing.                                                 *)

\* A step that gives the assistant message new blocks, none of them newly
\* allowed without a permission.
NoNewGrant ==
  /\ at # "context" => mem'["context"] = mem["context"]
  /\ \A d \in Call :
       Assistant'[d].st = "allowed" =>
         Assistant[d].st = "allowed" \/ (d \in permitted' /\ d <= made)

LEMMA ApplyBlock ==
  ASSUME TypeOK, NEW c \in Call, NEW s \in CallState, NEW r \in ResultState,
         Apply([Assistant EXCEPT ![c] = [st |-> s, res |-> r]]),
         at' = at, s = "allowed" => c \in permitted' /\ c <= made
  PROVE  NoNewGrant
<1>1. Assistant' = [Assistant EXCEPT ![c] = [st |-> s, res |-> r]]
  BY DEF Apply, Assistant, TypeOK
<1>2. at # "context" => mem'["context"] = mem["context"]
  BY DEF Apply, TypeOK, View
<1>. QED  BY <1>1, <1>2, AssistantType DEF NoNewGrant

LEMMA SameBlocks ==
  ASSUME UNCHANGED mem, at' = at
  PROVE  NoNewGrant
BY DEF NoNewGrant, Assistant

\* What a step of runActing has to keep for the invariants to hold after it.
LEMMA ActSafe ==
  ASSUME TypeOK, SafeOK, pc \in Acting, ActFrame, NoNewGrant,
         permitted \subseteq permitted', asked' \subseteq asked \cup todo, todo' \subseteq todo,
         batch' \subseteq permitted',
         pc' \notin {"handle", "flush", "settle"} => batch' = {},
         pc' \notin {"top", "model"},
         pc' = "exec" => \A c \in Call : IsFirst(c, todo') => c \in permitted'
  PROVE  SafeOK'
<1>1. pc # "idle" /\ replyID = last
  BY DEF SafeOK, ShapeOK, Acting
<1>2. ShapeOK'
  BY <1>1 DEF SafeOK, ShapeOK, ActFrame, conversation, calls, loop
<1>3. IterOK'
  BY DEF SafeOK, IterOK, ActFrame, conversation, loop
<1>4. PermitOK'
  <2>1. ASSUME NEW c \in Call, owner[c] = last, Assistant'[c].st = "allowed"
        PROVE  c \in permitted'
    BY <1>1, <2>1 DEF SafeOK, PermitOK, NoNewGrant
  <2>2. ASSUME NEW c \in Call, owner[c] = last, mem'["context"][c].st = "allowed"
        PROVE  c \in permitted'
    <3>1. CASE at = "context"
      BY <2>1, <2>2, <3>1 DEF Assistant, ActFrame
    <3>2. CASE at # "context"
      BY <2>2, <3>2 DEF SafeOK, PermitOK, NoNewGrant
    <3>. QED  BY <3>1, <3>2
  <2>3. ASSUME NEW c \in Call, mem'["context"][c].st = "allowed"
        PROVE  c <= made
    BY <2>3 DEF SafeOK, PermitOK, NoNewGrant, Assistant, ActFrame
  <2>. QED
    BY <1>1, <2>1, <2>2, <2>3 DEF PermitOK, ActFrame, conversation, calls, loop
<1>. QED  BY <1>2, <1>3, <1>4 DEF SafeOK

LEMMA FailSafe ==
  ASSUME TypeOK, SafeOK, pc \in Acting, ActFrame, NoNewGrant,
         permitted \subseteq permitted', asked' \subseteq asked \cup todo, Fail
  PROVE  SafeOK'
BY ActSafe DEF Fail

LEMMA WaitSafe ==
  ASSUME TypeOK, SafeOK, pc \in {"handle", "single"}, ActFrame, NoNewGrant,
         permitted \subseteq permitted', asked' \subseteq asked \cup todo,
         NEW c \in Call, Wait(c)
  PROVE  SafeOK'
BY ActSafe DEF Wait, Acting, SafeOK, PermitOK

LEMMA ToolErrorSafe ==
  ASSUME TypeOK, SafeOK, pc \in {"handle", "single"}, ActFrame,
         UNCHANGED <<permitted, asked>>, NEW c \in Call, NEW how \in {"done", "denied"},
         ToolError(c, how)
  PROVE  SafeOK'
<1>1. CASE Handled(c) /\ Apply([Assistant EXCEPT ![c] = [st |-> "finished", res |-> how]])
  <2>1. NoNewGrant
    BY <1>1, ApplyBlock DEF ActFrame, CallState, ResultState
  <2>2. /\ pc' = "handle" /\ todo' \subseteq todo /\ batch' = batch
    BY <1>1 DEF Handled
  <2>. QED  BY <2>1, <2>2, ActSafe DEF Acting, SafeOK, PermitOK
<1>2. CASE /\ Fail
           /\ \E res \in {"running", how} :
                Apply([Assistant EXCEPT ![c] =
                  [st |-> IF res = how \/ how = "denied" THEN "finished" ELSE @.st,
                   res |-> res]])
  <2>1. PICK res \in {"running", how} :
            Apply([Assistant EXCEPT ![c] =
                  [st |-> IF res = how \/ how = "denied" THEN "finished"
                          ELSE Assistant[c].st,
                   res |-> res]])
    BY <1>2
  <2>2. /\ at # "context" => mem'["context"] = mem["context"]
        /\ Assistant' = [Assistant EXCEPT ![c] =
                  [st |-> IF res = how \/ how = "denied" THEN "finished"
                          ELSE Assistant[c].st,
                   res |-> res]]
    BY <2>1 DEF Apply, Assistant, TypeOK, View, ActFrame
  <2>3. NoNewGrant
    BY <2>2, AssistantType DEF NoNewGrant
  <2>. QED  BY <1>2, <2>3, FailSafe DEF Acting
<1>. QED  BY <1>1, <1>2 DEF ToolError

LEMMA HandlingSafe ==
  ASSUME SafeOK, NEW c \in Call, Handling(c)
  PROVE  /\ pc \in {"handle", "single"} /\ c \in todo /\ owner[c] = replyID /\ c <= made
         /\ pc \in Acting /\ replyID = last
BY HandlingIterating DEF SafeOK, ShapeOK, Acting

LEMMA PermitSafe ==
  ASSUME SafeOK, NEW c \in Call, Permit(c)
  PROVE  /\ permitted \subseteq permitted' /\ c \in permitted' /\ c <= made
         /\ pc \in {"handle", "single"}
<1>1. Handling(c)
  BY DEF Permit
<1>2. pc # "idle" /\ owner[c] = replyID /\ c <= made /\ pc \in {"handle", "single"}
  BY <1>1, HandlingSafe
<1>3. ~NeedsCheck(c) => c \in permitted
  BY <1>2 DEF NeedsCheck, SafeOK, PermitOK
<1>. QED  BY <1>2, <1>3 DEF Permit

LEMMA FlushBeforeSafe ==
  ASSUME TypeOK, SafeOK, NEW c \in Call, FlushBefore(c)
  PROVE  SafeOK'
<1>1. ActFrame /\ NoNewGrant /\ pc \in Acting
  BY SameBlocks DEF FlushBefore, ActFrame, blocks, history, Acting
<1>. QED  BY <1>1, ActSafe DEF FlushBefore, SafeOK, PermitOK, history

LEMMA HandleUncallableSafe ==
  ASSUME TypeOK, SafeOK, NEW c \in Call, HandleUncallable(c)
  PROVE  SafeOK'
BY HandlingSafe, ToolErrorSafe DEF HandleUncallable, ActFrame, history

LEMMA HandleDeniedSafe ==
  ASSUME TypeOK, SafeOK, NEW c \in Call, HandleDenied(c)
  PROVE  SafeOK'
BY HandlingSafe, ToolErrorSafe DEF HandleDenied, ActFrame, history

LEMMA EngineErrorSafe ==
  ASSUME TypeOK, SafeOK, NEW c \in Call, EngineError(c)
  PROVE  SafeOK'
<1>1. ActFrame /\ NoNewGrant
  BY SameBlocks DEF EngineError, ActFrame, blocks, history
<1>. QED  BY <1>1, HandlingSafe, FailSafe DEF EngineError, history

LEMMA HandleAskSafe ==
  ASSUME TypeOK, SafeOK, NEW c \in Call, HandleAsk(c)
  PROVE  SafeOK'
<1>1. ActFrame /\ Handling(c) /\ UNCHANGED permitted
  BY DEF HandleAsk, ActFrame
<1>2. NoNewGrant
  <2>1. /\ Assistant' = [Assistant EXCEPT ![c].st = "asking"]
        /\ at # "context" => mem'["context"] = mem["context"]
    BY DEF HandleAsk, Apply, Assistant, TypeOK, View
  <2>. QED  BY <2>1, AssistantType DEF NoNewGrant
<1>. QED  BY <1>1, <1>2, HandlingSafe, WaitSafe, FailSafe DEF HandleAsk

LEMMA HandleExternalSafe ==
  ASSUME TypeOK, SafeOK, NEW c \in Call, HandleExternal(c)
  PROVE  SafeOK'
<1>1. /\ permitted \subseteq permitted' /\ c \in permitted' /\ c <= made
      /\ pc \in {"handle", "single"} /\ ActFrame
  BY PermitSafe DEF HandleExternal, ActFrame
<1>2. NoNewGrant
  BY <1>1, ApplyBlock DEF HandleExternal, CallState, ResultState
<1>. QED  BY <1>1, <1>2, WaitSafe, FailSafe DEF HandleExternal, Acting

LEMMA HandleLocalSafe ==
  ASSUME TypeOK, SafeOK, NEW c \in Call, HandleLocal(c)
  PROVE  SafeOK'
<1>1. /\ permitted \subseteq permitted' /\ c \in permitted' /\ c <= made
      /\ pc \in {"handle", "single"} /\ ActFrame /\ UNCHANGED asked
  BY PermitSafe DEF HandleLocal, ActFrame
<1>2. NoNewGrant
  BY <1>1, ApplyBlock DEF HandleLocal, CallState, ResultState
<1>3. CASE JoinsBatch(c) /\ batch' = batch \cup {c} /\ todo' = todo \ {c}
           /\ UNCHANGED <<pc, ranBatch, after, failed, outcome>>
  <2>1. pc = "handle" /\ batch' \subseteq permitted'
    BY <1>1, <1>3 DEF JoinsBatch, SafeOK, PermitOK
  <2>. QED  BY <1>1, <1>2, <1>3, <2>1, ActSafe DEF Acting
<1>4. CASE ~JoinsBatch(c) /\ pc' = "exec" /\ UNCHANGED <<acting, failed, outcome>>
  <2>1. IsFirst(c, todo) /\ todo' = todo /\ batch' = batch /\ todo \subseteq Call
    BY <1>4 DEF HandleLocal, Permit, Handling, acting, TypeOK
  <2>2. batch = {}
    BY <1>1, <1>4 DEF HandleLocal, Permit, Handling, JoinsBatch, SafeOK, ShapeOK
  <2>3. \A d \in Call : IsFirst(d, todo') => d = c
    BY <2>1 DEF IsFirst, Call
  <2>. QED  BY <1>1, <1>2, <1>4, <2>1, <2>2, <2>3, ActSafe DEF Acting
<1>5. CASE Fail
  BY <1>1, <1>2, <1>5, FailSafe DEF Acting
<1>. QED  BY <1>3, <1>4, <1>5 DEF HandleLocal

LEMMA ExecSafe ==
  ASSUME TypeOK, SafeOK, NEW c \in Call, Exec(c)
  PROVE  SafeOK'
<1>1. ActFrame /\ UNCHANGED <<permitted, asked>> /\ pc \in Acting /\ batch = {}
  BY DEF Exec, ActFrame, Acting, SafeOK, ShapeOK
<1>2. NoNewGrant
  BY <1>1, ApplyBlock, SameBlocks DEF Exec, CallState, ResultState
<1>3. CASE Fail
  BY <1>1, <1>2, <1>3, FailSafe
<1>4. CASE Handled(c)
  BY <1>1, <1>2, <1>4, ActSafe DEF Handled
<1>. QED  BY <1>3, <1>4 DEF Exec

LEMMA AllHandledSafe ==
  ASSUME TypeOK, SafeOK, AllHandled
  PROVE  SafeOK'
<1>1. ActFrame /\ NoNewGrant /\ pc \in Acting
  BY SameBlocks DEF AllHandled, ActFrame, blocks, history, Acting
<1>. QED  BY <1>1, ActSafe DEF AllHandled, SafeOK, PermitOK, history

LEMMA RunBatchedSafe ==
  ASSUME TypeOK, SafeOK, NEW c \in Call, RunBatched(c)
  PROVE  SafeOK'
<1>1. ActFrame /\ NoNewGrant /\ pc \in Acting
  BY SameBlocks DEF RunBatched, ActFrame, blocks, Acting
<1>. QED  BY <1>1, ActSafe DEF RunBatched, SafeOK, PermitOK

LEMMA SettleSafe ==
  ASSUME TypeOK, FlowOK, SafeOK, NEW c \in Call, Settle(c)
  PROVE  SafeOK'
<1>1. /\ ActFrame /\ UNCHANGED <<permitted, asked>> /\ pc \in Acting
      /\ after \in {"handle", "waiting", "after"}
  BY DEF Settle, ActFrame, Acting, history, FlowOK
<1>2. NoNewGrant
  BY <1>1, ApplyBlock, SameBlocks DEF Settle, CallState, ResultState
<1>3. CASE Fail
  BY <1>1, <1>2, <1>3, FailSafe
<1>4. CASE /\ batch' = batch \ {c}
           /\ pc' = IF batch' # {} THEN "settle"
                    ELSE IF after = "waiting" THEN "end" ELSE after
           /\ UNCHANGED todo
  BY <1>1, <1>2, <1>4, ActSafe DEF SafeOK, PermitOK
<1>. QED  BY <1>3, <1>4 DEF Settle

-------------------------------------------------------------------------------
(* The steps of continueReply.                                             *)

LEMMA CompactSafe ==
  ASSUME TypeOK, KeepContext \/ Compact
  PROVE  Assistant' = Assistant /\ mem'["context"] = mem["context"]
<1>1. CASE KeepContext
  BY <1>1 DEF KeepContext, Assistant
<1>2. CASE Compact
  BY <1>2 DEF Compact, Assistant, TypeOK, View
<1>. QED  BY <1>1, <1>2

\* A step of continueReply that calls neither the model nor a tool.
LEMMA StepSafe ==
  ASSUME TypeOK, SafeOK, pc # "idle", Assistant' = Assistant,
         mem'["context"] = mem["context"],
         UNCHANGED <<last, replies, calls, replyID, turns, permitted, asked>>,
         batch' = {},
         pc' \in Acting => \A c \in todo' : c \in Call /\ owner[c] = replyID /\ c <= made,
         pc' \notin {"exec"},
         replyID \in Msg => /\ turns[replyID] <= curIter' + 1
                            /\ pc' = "model" => turns[replyID] <= curIter'
                            /\ pc' = "top" => turns[replyID] <= curIter'
  PROVE  SafeOK'
<1>1. ShapeOK'
  BY DEF SafeOK, ShapeOK, calls
<1>2. PermitOK'
  BY DEF SafeOK, PermitOK, calls
<1>3. IterOK'
  BY DEF SafeOK, IterOK
<1>. QED  BY <1>1, <1>2, <1>3 DEF SafeOK

LEMMA TopSafe ==
  ASSUME TypeOK, FlowOK, SafeOK, Top
  PROVE  SafeOK'
<1>1. /\ pc # "idle" /\ Assistant' = Assistant /\ mem'["context"] = mem["context"]
      /\ UNCHANGED <<last, replies, calls, replyID, curIter, turns, permitted, asked>>
  BY CompactSafe DEF Top, loop, history
<1>2. batch' = {} /\ batch = {}
  BY DEF Top, Fail, SafeOK, ShapeOK
<1>3. \A c \in todo' : c \in Call /\ owner[c] = replyID /\ c <= made
  <2>1. \A c \in todo' : c \in Call /\ owner[c] = replyID
    BY DEF Top, Fail, Pending
  <2>2. replyID # 0
    BY <1>1 DEF FlowOK, Msg
  <2>3. \A c \in Call : c <= made \/ c > made
    BY DEF TypeOK, Call
  <2>. QED  BY <2>1, <2>2, <2>3 DEF SafeOK, ShapeOK
<1>4. pc' \in {"idle", "model", "single", "handle"}
  BY DEF Top, Fail
<1>5. ASSUME replyID \in Msg
      PROVE  /\ turns[replyID] <= curIter + 1
             /\ pc' = "model" => turns[replyID] <= curIter
  <2>1. pc' = "model" => Pending(replyID, Assistant) = {}
    BY DEF Top, Fail
  <2>. QED  BY <1>5, <2>1 DEF SafeOK, IterOK, Top
<1>. QED  BY <1>1, <1>2, <1>3, <1>4, <1>5, StepSafe

LEMMA ExceedSafe ==
  ASSUME TypeOK, SafeOK, Exceed
  PROVE  SafeOK'
<1>1. /\ pc = "top" /\ pc' = "idle"
      /\ UNCHANGED <<conversation, calls, blocks, loop, acting, history>>
  BY DEF Exceed
<1>2. /\ Assistant' = Assistant /\ mem' = mem /\ batch' = {} /\ todo' = todo
      /\ UNCHANGED <<last, replies, calls, replyID, curIter, turns, permitted, asked>>
  BY <1>1 DEF conversation, blocks, loop, acting, history, Assistant, SafeOK, ShapeOK
<1>3. pc' \notin Acting
  BY <1>1 DEF Acting
<1>4. replyID \in Msg => turns[replyID] <= curIter + 1
  BY DEF SafeOK, IterOK
<1>. QED  BY <1>1, <1>2, <1>3, <1>4, StepSafe

LEMMA AfterActingSafe ==
  ASSUME TypeOK, SafeOK, AfterActing
  PROVE  SafeOK'
<1>1. /\ pc # "idle" /\ Assistant' = Assistant /\ mem'["context"] = mem["context"]
      /\ UNCHANGED <<last, replies, calls, replyID, turns, permitted, asked>>
  BY CompactSafe DEF AfterActing, history
<1>2. batch' = {}
  BY DEF AfterActing, Fail, SafeOK, ShapeOK, acting
<1>3. pc' \notin Acting
  BY DEF AfterActing, Fail, Acting
<1>4. /\ pc' \in {"idle", "top"} /\ curIter' \in {curIter, curIter + 1}
      /\ pc' = "top" => curIter' = curIter + 1
  BY DEF AfterActing, Fail
<1>5. curIter \in Nat /\ turns \in [Msg -> Nat]
  BY MaxItersAssumption DEF TypeOK
<1>6. replyID \in Msg => /\ turns[replyID] <= curIter' + 1
                         /\ pc' = "top" => turns[replyID] <= curIter'
  BY <1>4, <1>5 DEF SafeOK, IterOK
<1>. QED  BY <1>1, <1>2, <1>3, <1>4, <1>6, StepSafe

LEMMA EndSafe ==
  ASSUME TypeOK, SafeOK, End
  PROVE  SafeOK'
<1>1. /\ pc # "idle" /\ pc' = "idle" /\ pc' \notin Acting
      /\ UNCHANGED <<conversation, calls, blocks, loop, batch, history>>
  BY DEF End, Acting
<1>2. /\ Assistant' = Assistant /\ mem' = mem /\ batch' = {}
      /\ UNCHANGED <<last, replies, calls, replyID, curIter, turns, permitted, asked>>
  BY <1>1 DEF End, conversation, blocks, loop, history, Assistant, SafeOK, ShapeOK
<1>3. replyID \in Msg => turns[replyID] <= curIter + 1
  BY DEF SafeOK, IterOK
<1>. QED  BY <1>1, <1>2, <1>3, StepSafe

LEMMA ReasonSafe ==
  ASSUME TypeOK, FlowOK, SafeOK, NEW n \in 0..TurnCalls, NEW k \in [1..n -> Kinds],
         Reason(n, k)
  PROVE  SafeOK'
<1>. DEFINE new  == (made + 1)..(made + n)
            view == [c \in Call |-> IF c \in new THEN [st |-> "pending", res |-> "none"]
                                                 ELSE Assistant[c]]
<1>1. /\ pc = "model" /\ Apply(view) /\ replyID \in Msg /\ replyID = last /\ batch = {}
      /\ UNCHANGED <<conversation, at, loop, batch, permitted, asked>>
      /\ owner' = [c \in Call |-> IF c \in new THEN replyID ELSE owner[c]]
      /\ turns' = [turns EXCEPT ![replyID] = @ + 1]
  BY DEF Reason, FlowOK, SafeOK, ShapeOK
<1>2. /\ UNCHANGED <<last, replies, replyID, curIter>>
      /\ Assistant' = view
      /\ at # "context" => mem'["context"] = mem["context"]
  BY <1>1 DEF conversation, loop, Apply, Assistant, TypeOK, View
<1>3. /\ todo' \subseteq new \/ todo' = {}
      /\ pc' \in {"idle", "end", "single", "handle"}
  BY DEF Reason, Continue
<1>4. ShapeOK'
  <2>. HIDE DEF view, new
  <2>1. \A c \in Call : owner'[c] = IF c \in new THEN replyID ELSE owner[c]
    BY <1>1
  <2>2. todo' \subseteq Call
    BY ReasonType DEF TypeOK
  <2>3. /\ made' = made + n /\ made \in Nat /\ n \in Nat
        /\ \A c \in Call : c > made' => c \notin new /\ c > made
        /\ \A c \in new : c <= made'
        /\ \A c \in asked : c <= made'
    BY DEF Reason, TypeOK, new, Call, SafeOK, ShapeOK
  <2>4. \A c \in Call : owner'[c] <= last' /\ (c > made' => owner'[c] = 0)
    BY <1>1, <1>2, <2>1, <2>3 DEF SafeOK, ShapeOK, TypeOK
  <2>. QED  BY <1>1, <1>2, <1>3, <2>1, <2>2, <2>3, <2>4 DEF SafeOK, ShapeOK
<1>5. IterOK'
  <2>1. curIter \in Nat /\ MaxIters \in Nat /\ turns \in [Msg -> Nat] /\ curIter < MaxIters
    BY <1>1, MaxItersAssumption DEF TypeOK, FlowOK, Iterating
  <2>2. turns[replyID] <= curIter /\ replyID \in replies
    BY <1>1 DEF SafeOK, IterOK
  <2>. HIDE DEF view, new
  <2>. QED  BY <1>1, <1>2, <1>3, <2>1, <2>2 DEF SafeOK, IterOK
<1>6. PermitOK'
  <2>1. ASSUME NEW c \in Call, owner'[c] = last, view[c].st = "allowed"
        PROVE  c \in permitted
    <3>1. c \notin new /\ Assistant[c].st = "allowed" /\ owner[c] = last
      BY <1>1, <2>1
    <3>. QED  BY <1>1, <3>1 DEF SafeOK, PermitOK
  <2>2. ASSUME NEW c \in Call, owner'[c] = last, mem'["context"][c].st = "allowed"
        PROVE  c \in permitted
    <3>. HIDE DEF view
    <3>1. CASE at = "context"
      BY <1>1, <1>2, <2>1, <2>2, <3>1 DEF Assistant
    <3>2. CASE at # "context"
      <4>1. c \in new \/ owner[c] = last
        BY <1>1, <2>2
      <4>2. CASE owner[c] = last
        BY <1>2, <2>2, <3>2, <4>2 DEF SafeOK, PermitOK
      <4>3. CASE c \in new /\ owner[c] # last
        <5>1. c > made /\ mem["context"][c].st = "allowed" /\ made \in Nat
          BY <1>2, <2>2, <3>2, <4>3 DEF TypeOK
        <5>. QED  BY <5>1 DEF SafeOK, PermitOK, Call
      <4>. QED  BY <4>1, <4>2, <4>3
    <3>. QED  BY <3>1, <3>2
  <2>3. ASSUME NEW c \in Call, mem'["context"][c].st = "allowed"
        PROVE  c <= made'
    <3>1. made' = made + n /\ made \in Nat /\ n \in Nat
      BY DEF Reason, TypeOK
    <3>2. mem["context"][c].st = "allowed"
      <4>1. CASE at = "context"
        <5>1. view[c].st = "allowed"
          BY <1>1, <1>2, <2>3, <4>1 DEF Assistant
        <5>. QED  BY <4>1, <5>1 DEF Assistant
      <4>2. CASE at # "context"
        BY <1>2, <2>3, <4>2
      <4>. QED  BY <4>1, <4>2
    <3>. QED  BY <3>1, <3>2 DEF SafeOK, PermitOK, Call
  <2>4. pc' \notin {"exec", "idle"} => replyID' = last
    BY <1>1, <1>2
  <2>5. batch' = {}
    BY <1>1
  <2>. HIDE DEF view, new
  <2>. QED  BY <1>1, <1>2, <1>3, <2>1, <2>2, <2>3, <2>4, <2>5 DEF PermitOK
<1>. QED  BY <1>4, <1>5, <1>6 DEF SafeOK

-------------------------------------------------------------------------------
(* The input.                                                              *)

LEMMA StartReplySafe ==
  ASSUME TypeOK, SafeOK, pc = "idle", NEW n \in {last, last + 1}, n \in 0..MsgBound,
         NEW view \in [Call -> Block], StartReply(n, view), UNCHANGED <<turns, asked>>,
         \A c \in Call : owner[c] = n /\ view[c].st = "allowed" => c \in permitted',
         \A c \in Call : view[c].st = "allowed" => c <= made
  PROVE  SafeOK'
<1>0. last \in Nat /\ replyID \in Nat /\ n \in Nat /\ replyID <= n /\ batch = {}
  BY BoundsAssumption DEF TypeOK, SafeOK, ShapeOK
<1>1. /\ mem'["context"] = view /\ at' = "context" /\ Assistant' = view
      /\ UNCHANGED <<made, owner, kind, todo, batch>>
      /\ pc' \in {"top", "idle"} /\ last' = replyID'
  BY DEF StartReply, calls, acting, Assistant, TypeOK, View
<1>2. CASE Resumable(n, view)
  <2>1. /\ last' = n /\ replyID' = n /\ pc' = "top"
        /\ UNCHANGED <<replies, curIter, failed, outcome>>
    BY <1>2 DEF StartReply
  <2>2. n \in replies /\ n = replyID /\ n = last /\ Pending(n, view) # {}
    BY <1>0, <1>2 DEF Resumable, SafeOK, ShapeOK
  <2>3. ShapeOK'
    BY <1>0, <1>1, <2>1, <2>2 DEF SafeOK, ShapeOK, Acting
  <2>4. IterOK'
    <3>1. Pending(replyID, Assistant)' # {}
      BY <1>1, <2>1, <2>2 DEF Pending
    <3>. QED  BY <2>1, <2>2, <3>1 DEF SafeOK, IterOK
  <2>5. PermitOK'
    BY <1>0, <1>1, <2>1, <2>2 DEF PermitOK
  <2>. QED  BY <2>3, <2>4, <2>5 DEF SafeOK
<1>3. CASE ~Resumable(n, view)
  <2>1. /\ n < MsgBound /\ last' = n + 1 /\ replyID' = n + 1
        /\ replies' = replies \cup {n + 1} /\ curIter' = 0
    BY <1>3 DEF StartReply
  <2>2. /\ n + 1 \notin replies /\ replies \subseteq 1..n
        /\ \A c \in Call : owner[c] # n + 1 /\ owner[c] <= n + 1
    BY <1>0 DEF SafeOK, ShapeOK, TypeOK
  <2>3. ShapeOK'
    <3>1. replies' \subseteq 1..replyID'
      BY <1>0, <2>1, <2>2
    <3>. QED  BY <1>0, <1>1, <2>1, <2>2, <3>1 DEF SafeOK, ShapeOK, Acting
  <2>4. IterOK'
    <3>1. n + 1 \in Msg => turns[n + 1] = 0
      BY <2>2 DEF SafeOK, IterOK
    <3>. QED  BY <1>1, <2>1, <2>2, <3>1 DEF SafeOK, IterOK
  <2>5. PermitOK'
    BY <1>0, <1>1, <2>1, <2>2 DEF PermitOK
  <2>. QED  BY <2>3, <2>4, <2>5 DEF SafeOK
<1>. QED  BY <1>2, <1>3

\* Input that reaches no reply: the blocks change, the flow does not.
LEMMA ObserveSafe ==
  ASSUME TypeOK, SafeOK, pc = "idle", UNCHANGED <<conversation, calls, loop, pc, acting, turns,
         asked>>, \A c \in Call : owner[c] = last /\ mem'["context"][c].st = "allowed"
                           => c \in permitted',
         \A c \in Call : mem'["context"][c].st = "allowed" => c <= made
  PROVE  SafeOK'
<1>1. ShapeOK'
  BY DEF SafeOK, ShapeOK, conversation, calls, loop, acting
<1>2. PermitOK'
  BY DEF SafeOK, PermitOK, ShapeOK, conversation, calls, loop, acting
<1>3. IterOK'
  BY DEF SafeOK, IterOK, conversation, loop
<1>. QED  BY <1>1, <1>2, <1>3 DEF SafeOK

LEMMA InputSafe ==
  ASSUME TypeOK, SafeOK, Input
  PROVE  SafeOK'
<1>. USE BoundsAssumption
<1>0. /\ mem["context"] \in [Call -> Block] /\ last \in 0..MsgBound /\ last \in Nat
      /\ \A c \in Call : owner[c] = last /\ mem["context"][c].st = "allowed"
                           => c \in permitted
      /\ \A c \in Call : mem["context"][c].st = "allowed" => c <= made
      /\ \A c \in Call : owner[c] <= last /\ owner[c] \in Nat
  <2>1. mem["context"] \in [Call -> Block] /\ last \in 0..MsgBound
        /\ owner \in [Call -> 0..MsgBound]
    BY DEF TypeOK, View
  <2>. QED  BY <2>1 DEF SafeOK, PermitOK, ShapeOK
<1>1. CASE ReplyNil
  BY <1>0, <1>1, StartReplySafe DEF ReplyNil, history
<1>2. CASE ReplyMessage
  <2>1. last + 1 \in 0..MsgBound /\ \A c \in Call : owner[c] # last + 1
    BY <1>0, <1>2 DEF ReplyMessage
  <2>. QED  BY <1>0, <1>2, <2>1, StartReplySafe DEF ReplyMessage, history
<1>3. ASSUME NEW c \in Call, NEW yes \in BOOLEAN, ReplyConfirm(c, yes)
      PROVE  SafeOK'
  <2>. DEFINE heard == owner[c] = last /\ mem["context"][c].st # "none"
              view  == IF heard THEN Confirmed(mem["context"], c, yes)
                                ELSE mem["context"]
  <2>1. view \in [Call -> Block]
    BY <1>0, ConfirmedType
  <2>2. /\ pc = "idle" /\ StartReply(last, view)
        /\ permitted' = IF ~yes THEN permitted \ {c}
                        ELSE IF heard THEN permitted \cup {c} ELSE permitted
        /\ UNCHANGED <<turns, asked>> /\ c \in asked
    BY <1>3 DEF ReplyConfirm
  <2>3. CASE heard
    <3>1. \A d \in Call : d # c => view[d] = mem["context"][d]
      BY <1>0, <2>3 DEF Confirmed
    <3>2. view[c].st = IF yes THEN "allowed" ELSE "finished"
      BY <1>0, <2>3 DEF Confirmed, Block
    <3>3. c <= made
      BY <2>2, <1>0 DEF SafeOK, ShapeOK
    <3>4. /\ \A d \in Call : owner[d] = last /\ view[d].st = "allowed" => d \in permitted'
          /\ \A d \in Call : view[d].st = "allowed" => d <= made
      <4>. HIDE DEF view
      <4>. QED  BY <1>0, <2>2, <2>3, <3>1, <3>2, <3>3
    <3>. QED
      <4>. HIDE DEF view, heard
      <4>. QED  BY <1>0, <2>1, <2>2, <3>4, StartReplySafe
  <2>4. CASE ~heard
    <3>1. view = mem["context"] /\ permitted' \in {permitted, permitted \ {c}}
      BY <2>2, <2>4
    <3>2. owner[c] = last => mem["context"][c].st # "allowed"
      BY <2>4
    <3>3. /\ \A d \in Call : owner[d] = last /\ view[d].st = "allowed" => d \in permitted'
          /\ \A d \in Call : view[d].st = "allowed" => d <= made
      <4>. HIDE DEF view, heard
      <4>. QED  BY <1>0, <3>1, <3>2
    <3>. HIDE DEF view, heard
    <3>. QED  BY <1>0, <2>1, <2>2, <3>3, StartReplySafe
  <2>. QED  BY <2>3, <2>4
<1>4. ASSUME NEW c \in Call, ReplyExternal(c)
      PROVE  SafeOK'
  <2>. DEFINE view == IF owner[c] = last THEN Answered(mem["context"], c)
                                         ELSE mem["context"]
  <2>1. view \in [Call -> Block]
    BY <1>0, AnsweredType
  <2>2. \A d \in Call : view[d].st = "allowed" => mem["context"][d].st = "allowed"
    BY <1>0 DEF Answered
  <2>3. pc = "idle" /\ StartReply(last, view) /\ UNCHANGED <<turns, permitted, asked>>
    BY <1>4 DEF ReplyExternal, history
  <2>. HIDE DEF view
  <2>. QED  BY <1>0, <2>1, <2>2, <2>3, StartReplySafe
<1>5. CASE ObserveMessage
  <2>1. /\ pc = "idle" /\ last' = last + 1
        /\ UNCHANGED <<first, replies, calls, blocks, loop, pc, acting, history>>
    BY <1>5 DEF ObserveMessage
  <2>2. ShapeOK'
    <3>1. /\ UNCHANGED <<made, owner, replyID, todo, batch, asked, replies, pc>>
          /\ last \in Nat /\ replyID \in Nat
      BY <1>0, <2>1 DEF calls, loop, acting, history, TypeOK
    <3>. QED  BY <1>0, <2>1, <3>1 DEF SafeOK, ShapeOK, Acting
  <2>3. PermitOK'
    BY <1>0, <2>1 DEF SafeOK, PermitOK, calls, loop, acting, blocks, history
  <2>4. IterOK'
    BY <2>1 DEF SafeOK, IterOK, loop, history
  <2>. QED  BY <2>2, <2>3, <2>4 DEF SafeOK
<1>6. ASSUME NEW c \in Call, NEW yes \in BOOLEAN, ObserveConfirm(c, yes)
      PROVE  SafeOK'
  <2>1. /\ mem'["context"] = Confirmed(mem["context"], c, yes)
        /\ permitted' = IF yes THEN permitted \cup {c} ELSE permitted \ {c}
        /\ pc = "idle" /\ UNCHANGED <<conversation, calls, loop, pc, acting, turns, asked>>
        /\ mem["context"][c].st # "none" /\ c \in asked
    BY <1>6 DEF ObserveConfirm, TypeOK, View
  <2>2. /\ \A d \in Call : d # c => mem'["context"][d] = mem["context"][d]
        /\ mem'["context"][c].st = IF yes THEN "allowed" ELSE "finished"
    BY <1>0, <2>1 DEF Confirmed, Block
  <2>3. c <= made
    BY <2>1, <1>0 DEF SafeOK, ShapeOK
  <2>. QED  BY <1>0, <2>1, <2>2, <2>3, ObserveSafe
<1>7. ASSUME NEW c \in Call, ObserveExternal(c)
      PROVE  SafeOK'
  <2>1. /\ mem'["context"] = Answered(mem["context"], c)
        /\ pc = "idle" /\ UNCHANGED <<conversation, calls, loop, pc, acting, turns, permitted,
           asked>>
    BY <1>7 DEF ObserveExternal, TypeOK, View, history
  <2>2. \A d \in Call : mem'["context"][d].st = "allowed" => mem["context"][d].st = "allowed"
    BY <1>0, <2>1 DEF Answered
  <2>. QED  BY <1>0, <2>1, <2>2, ObserveSafe
<1>. QED
  BY <1>1, <1>2, <1>3, <1>4, <1>5, <1>6, <1>7 DEF Input

-------------------------------------------------------------------------------
LEMMA NextSafe ==
  ASSUME TypeOK, FlowOK, SafeOK, [Next]_vars
  PROVE  SafeOK'
<1>1. CASE Input
  BY <1>1, InputSafe
<1>2. CASE Flow
  <2>1. ASSUME NEW c \in Call, Act(c)
        PROVE  SafeOK'
    BY <2>1, FlushBeforeSafe, HandleUncallableSafe, EngineErrorSafe, HandleDeniedSafe,
       HandleAskSafe, HandleExternalSafe, HandleLocalSafe, ExecSafe, RunBatchedSafe,
       SettleSafe DEF Act
  <2>. QED
    BY <1>2, <2>1, TopSafe, ExceedSafe, ReasonSafe, AllHandledSafe, AfterActingSafe, EndSafe
       DEF Flow
<1>3. CASE UNCHANGED vars
  <2>1. UNCHANGED <<first, last, replies, made, owner, mem, at, replyID, curIter, pc, todo,
                    batch, permitted, asked, turns>>
    BY <1>3 DEF vars, conversation, calls, blocks, loop, acting, history
  <2>2. ShapeOK'
    BY <2>1 DEF SafeOK, ShapeOK
  <2>3. PermitOK'
    BY <2>1 DEF SafeOK, PermitOK, Assistant, IsFirst
  <2>4. IterOK'
    BY <2>1 DEF SafeOK, IterOK, Pending, Assistant
  <2>. QED  BY <2>2, <2>3, <2>4 DEF SafeOK
<1>. QED  BY <1>1, <1>2, <1>3 DEF Next

LEMMA SafeAlways == Spec => [](TypeOK /\ FlowOK /\ SafeOK)
<1>1. Init => TypeOK /\ FlowOK /\ SafeOK
  BY InitType, InitSafe
<1>2. TypeOK /\ FlowOK /\ SafeOK /\ [Next]_vars => (TypeOK /\ FlowOK /\ SafeOK)'
  BY NextType, NextSafe
<1>. QED  BY <1>1, <1>2, PTL DEF Spec

\* The model is called at most MaxIters times for one reply, over all the calls
\* of Reply that resume it (continueReply, state.CurIter).
THEOREM IterationsBounded == Spec => []IterationBound
<1>1. SafeOK => IterationBound
  BY DEF SafeOK, IterOK, IterationBound
<1>. QED  BY <1>1, SafeAlways, PTL

\* Only two steps run a tool, and both find the call permitted.
LEMMA RunIsPermitted ==
  ASSUME TypeOK, SafeOK, Next, NEW c \in Call, ran'[c] > ran[c]
  PROVE  c \in permitted
<1>1. CASE UNCHANGED ran
  BY <1>1 DEF TypeOK
<1>2. ASSUME NEW d \in Call, Exec(d)
      PROVE  c \in permitted
  <2>1. d \in permitted
    BY <1>2 DEF Exec, SafeOK, PermitOK
  <2>2. d = c
    BY <1>2 DEF Exec, TypeOK
  <2>. QED  BY <2>1, <2>2
<1>3. ASSUME NEW d \in Call, RunBatched(d)
      PROVE  c \in permitted
  <2>1. d \in permitted
    BY <1>3 DEF RunBatched, SafeOK, PermitOK
  <2>2. d = c
    BY <1>3 DEF RunBatched, TypeOK
  <2>. QED  BY <2>1, <2>2
<1>4. Input => UNCHANGED ran
  BY DEF Input, ReplyNil, ReplyMessage, ReplyConfirm, ReplyExternal, ObserveMessage,
         ObserveConfirm, ObserveExternal, history
<1>5. ASSUME NEW d \in Call, Act(d)
      PROVE  UNCHANGED ran \/ Exec(d) \/ RunBatched(d)
  BY <1>5 DEF Act, FlushBefore, HandleUncallable, EngineError, HandleDenied, HandleAsk,
              HandleExternal, HandleLocal, Settle, history
<1>6. Top \/ Exceed \/ AllHandled \/ AfterActing \/ End => UNCHANGED ran
  BY DEF Top, Exceed, AllHandled, AfterActing, End, history
<1>7. ASSUME NEW n \in 0..TurnCalls, NEW k \in [1..n -> Kinds], Reason(n, k)
      PROVE  UNCHANGED ran
  BY <1>7 DEF Reason
<1>. QED
  BY <1>1, <1>2, <1>3, <1>4, <1>5, <1>6, <1>7 DEF Next, Flow

\* A tool runs only when the engine has allowed the call or the user has
\* confirmed it and nobody has rejected it since (prepareToolCall,
\* executeLocalTool, executeLocalToolBatch, applyIncomingEvent).
THEOREM RunsArePermitted == Spec => RunsOnlyPermitted
<1>1. TypeOK /\ SafeOK /\ [Next]_vars => [\A c \in Call : ran'[c] > ran[c] => c \in permitted]_vars
  BY RunIsPermitted
<1>. QED  BY <1>1, SafeAlways, PTL DEF Spec, RunsOnlyPermitted

-------------------------------------------------------------------------------
(* The work of runActing and the blocks it leaves                          *)

\* Call c of the reply in hand is batched or about to run.
Working(c) == owner[c] = replyID /\ (c \in batch \/ (pc = "exec" /\ IsFirst(c, todo)))

\* What runActing has in hand: the calls of todo are still to be handled, but
\* for one that is about to run; what is batched has an open result.
TodoOK ==
  /\ pc \in Acting => \A c \in todo :
       IF pc = "exec" /\ IsFirst(c, todo) THEN Assistant[c].res = "running"
       ELSE Assistant[c].res = "none" /\ Assistant[c].st \in {"pending", "allowed"}
  /\ \A c \in batch : /\ Assistant[c].res = "running"
                      /\ kind[c] = "safe" /\ owner[c] = replyID

\* An open result in view v is that of a call handed outside, of a reply that
\* failed or, in the loop's view, of a call runActing has in hand.
RunningOK(v) ==
  \A c \in Call : mem[v][c].res = "running" =>
    c \in sent \/ owner[c] \in failed \/ (v = at /\ Working(c))

\* A call put to the user has no result and is in the context, which is empty
\* only before the first message.
AskingOK ==
  /\ \A c \in Call : mem["context"][c].st = "asking" =>
       mem["context"][c].res = "none" /\ first <= owner[c]
  /\ first <= last \/ (first = 1 /\ last = 0)

WorkOK == TodoOK /\ RunningOK("context") /\ RunningOK(at) /\ AskingOK

LEMMA WorkInit == Init => WorkOK
BY DEF Init, WorkOK, TodoOK, RunningOK, AskingOK, NoBlock, View, Acting, Call

LEMMA OneFirst ==
  ASSUME NEW S \in SUBSET Call, NEW c \in Call, NEW d \in Call, IsFirst(c, S), IsFirst(d, S)
  PROVE  c = d
BY DEF IsFirst, Call

\* What Apply changes.
LEMMA ApplyBlocks ==
  ASSUME TypeOK, NEW new, Apply(new)
  PROVE  mem'[at] = new /\ \A v \in View : v # at => mem'[v] = mem[v]
BY DEF Apply, TypeOK

\* Call c, which runActing has in hand, gets the block b and is put aside,
\* batched or made ready to run; or the reply fails.
CallStep(c, b) ==
  /\ c \in todo \cup batch /\ b \in Block
  /\ pc = "exec" => IsFirst(c, todo)
  /\ mem'[at] = [Assistant EXCEPT ![c] = b] /\ \A v \in View : v # at => mem'[v] = mem[v]
  /\ at = "context" /\ b.st = "asking" => b.res = "none"
  /\ sent \subseteq sent' /\ failed \subseteq failed'
  /\ todo' \subseteq todo
  /\ pc' = "exec" => IsFirst(c, todo')
  /\ pc' \in Acting /\ c \in todo' => pc' = "exec" /\ b.res = "running"
  /\ batch' \subseteq batch \cup {c}
  /\ c \in batch' => b.res = "running" /\ kind[c] = "safe"
  /\ b.res = "running" => c \in sent' \/ replyID \in failed' \/ c \in batch' \/ pc' = "exec"
  /\ batch \subseteq batch' \cup {c} \/ replyID \in failed'

\* What happens to the life of the call meanwhile: it runs only on its way to a
\* result, and what is batched or about to run has just opened its result.
CallLife(c, b) ==
  /\ ran' = ran \/ (ran' = [ran EXCEPT ![c] = @ + 1] /\ pc = "exec" /\ b.res # "none")
  /\ sent' = sent \/ (sent' = sent \cup {c} /\ b.res = "running")
  /\ asked' = asked \/ (asked' = asked \cup {c} /\ b.st = "asking")
  /\ b.res = "none" => Assistant[c].res = "none" /\ (b.st = "pending" => b = Assistant[c])
  /\ c \in batch' \/ pc' = "exec" => Assistant[c].res = "none" /\ UNCHANGED <<ran, sent>>
  /\ batch' \cap ranBatch \subseteq ranBatch'

Moves(c, b) == CallStep(c, b) /\ CallLife(c, b)

StepOf(c) == pc \in Acting /\ ActFrame /\ \E b : Moves(c, b)

LEMMA RunsInContext ==
  ASSUME TypeOK, FlowOK, SafeOK, WorkOK, pc # "idle"
  PROVE  first <= last /\ replyID = last /\ first \in Nat /\ last \in Nat
BY DEF TypeOK, FlowOK, SafeOK, ShapeOK, WorkOK, AskingOK, Msg

LEMMA CallStepWork ==
  ASSUME TypeOK, FlowOK, SafeOK, WorkOK, pc \in Acting, ActFrame, NEW c \in Call, NEW b,
         CallStep(c, b)
  PROVE  WorkOK'
<1>1. /\ UNCHANGED <<first, last, replies, made, owner, kind, at, replyID>>
      /\ at \in View /\ Assistant \in [Call -> Block]
      /\ Assistant' = [Assistant EXCEPT ![c] = b]
      /\ todo \subseteq Call
  BY AssistantType DEF ActFrame, conversation, calls, loop, TypeOK, Assistant, CallStep
<1>2. /\ owner[c] = replyID
      /\ pc \notin {"handle", "flush", "settle"} => batch = {}
  BY DEF CallStep, SafeOK, ShapeOK, WorkOK, TodoOK
<1>3. first <= last /\ replyID = last
  BY RunsInContext DEF Acting
<1>4. Assistant'[c] = b /\ \A d \in Call \ {c} : Assistant'[d] = Assistant[d]
  BY <1>1
<1>5. TodoOK'
  <2>1. ASSUME NEW d \in todo', pc' \in Acting
        PROVE  IF pc' = "exec" /\ IsFirst(d, todo') THEN Assistant'[d].res = "running"
               ELSE Assistant'[d].res = "none" /\ Assistant'[d].st \in {"pending", "allowed"}
    <3>1. CASE d = c
      BY <1>4, <2>1, <3>1 DEF CallStep
    <3>2. CASE d # c
      <4>1. d \in Call /\ d \in todo
        BY <1>1, <2>1 DEF CallStep
      <4>2. ~(pc' = "exec" /\ IsFirst(d, todo'))
        BY <1>1, <3>2, <4>1, OneFirst DEF CallStep
      <4>3. ~(pc = "exec" /\ IsFirst(d, todo))
        BY <1>1, <3>2, <4>1, OneFirst DEF CallStep
      <4>. QED  BY <1>4, <3>2, <4>1, <4>2, <4>3 DEF WorkOK, TodoOK
    <3>. QED  BY <3>1, <3>2
  <2>2. ASSUME NEW d \in batch'
        PROVE  Assistant'[d].res = "running" /\ kind'[d] = "safe" /\ owner'[d] = replyID'
    <3>1. CASE d = c
      BY <1>1, <1>2, <1>4, <2>2, <3>1 DEF CallStep
    <3>2. CASE d # c
      BY <1>1, <1>4, <2>2, <3>2 DEF CallStep, WorkOK, TodoOK, TypeOK
    <3>. QED  BY <3>1, <3>2
  <2>. QED  BY <2>1, <2>2 DEF TodoOK
<1>6. RunningOK(at)'
  <2>. SUFFICES ASSUME NEW d \in Call, Assistant'[d].res = "running"
                PROVE  d \in sent' \/ owner[d] \in failed' \/ Working(d)'
    BY <1>1 DEF RunningOK, Assistant
  <2>1. CASE d = c
    BY <1>1, <1>2, <1>4, <2>1 DEF CallStep, Working
  <2>2. CASE d # c
    <3>1. d \in sent \/ owner[d] \in failed \/ Working(d)
      BY <1>4, <2>2 DEF WorkOK, RunningOK, Assistant
    <3>2. Working(d) => d \in batch /\ owner[d] = replyID
      BY <1>1, <2>2, OneFirst DEF Working, CallStep
    <3>. QED  BY <1>1, <2>2, <3>1, <3>2 DEF CallStep, Working
  <2>. QED  BY <2>1, <2>2
<1>7. RunningOK("context")'
  <2>1. CASE at = "context"
    BY <1>1, <1>6, <2>1 DEF RunningOK
  <2>2. CASE at # "context"
    <3>1. mem'["context"] = mem["context"]
      BY <2>2 DEF CallStep, View
    <3>. QED  BY <1>1, <2>2, <3>1 DEF WorkOK, RunningOK, CallStep
  <2>. QED  BY <2>1, <2>2
<1>8. AskingOK'
  <2>. SUFFICES ASSUME NEW d \in Call, mem'["context"][d].st = "asking"
                PROVE  mem'["context"][d].res = "none" /\ first <= owner[d]
    BY <1>1, <1>3 DEF AskingOK
  <2>1. CASE at = "context" /\ d = c
    BY <1>1, <1>2, <1>3, <1>4, <2>1 DEF CallStep, Assistant
  <2>2. CASE at = "context" /\ d # c
    BY <1>1, <1>4, <2>2 DEF WorkOK, AskingOK, Assistant
  <2>3. CASE at # "context"
    BY <2>3 DEF CallStep, View, WorkOK, AskingOK
  <2>. QED  BY <2>1, <2>2, <2>3
<1>. QED  BY <1>5, <1>6, <1>7, <1>8 DEF WorkOK

\* A step of runActing that leaves the blocks alone and no call behind.
LEMMA QuietWork ==
  ASSUME TypeOK, WorkOK, ActFrame, UNCHANGED <<mem, sent, failed, todo, batch>>,
         pc \in Acting, pc # "exec", pc' # "exec"
  PROVE  WorkOK'
<1>1. UNCHANGED <<first, last, owner, kind, at, replyID, Assistant>>
  BY DEF ActFrame, conversation, calls, loop, Assistant
<1>2. TodoOK'
  BY <1>1 DEF WorkOK, TodoOK
<1>3. RunningOK("context")' /\ RunningOK(at)'
  BY <1>1 DEF WorkOK, RunningOK, Working
<1>4. AskingOK'
  BY <1>1 DEF WorkOK, AskingOK
<1>. QED  BY <1>2, <1>3, <1>4 DEF WorkOK

LEMMA HandlingWork ==
  ASSUME TypeOK, SafeOK, WorkOK, NEW c \in Call, Handling(c)
  PROVE  /\ pc \in {"handle", "single"} /\ pc \in Acting /\ c \in todo /\ IsFirst(c, todo)
         /\ Assistant[c] \in Block /\ Assistant[c].res = "none"
         /\ Assistant[c].st \in {"pending", "allowed"} /\ c \notin batch
BY AssistantType, HandlingSafe DEF Handling, WorkOK, TodoOK

LEMMA ToolErrorStep ==
  ASSUME TypeOK, FlowOK, SafeOK, WorkOK, ActFrame, NEW c \in Call, Handling(c),
         NEW how \in {"done", "denied"}, ToolError(c, how), UNCHANGED <<ran, sent, asked>>
  PROVE  StepOf(c)
<1>1. /\ pc \in {"handle", "single"} /\ pc \in Acting /\ c \in todo
      /\ Assistant[c].st \in {"pending", "allowed"} /\ c \notin batch
      /\ Assistant \in [Call -> Block]
  BY HandlingWork, AssistantType
<1>2. CASE /\ Apply([Assistant EXCEPT ![c] = [st |-> "finished", res |-> how]])
           /\ Handled(c)
  <2>1. Moves(c, [st |-> "finished", res |-> how])
    BY <1>1, <1>2, ApplyBlocks DEF Moves, CallStep, CallLife, Handled, Block, CallState, ResultState
  <2>. QED  BY <1>1, <2>1 DEF StepOf
<1>3. ASSUME NEW res \in {"running", how},
             Apply([Assistant EXCEPT ![c] =
                     [st |-> IF res = how \/ how = "denied" THEN "finished" ELSE @.st,
                      res |-> res]]),
             Fail
      PROVE  StepOf(c)
  <2>. DEFINE b == [st |-> IF res = how \/ how = "denied" THEN "finished"
                           ELSE Assistant[c].st,
                    res |-> res]
  <2>1. b \in Block /\ b.st # "asking" /\ b.res # "none"
    BY <1>1 DEF Block, CallState, ResultState
  <2>2. mem'[at] = [Assistant EXCEPT ![c] = b] /\ \A v \in View : v # at => mem'[v] = mem[v]
    BY <1>3, ApplyBlocks
  <2>3. Moves(c, b)
    <3>. HIDE DEF b
    <3>. QED  BY <1>1, <1>3, <2>1, <2>2 DEF Moves, CallStep, CallLife, Fail, Acting
  <2>. QED  BY <1>1, <2>3 DEF StepOf
<1>. QED  BY <1>2, <1>3 DEF ToolError

LEMMA HandleAskStep ==
  ASSUME TypeOK, FlowOK, SafeOK, WorkOK, NEW c \in Call, HandleAsk(c)
  PROVE  StepOf(c)
<1>1. /\ ActFrame /\ Handling(c) /\ UNCHANGED <<ran, sent>> /\ asked' = asked \cup {c}
      /\ Apply([Assistant EXCEPT ![c].st = "asking"])
  BY DEF HandleAsk, ActFrame
<1>2. /\ pc \in {"handle", "single"} /\ pc \in Acting /\ c \in todo /\ c \notin batch
      /\ Assistant[c].res = "none" /\ Assistant \in [Call -> Block]
  BY <1>1, HandlingWork, AssistantType
<1>3. [Assistant EXCEPT ![c].st = "asking"]
        = [Assistant EXCEPT ![c] = [st |-> "asking", res |-> "none"]]
  <2>1. [Assistant[c] EXCEPT !.st = "asking"] = [st |-> "asking", res |-> "none"]
    BY <1>2 DEF Block
  <2>. QED  BY <2>1
<1>4. Moves(c, [st |-> "asking", res |-> "none"])
  BY <1>1, <1>2, <1>3, ApplyBlocks
     DEF HandleAsk, Wait, Fail, Moves, CallStep, CallLife, Block, CallState, ResultState, Acting
<1>. QED  BY <1>1, <1>2, <1>4 DEF StepOf

LEMMA HandleExternalStep ==
  ASSUME TypeOK, FlowOK, SafeOK, WorkOK, NEW c \in Call, HandleExternal(c)
  PROVE  StepOf(c)
<1>1. ActFrame /\ Handling(c) /\ UNCHANGED <<ran, asked>>
  BY DEF HandleExternal, ActFrame, Permit
<1>2. pc \in {"handle", "single"} /\ pc \in Acting /\ c \in todo /\ c \notin batch
  BY <1>1, HandlingWork
<1>3. PICK st \in {"allowed", "submitted"} :
        /\ Apply([Assistant EXCEPT ![c] = [st |-> st, res |-> "running"]])
        /\ sent' = IF st = "submitted" THEN sent \cup {c} ELSE sent
        /\ (st = "submitted" /\ Wait(c)) \/ Fail
  BY DEF HandleExternal
<1>4. Moves(c, [st |-> st, res |-> "running"])
  BY <1>1, <1>2, <1>3, ApplyBlocks
     DEF Wait, Fail, Moves, CallStep, CallLife, Block, CallState, ResultState, Acting
<1>. QED  BY <1>1, <1>2, <1>4 DEF StepOf

LEMMA HandleLocalStep ==
  ASSUME TypeOK, FlowOK, SafeOK, WorkOK, NEW c \in Call, HandleLocal(c)
  PROVE  StepOf(c)
<1>1. ActFrame /\ Handling(c) /\ UNCHANGED <<ran, sent, asked>>
  BY DEF HandleLocal, ActFrame, Permit
<1>2. /\ pc \in {"handle", "single"} /\ pc \in Acting /\ c \in todo /\ IsFirst(c, todo)
      /\ c \notin batch /\ Assistant[c].res = "none"
  BY <1>1, HandlingWork
<1>3. Moves(c, [st |-> "allowed", res |-> "running"])
  BY <1>1, <1>2, ApplyBlocks
     DEF HandleLocal, JoinsBatch, Fail, Moves, CallStep, CallLife, Block, CallState,
         ResultState, Acting, acting
<1>. QED  BY <1>1, <1>2, <1>3 DEF StepOf

\* The result of a call that was running is closed.
Done == [st |-> "finished", res |-> "done"]

\* The call in hand keeps its blocks, or its result is closed.
LEMMA SameOrDone ==
  ASSUME TypeOK, WorkOK, NEW c \in Call, Assistant[c].res = "running",
         UNCHANGED mem \/ Apply([Assistant EXCEPT ![c] = Done])
  PROVE  \E b \in {Assistant[c], Done} :
           /\ b \in Block /\ mem'[at] = [Assistant EXCEPT ![c] = b]
           /\ \A v \in View : v # at => mem'[v] = mem[v]
           /\ at = "context" /\ b.st = "asking" => b.res = "none"
<1>1. Done \in Block /\ Done.st # "asking" /\ Assistant \in [Call -> Block]
  BY AssistantType DEF Done, Block, CallState, ResultState
<1>2. at = "context" => Assistant[c].st # "asking"
  BY DEF WorkOK, AskingOK, Assistant
<1>3. CASE UNCHANGED mem
  BY <1>1, <1>2, <1>3 DEF Assistant
<1>4. CASE Apply([Assistant EXCEPT ![c] = Done])
  BY <1>1, <1>4, ApplyBlocks
<1>. QED  BY <1>3, <1>4

LEMMA ExecStep ==
  ASSUME TypeOK, FlowOK, SafeOK, WorkOK, NEW c \in Call, Exec(c)
  PROVE  StepOf(c)
<1>1. /\ ActFrame /\ UNCHANGED <<sent, asked>> /\ ran' = [ran EXCEPT ![c] = @ + 1]
      /\ pc = "exec" /\ pc \in Acting
      /\ c \in todo /\ IsFirst(c, todo) /\ batch = {}
  BY DEF Exec, ActFrame, IsFirst, Acting, SafeOK, ShapeOK
<1>2. Assistant[c].res = "running"
  BY <1>1 DEF WorkOK, TodoOK
<1>3. /\ UNCHANGED mem \/ Apply([Assistant EXCEPT ![c] = Done])
      /\ Fail \/ (Handled(c) /\ Apply([Assistant EXCEPT ![c] = Done]))
  BY DEF Exec, Done
<1>4. PICK b \in {Assistant[c], Done} :
           /\ b \in Block /\ mem'[at] = [Assistant EXCEPT ![c] = b]
           /\ \A v \in View : v # at => mem'[v] = mem[v]
           /\ at = "context" /\ b.st = "asking" => b.res = "none"
  BY <1>2, <1>3, SameOrDone
<1>7. b.res # "none"
  BY <1>2, <1>4 DEF Done
<1>5. CASE Fail
  <2>1. Moves(c, b)
    BY <1>1, <1>4, <1>5, <1>7 DEF Moves, CallStep, CallLife, Fail, Acting
  <2>. QED  BY <1>1, <2>1 DEF StepOf
<1>6. CASE Handled(c) /\ Apply([Assistant EXCEPT ![c] = Done])
  <2>1. mem'[at] = [Assistant EXCEPT ![c] = Done] /\ \A v \in View : v # at => mem'[v] = mem[v]
    BY <1>6, ApplyBlocks
  <2>2. Moves(c, Done)
    BY <1>1, <1>6, <2>1 DEF Moves, CallStep, CallLife, Handled, Done, Block, CallState, ResultState
  <2>. QED  BY <1>1, <2>2 DEF StepOf
<1>. QED  BY <1>3, <1>5, <1>6

LEMMA SettleStep ==
  ASSUME TypeOK, FlowOK, SafeOK, WorkOK, NEW c \in Call, Settle(c)
  PROVE  StepOf(c)
<1>1. /\ ActFrame /\ UNCHANGED <<ran, sent, asked>> /\ pc = "settle" /\ pc \in Acting
      /\ c \in batch /\ after \in {"handle", "waiting", "after"}
  BY DEF Settle, ActFrame, history, IsFirst, Acting, FlowOK
<1>2. Assistant[c].res = "running" /\ c \notin todo /\ kind[c] = "safe"
  BY <1>1 DEF WorkOK, TodoOK
<1>3. /\ UNCHANGED mem \/ Apply([Assistant EXCEPT ![c] = Done])
      /\ \/ Fail
         \/ /\ Apply([Assistant EXCEPT ![c] = Done])
            /\ batch' = batch \ {c} /\ ranBatch' = ranBatch \ {c}
            /\ pc' \in {"settle", "end", "handle", "after"}
            /\ UNCHANGED <<todo, failed>>
  BY <1>1 DEF Settle, Done
<1>4. PICK b \in {Assistant[c], Done} :
           /\ b \in Block /\ mem'[at] = [Assistant EXCEPT ![c] = b]
           /\ \A v \in View : v # at => mem'[v] = mem[v]
           /\ at = "context" /\ b.st = "asking" => b.res = "none"
  BY <1>2, <1>3, SameOrDone
<1>7. b.res # "none"
  BY <1>2, <1>4 DEF Done
<1>5. CASE Fail
  <2>1. Moves(c, b)
    BY <1>1, <1>4, <1>5, <1>7 DEF Moves, CallStep, CallLife, Fail, Acting
  <2>. QED  BY <1>1, <2>1 DEF StepOf
<1>6. CASE /\ Apply([Assistant EXCEPT ![c] = Done])
           /\ batch' = batch \ {c} /\ ranBatch' = ranBatch \ {c}
           /\ pc' \in {"settle", "end", "handle", "after"}
           /\ UNCHANGED <<todo, failed>>
  <2>1. mem'[at] = [Assistant EXCEPT ![c] = Done] /\ \A v \in View : v # at => mem'[v] = mem[v]
    BY <1>6, ApplyBlocks
  <2>2. Moves(c, Done)
    BY <1>1, <1>2, <1>6, <2>1 DEF Moves, CallStep, CallLife, Done, Block, CallState, ResultState
  <2>. QED  BY <1>1, <2>2 DEF StepOf
<1>. QED  BY <1>3, <1>5, <1>6

LEMMA EngineErrorStep ==
  ASSUME TypeOK, FlowOK, SafeOK, WorkOK, NEW c \in Call, EngineError(c)
  PROVE  StepOf(c)
<1>1. ActFrame /\ Handling(c) /\ UNCHANGED <<ran, sent, asked, mem>> /\ Fail
  BY DEF EngineError, ActFrame, history, blocks
<1>2. /\ pc \in {"handle", "single"} /\ pc \in Acting /\ c \in todo
      /\ Assistant[c] \in Block /\ Assistant[c].st \in {"pending", "allowed"}
      /\ Assistant \in [Call -> Block]
  BY <1>1, HandlingWork, AssistantType
<1>3. Moves(c, Assistant[c])
  BY <1>1, <1>2 DEF Moves, CallStep, CallLife, Fail, Acting, Assistant
<1>. QED  BY <1>1, <1>2, <1>3 DEF StepOf

LEMMA ActStep ==
  ASSUME TypeOK, FlowOK, SafeOK, WorkOK, NEW c \in Call, Act(c)
  PROVE  StepOf(c) \/ FlushBefore(c) \/ RunBatched(c)
<1>1. CASE HandleUncallable(c)
  BY <1>1, ToolErrorStep DEF HandleUncallable, ActFrame, history
<1>2. CASE HandleDenied(c)
  BY <1>2, ToolErrorStep DEF HandleDenied, ActFrame, history
<1>. QED
  BY <1>1, <1>2, EngineErrorStep, HandleAskStep, HandleExternalStep,
     HandleLocalStep, ExecStep, SettleStep DEF Act

LEMMA ActWork ==
  ASSUME TypeOK, FlowOK, SafeOK, WorkOK, NEW c \in Call, Act(c)
  PROVE  WorkOK'
<1>1. CASE StepOf(c)
  BY <1>1, CallStepWork DEF StepOf, Moves
<1>2. CASE FlushBefore(c)
  BY <1>2, QuietWork DEF FlushBefore, ActFrame, blocks, history, Acting
<1>3. CASE RunBatched(c)
  BY <1>3, QuietWork DEF RunBatched, ActFrame, blocks, Acting
<1>. QED  BY <1>1, <1>2, <1>3, ActStep

LEMMA AllHandledWork ==
  ASSUME TypeOK, FlowOK, SafeOK, WorkOK, AllHandled
  PROVE  WorkOK'
BY QuietWork DEF AllHandled, ActFrame, blocks, history, Acting

\* No reply is at work on a call outside of runActing.
LEMMA NobodyWorks ==
  ASSUME SafeOK, pc \notin Acting
  PROVE  batch = {} /\ \A c \in Call : ~Working(c)
BY DEF SafeOK, ShapeOK, Acting, Working

\* What the compaction leaves out is settled.
LEMMA CompactAsking ==
  ASSUME TypeOK, SafeOK, WorkOK, KeepContext \/ Compact, UNCHANGED <<owner, last>>
  PROVE  AskingOK'
<1>1. mem'["context"] = mem["context"]
  BY CompactSafe
<1>2. CASE KeepContext
  BY <1>1, <1>2 DEF KeepContext, WorkOK, AskingOK
<1>3. CASE Compact
  <2>1. first' \in (first + 1)..last /\ \A m \in first..last : Unresolved(m) => first' <= m
    BY <1>3 DEF Compact, ReserveStarts
  <2>2. ASSUME NEW c \in Call, mem["context"][c].st = "asking"
        PROVE  mem["context"][c].res = "none" /\ first' <= owner[c]
    <3>1. mem["context"][c].res = "none" /\ first <= owner[c] /\ owner[c] <= last
          /\ owner[c] \in Nat /\ first \in Nat /\ last \in Nat
      BY <2>2 DEF WorkOK, AskingOK, SafeOK, ShapeOK, TypeOK
    <3>2. Unresolved(owner[c])
      BY <2>2, <3>1 DEF Unresolved
    <3>. QED  BY <2>1, <3>1, <3>2
  <2>3. first' <= last
    BY <2>1 DEF TypeOK
  <2>. QED  BY <1>1, <2>2, <2>3 DEF AskingOK
<1>. QED  BY <1>2, <1>3

\* A step of continueReply that calls neither the model nor a tool.
LEMMA StillWork ==
  ASSUME TypeOK, SafeOK, WorkOK, pc \notin Acting, Assistant' = Assistant,
         mem'["context"] = mem["context"], AskingOK',
         UNCHANGED <<owner, sent>>, failed \subseteq failed', batch' = {}, pc' # "exec",
         pc' \in Acting => todo' = Pending(replyID, Assistant)
  PROVE  WorkOK'
<1>1. TodoOK'
  BY DEF TodoOK, Pending
<1>2. RunningOK("context")' /\ RunningOK(at)'
  BY NobodyWorks DEF WorkOK, RunningOK, Assistant
<1>. QED  BY <1>1, <1>2 DEF WorkOK

LEMMA TopWork ==
  ASSUME TypeOK, SafeOK, WorkOK, Top
  PROVE  WorkOK'
<1>1. /\ pc = "top" /\ UNCHANGED <<owner, last, sent>>
      /\ batch = {} => batch' = {}
      /\ failed \subseteq failed' /\ pc' \in {"idle", "model", "single", "handle"}
      /\ pc' # "idle" => todo' = Pending(replyID, Assistant)
  BY DEF Top, Fail, calls, history
<1>2. KeepContext \/ Compact
  BY DEF Top
<1>. QED
  BY <1>1, <1>2, CompactSafe, CompactAsking, NobodyWorks, StillWork DEF Acting

LEMMA AfterActingWork ==
  ASSUME TypeOK, SafeOK, WorkOK, AfterActing
  PROVE  WorkOK'
<1>1. /\ pc = "after" /\ UNCHANGED <<owner, last, sent>>
      /\ batch = {} => batch' = {}
      /\ failed \subseteq failed' /\ pc' \in {"idle", "top"}
  BY DEF AfterActing, Fail, calls, history, acting
<1>2. KeepContext \/ Compact
  BY DEF AfterActing
<1>. QED
  BY <1>1, <1>2, CompactSafe, CompactAsking, NobodyWorks, StillWork DEF Acting

LEMMA ExitWork ==
  ASSUME TypeOK, SafeOK, WorkOK, Exceed \/ End
  PROVE  WorkOK'
<1>1. /\ pc \in {"top", "end"} /\ pc' = "idle"
      /\ UNCHANGED <<owner, last, sent, first, mem, at, batch>>
      /\ failed \subseteq failed'
  BY DEF Exceed, End, conversation, calls, blocks, acting, history
<1>2. AskingOK'
  BY <1>1 DEF WorkOK, AskingOK
<1>. QED  BY <1>1, <1>2, NobodyWorks, StillWork DEF Acting, Assistant

LEMMA ReasonWork ==
  ASSUME TypeOK, FlowOK, SafeOK, WorkOK,
         NEW n \in 0..TurnCalls, NEW k \in [1..n -> Kinds], Reason(n, k)
  PROVE  WorkOK'
<1>. DEFINE new  == (made + 1)..(made + n)
            view == [c \in Call |-> IF c \in new THEN [st |-> "pending", res |-> "none"]
                                                 ELSE Assistant[c]]
<1>1. /\ pc = "model" /\ Apply(view) /\ UNCHANGED <<first, last, at, replyID, batch, sent>>
      /\ owner' = [c \in Call |-> IF c \in new THEN replyID ELSE owner[c]]
      /\ failed \subseteq failed' /\ pc' \in {"idle", "end", "single", "handle"}
      /\ todo' \in {new, {}}
  BY DEF Reason, Continue, conversation, loop
<1>2. mem'[at] = view /\ \A v \in View : v # at => mem'[v] = mem[v]
  BY <1>1, ApplyBlocks
<1>3. batch = {} /\ \A c \in Call : ~Working(c)
  BY <1>1, NobodyWorks DEF Acting
<1>4. /\ \A c \in new \cap Call : view[c] = [st |-> "pending", res |-> "none"]
      /\ \A c \in Call \ new : view[c] = Assistant[c]
  OBVIOUS
<1>5. new \subseteq Call /\ \A c \in new : c \in Call /\ owner[c] = 0
  <2>1. made \in Nat /\ n \in Nat /\ made + n <= CallBound
    BY DEF Reason, TypeOK
  <2>2. \A c \in new : c \in Call /\ c > made
    BY <2>1, BoundsAssumption DEF Call
  <2>. QED  BY <2>2 DEF SafeOK, ShapeOK
<1>6. /\ \A c \in new : owner'[c] = replyID
      /\ \A c \in Call \ new : owner'[c] = owner[c]
  BY <1>1, <1>5
<1>7. 0 \notin failed
  BY DEF TypeOK, Msg
<1>8. first <= last /\ replyID = last /\ first \in Nat /\ last \in Nat
  BY <1>1, RunsInContext
<1>. HIDE DEF new, view
<1>9. TodoOK'
  BY <1>1, <1>2, <1>3, <1>4, <1>5 DEF TodoOK, Assistant
<1>10. RunningOK(at)'
  <2>1. \A c \in Call : view[c].res = "running" => c \in sent \/ owner'[c] \in failed
    BY <1>3, <1>4, <1>6 DEF WorkOK, RunningOK, Assistant
  <2>. QED  BY <1>1, <1>2, <2>1 DEF RunningOK
<1>11. RunningOK("context")'
  <2>1. CASE at = "context"
    BY <1>1, <1>10, <2>1
  <2>2. CASE at # "context"
    <3>1. mem'["context"] = mem["context"]
      BY <1>2, <2>2 DEF View
    <3>. QED  BY <1>1, <1>3, <1>5, <1>6, <1>7, <3>1 DEF WorkOK, RunningOK
  <2>. QED  BY <2>1, <2>2
<1>12. AskingOK'
  <2>. SUFFICES ASSUME NEW c \in Call, mem'["context"][c].st = "asking"
                PROVE  mem'["context"][c].res = "none" /\ first <= owner'[c]
    BY <1>1, <1>8 DEF AskingOK
  <2>1. CASE at = "context"
    BY <1>2, <1>4, <1>6, <2>1 DEF WorkOK, AskingOK, Assistant
  <2>2. CASE at # "context"
    <3>1. mem'["context"] = mem["context"]
      BY <1>2, <2>2 DEF View
    <3>. QED  BY <1>5, <1>6, <1>8, <3>1 DEF WorkOK, AskingOK
  <2>. QED  BY <2>1, <2>2
<1>. QED  BY <1>9, <1>10, <1>11, <1>12 DEF WorkOK

\* The input opens no result and puts no call to the user.
LEMMA InputBlocks ==
  ASSUME TypeOK, SafeOK, WorkOK, pc = "idle", pc' \in {"idle", "top"},
         UNCHANGED <<first, owner, batch, sent>>, failed \subseteq failed',
         last' = last \/ first <= last',
         at' = "context" \/ (at' = at /\ mem'["orphan"] = mem["orphan"]),
         NEW view, mem'["context"] = view,
         \A c \in Call : /\ view[c].res = "running" => mem["context"][c].res = "running"
                         /\ view[c].st = "asking" => view[c] = mem["context"][c]
  PROVE  WorkOK'
<1>1. batch' = {} /\ \A c \in Call : ~Working(c)
  BY NobodyWorks DEF Acting
<1>2. TodoOK'
  BY <1>1 DEF TodoOK, Acting
<1>3. RunningOK("context")'
  BY <1>1 DEF WorkOK, RunningOK
<1>4. RunningOK(at)'
  <2>1. CASE at' = "context" BY <1>3, <2>1 DEF RunningOK
  <2>2. CASE at' # "context"
    <3>1. at = "orphan" /\ at' = "orphan" BY <2>2 DEF TypeOK, View
    <3>. QED  BY <1>1, <2>2, <3>1 DEF WorkOK, RunningOK
  <2>. QED  BY <2>1, <2>2
<1>5. AskingOK'
  BY DEF WorkOK, AskingOK
<1>. QED  BY <1>2, <1>3, <1>4, <1>5 DEF WorkOK

LEMMA ReplyBlocks ==
  ASSUME TypeOK, SafeOK, WorkOK, pc = "idle", UNCHANGED sent,
         NEW n \in {last, last + 1}, NEW view, StartReply(n, view),
         \A c \in Call : /\ view[c].res = "running" => mem["context"][c].res = "running"
                         /\ view[c].st = "asking" => view[c] = mem["context"][c]
  PROVE  WorkOK'
<1>1. /\ pc' \in {"idle", "top"} /\ UNCHANGED <<first, owner, batch>>
      /\ failed \subseteq failed' /\ at' = "context"
      /\ last' \in {n, n + 1}
  BY DEF StartReply, calls, acting
<1>2. mem'["context"] = view
  BY DEF StartReply, TypeOK, View
<1>3. last' = last \/ first <= last'
  BY <1>1 DEF WorkOK, AskingOK, TypeOK
<1>. QED  BY <1>1, <1>2, <1>3, InputBlocks

LEMMA ConfirmedBlocks ==
  ASSUME NEW view \in [Call -> Block], NEW c \in Call, NEW yes \in BOOLEAN, NEW d \in Call
  PROVE  /\ Confirmed(view, c, yes)[d].res = view[d].res
         /\ Confirmed(view, c, yes)[d].st = "asking" => Confirmed(view, c, yes)[d] = view[d]
<1>1. CASE d = c BY <1>1 DEF Confirmed, Block
<1>2. CASE d # c BY <1>2 DEF Confirmed
<1>. QED  BY <1>1, <1>2

LEMMA AnsweredBlocks ==
  ASSUME NEW view \in [Call -> Block], NEW c \in Call, NEW d \in Call
  PROVE  /\ Answered(view, c)[d].res = "running" => view[d].res = "running"
         /\ Answered(view, c)[d].st = "asking" => Answered(view, c)[d] = view[d]
<1>1. CASE d = c BY <1>1 DEF Answered
<1>2. CASE d # c BY <1>2 DEF Answered
<1>. QED  BY <1>1, <1>2

LEMMA InputWork ==
  ASSUME TypeOK, SafeOK, WorkOK, Input
  PROVE  WorkOK'
<1>0. mem["context"] \in [Call -> Block]
  BY DEF TypeOK, View
<1>1. CASE ReplyNil \/ ReplyMessage
  BY <1>1, ReplyBlocks DEF ReplyNil, ReplyMessage, history
<1>2. ASSUME NEW c \in Call, NEW yes \in BOOLEAN, ReplyConfirm(c, yes) PROVE WorkOK'
  <2>1. PICK view \in {mem["context"], Confirmed(mem["context"], c, yes)} :
          pc = "idle" /\ UNCHANGED sent /\ StartReply(last, view)
    BY <1>2 DEF ReplyConfirm
  <2>. QED  BY <1>0, <2>1, ConfirmedBlocks, ReplyBlocks
<1>3. ASSUME NEW c \in Call, ReplyExternal(c) PROVE WorkOK'
  <2>1. PICK view \in {mem["context"], Answered(mem["context"], c)} :
          pc = "idle" /\ UNCHANGED sent /\ StartReply(last, view)
    BY <1>3 DEF ReplyExternal, history
  <2>. QED  BY <1>0, <2>1, AnsweredBlocks, ReplyBlocks
<1>4. CASE ObserveMessage
  <2>1. last' = last \/ first <= last'
    BY <1>4 DEF ObserveMessage, WorkOK, AskingOK, TypeOK
  <2>. QED
    BY <1>4, <2>1, InputBlocks DEF ObserveMessage, calls, blocks, acting, history
<1>5. ASSUME NEW c \in Call, NEW yes \in BOOLEAN, ObserveConfirm(c, yes) PROVE WorkOK'
  <2>1. /\ pc = "idle" /\ mem'["context"] = Confirmed(mem["context"], c, yes)
        /\ mem'["orphan"] = mem["orphan"]
        /\ UNCHANGED <<first, last, owner, batch, sent, failed, at, pc>>
    BY <1>5 DEF ObserveConfirm, conversation, calls, acting, TypeOK, View
  <2>. QED  BY <1>0, <2>1, ConfirmedBlocks, InputBlocks
<1>6. ASSUME NEW c \in Call, ObserveExternal(c) PROVE WorkOK'
  <2>1. /\ pc = "idle" /\ mem'["context"] = Answered(mem["context"], c)
        /\ mem'["orphan"] = mem["orphan"]
        /\ UNCHANGED <<first, last, owner, batch, sent, failed, at, pc>>
    BY <1>6 DEF ObserveExternal, conversation, calls, acting, history, TypeOK, View
  <2>. QED  BY <1>0, <2>1, AnsweredBlocks, InputBlocks
<1>. QED  BY <1>1, <1>2, <1>3, <1>4, <1>5, <1>6 DEF Input

LEMMA NextWork ==
  ASSUME TypeOK, FlowOK, SafeOK, WorkOK, [Next]_vars
  PROVE  WorkOK'
<1>1. CASE Input BY <1>1, InputWork
<1>2. CASE Flow
  BY <1>2, TopWork, ExitWork, ReasonWork, ActWork, AllHandledWork, AfterActingWork DEF Flow
<1>3. CASE UNCHANGED vars
  BY <1>3 DEF vars, conversation, calls, blocks, loop, acting, history, WorkOK, TodoOK,
              RunningOK, AskingOK, Working, Assistant
<1>. QED  BY <1>1, <1>2, <1>3 DEF Next

LEMMA WorkAlways == Spec => [](TypeOK /\ FlowOK /\ SafeOK /\ WorkOK)
<1>1. TypeOK /\ FlowOK /\ SafeOK /\ WorkOK /\ [Next]_vars => WorkOK'
  BY NextWork
<1>. QED  BY <1>1, WorkInit, SafeAlways, PTL DEF Spec

\* No call the batch runner has started is left behind: when the agent is idle
\* an open result belongs to a call handed outside or to a reply an error
\* ended (toolBatchRunner.flush on every way out).
THEOREM NothingIsLeftRunning == Spec => []NothingLeftRunning
<1>1. SafeOK /\ WorkOK => NothingLeftRunning
  BY NobodyWorks DEF WorkOK, RunningOK, NothingLeftRunning, Acting
<1>. QED  BY <1>1, WorkAlways, PTL

\* A batch holds concurrency-safe calls only, and a call that runs alone finds
\* every call before it finished (flushBeforeIfNeeded, handle).
THEOREM SerialCallsRunAlone == Spec => []SerialRunsAlone
<1>1. TypeOK /\ SafeOK /\ WorkOK => SerialRunsAlone
  <2>. SUFFICES ASSUME TypeOK, SafeOK, WorkOK PROVE SerialRunsAlone
    OBVIOUS
  <2>1. \A c \in batch : kind[c] = "safe"
    BY DEF WorkOK, TodoOK
  <2>2. ASSUME pc = "exec", NEW c \in todo, NEW b \in Call, IsFirst(c, todo), b < c,
               owner[b] = replyID, Assistant[b].res = "running"
        PROVE  b \in sent \/ replyID \in failed
    <3>1. batch = {}
      BY <2>2 DEF SafeOK, ShapeOK
    <3>2. ~IsFirst(b, todo)
      BY <2>2 DEF IsFirst, TypeOK, Call
    <3>3. ~Working(b)
      BY <3>1, <3>2 DEF Working
    <3>. QED  BY <2>2, <3>3 DEF WorkOK, RunningOK, Assistant
  <2>. QED  BY <2>1, <2>2 DEF SerialRunsAlone
<1>. QED  BY <1>1, WorkAlways, PTL

\* A question asked from the context's own message is that of a call which the
\* context shows asking and without a result; where the call is, AskingOK says.
QuestionsOK ==
  /\ questions \subseteq asked
  /\ \A c \in questions :
       mem["context"][c].st = "asking" /\ mem["context"][c].res = "none"

\* What becomes of the questions when none is asked and the blocks of those left
\* stay as they are.
LEMMA SameQuestions ==
  ASSUME QuestionsOK, UNCHANGED asked, questions' \subseteq questions,
         \A d \in questions' : mem'["context"][d] = mem["context"][d]
  PROVE  QuestionsOK'
BY DEF QuestionsOK

LEMMA InputQuestions ==
  ASSUME TypeOK, QuestionsOK, Input
  PROVE  QuestionsOK'
<1>0. /\ mem["context"] \in [Call -> Block] /\ questions \subseteq Call
      /\ \A n, view : StartReply(n, view) => mem'["context"] = view
  BY DEF TypeOK, View, StartReply
<1>1. CASE ReplyNil \/ ReplyMessage \/ ObserveMessage
  BY <1>0, <1>1, SameQuestions DEF ReplyNil, ReplyMessage, ObserveMessage, history, blocks
<1>2. ASSUME NEW c \in Call, NEW view,
             \/ \E yes \in BOOLEAN : view = Confirmed(mem["context"], c, yes)
             \/ view = Answered(mem["context"], c)
      PROVE  \A d \in questions \ {c} : view[d] = mem["context"][d]
  BY <1>0, <1>2 DEF Confirmed, Answered
<1>3. ASSUME NEW c \in Call, NEW yes \in BOOLEAN, ReplyConfirm(c, yes) PROVE QuestionsOK'
  <2>1. /\ UNCHANGED asked
        /\ \/ mem'["context"] = mem["context"] /\ questions' = questions
           \/ /\ mem'["context"] = Confirmed(mem["context"], c, yes)
              /\ questions' = questions \ {c}
    BY <1>0, <1>3 DEF ReplyConfirm
  <2>. QED  BY <1>2, <2>1, SameQuestions
<1>4. ASSUME NEW c \in Call, ReplyExternal(c) PROVE QuestionsOK'
  <2>1. /\ UNCHANGED asked
        /\ \/ mem'["context"] = mem["context"] /\ questions' = questions
           \/ mem'["context"] = Answered(mem["context"], c) /\ questions' = questions \ {c}
    BY <1>0, <1>4 DEF ReplyExternal
  <2>. QED  BY <1>2, <2>1, SameQuestions
<1>5. ASSUME NEW c \in Call, NEW yes \in BOOLEAN, ObserveConfirm(c, yes) PROVE QuestionsOK'
  <2>1. /\ UNCHANGED asked /\ questions' = questions \ {c}
        /\ mem'["context"] = Confirmed(mem["context"], c, yes)
    BY <1>5 DEF ObserveConfirm, TypeOK, View
  <2>. QED  BY <1>2, <2>1, SameQuestions
<1>6. ASSUME NEW c \in Call, ObserveExternal(c) PROVE QuestionsOK'
  <2>1. /\ UNCHANGED asked /\ questions' = questions \ {c}
        /\ mem'["context"] = Answered(mem["context"], c)
    BY <1>6 DEF ObserveExternal, TypeOK, View
  <2>. QED  BY <1>2, <2>1, SameQuestions
<1>. QED  BY <1>1, <1>3, <1>4, <1>5, <1>6 DEF Input

\* Only HandleAsk asks.
LEMMA OnlyAskAsks ==
  ASSUME NEW c \in Call, Act(c), ~HandleAsk(c)
  PROVE  UNCHANGED <<asked, questions>>
BY DEF Act, FlushBefore, HandleUncallable, EngineError, HandleDenied, HandleExternal,
       HandleLocal, Exec, RunBatched, Settle, history

\* A call in hand is not one of the questions, so its new block is none of theirs.
LEMMA InHandNoQuestion ==
  ASSUME TypeOK, FlowOK, SafeOK, WorkOK, QuestionsOK, NEW c \in Call, StepOf(c),
         NEW d \in questions
  PROVE  mem'["context"][d] = mem["context"][d]
<1>1. PICK b : CallStep(c, b)
  BY DEF StepOf, Moves
<1>2. d \in Call /\ Assistant \in [Call -> Block] /\ "context" \in View
  BY AssistantType DEF TypeOK, View
<1>3. CASE at # "context"
  BY <1>1, <1>2, <1>3 DEF CallStep
<1>4. CASE at = "context"
  <2>1. Assistant[c].res = "running" \/ Assistant[c].st \in {"pending", "allowed"}
    BY <1>1 DEF CallStep, WorkOK, TodoOK, StepOf
  <2>2. Assistant[d].res = "none" /\ Assistant[d].st = "asking"
    BY <1>4 DEF QuestionsOK, Assistant
  <2>. QED  BY <1>1, <1>2, <1>4, <2>1, <2>2 DEF CallStep, Assistant
<1>. QED  BY <1>3, <1>4

LEMMA ActQuestions ==
  ASSUME TypeOK, FlowOK, SafeOK, WorkOK, QuestionsOK, NEW c \in Call, Act(c)
  PROVE  QuestionsOK'
<1>1. CASE HandleAsk(c)
  <2>1. /\ asked' = asked \cup {c}
        /\ questions' = IF at = "context" THEN questions \cup {c} ELSE questions
        /\ Apply([Assistant EXCEPT ![c].st = "asking"]) /\ Handling(c)
    BY <1>1 DEF HandleAsk
  <2>2. Assistant[c].res = "none" /\ Assistant \in [Call -> Block]
    BY <2>1, HandlingWork, AssistantType
  <2>. DEFINE b == [Assistant[c] EXCEPT !.st = "asking"]
  <2>3. b.st = "asking" /\ b.res = "none"
    BY <2>2 DEF Block
  <2>4. at = "context" => mem'["context"][c] = b
    <3>1. [Assistant EXCEPT ![c].st = "asking"][c] = b
      BY <2>2
    <3>. QED  BY <2>1, <3>1, ApplyBlocks
  <2>. HIDE DEF b
  <2>5. \A d \in questions : mem'["context"][d] = mem["context"][d]
    BY <1>1, HandleAskStep, InHandNoQuestion
  <2>. QED  BY <2>1, <2>3, <2>4, <2>5 DEF QuestionsOK
<1>2. CASE ~HandleAsk(c)
  <2>1. UNCHANGED <<asked, questions>>
    BY <1>2, OnlyAskAsks
  <2>2. CASE StepOf(c)
    BY <2>1, <2>2, InHandNoQuestion, SameQuestions
  <2>3. CASE FlushBefore(c) \/ RunBatched(c)
    BY <2>1, <2>3, SameQuestions DEF FlushBefore, RunBatched, blocks
  <2>. QED  BY <2>2, <2>3, ActStep
<1>. QED  BY <1>1, <1>2

LEMMA ReasonQuestions ==
  ASSUME TypeOK, SafeOK, QuestionsOK,
         NEW n \in 0..TurnCalls, NEW k \in [1..n -> Kinds], Reason(n, k)
  PROVE  QuestionsOK'
<1>. DEFINE new  == (made + 1)..(made + n)
            view == [c \in Call |-> IF c \in new THEN [st |-> "pending", res |-> "none"]
                                                 ELSE Assistant[c]]
<1>1. Apply(view) /\ UNCHANGED <<asked, questions>> /\ made \in Nat /\ n \in Nat
  BY DEF Reason, TypeOK
<1>2. \A d \in questions : d \in Call /\ d \notin new
  BY <1>1 DEF QuestionsOK, SafeOK, ShapeOK, TypeOK, Call
<1>3. \A d \in questions : view[d] = Assistant[d]
  BY <1>2
<1>. HIDE DEF new, view
<1>4. mem'[at] = view /\ (at # "context" => mem'["context"] = mem["context"])
  BY <1>1, ApplyBlocks DEF View
<1>. QED  BY <1>1, <1>3, <1>4, SameQuestions DEF Assistant

LEMMA NextQuestions ==
  ASSUME TypeOK, FlowOK, SafeOK, WorkOK, QuestionsOK, [Next]_vars
  PROVE  QuestionsOK'
<1>1. CASE Input BY <1>1, InputQuestions
<1>2. CASE Top \/ AfterActing
  <2>1. (KeepContext \/ Compact) /\ UNCHANGED <<asked, questions>>
    BY <1>2 DEF Top, AfterActing, history
  <2>2. mem'["context"] = mem["context"]
    BY <2>1, CompactSafe
  <2>. QED  BY <2>1, <2>2, SameQuestions
<1>3. CASE Exceed \/ AllHandled \/ End \/ UNCHANGED vars
  BY <1>3, SameQuestions DEF Exceed, AllHandled, End, vars, history, blocks
<1>. QED  BY <1>1, <1>2, <1>3, ActQuestions, ReasonQuestions DEF Next, Flow

\* A question the loop has put to the user from the context's own message stands
\* there, unanswered, until an answer is applied to it, however often the context
\* is compacted, replies fail and others are made meanwhile
\* (firstUnresolvedToolMessageIndex).
THEOREM QuestionsAlwaysStand == Spec => []QuestionsStand
<1>1. Init => QuestionsOK
  BY DEF Init, QuestionsOK
<1>2. TypeOK /\ FlowOK /\ SafeOK /\ WorkOK /\ QuestionsOK /\ [Next]_vars => QuestionsOK'
  BY NextQuestions
<1>3. TypeOK /\ WorkOK /\ QuestionsOK => QuestionsStand
  BY DEF TypeOK, WorkOK, AskingOK, QuestionsOK, QuestionsStand
<1>. QED  BY <1>1, <1>2, <1>3, WorkAlways, PTL DEF Spec

-------------------------------------------------------------------------------
(* The life of a call while the context is not compacted                   *)

\* Without compaction the loop works on the context, and what it says of a call
\* tells whether the call exists, was handed outside, was asked about, and has run.
CallLifeOK(c) ==
  /\ c > made => mem["context"][c] = NoBlock
  /\ mem["context"][c].res = "none" => ran[c] = 0 /\ c \notin sent
  /\ c \in asked => mem["context"][c].st # "pending" \/ mem["context"][c].res # "none"
  /\ Working(c) => c \notin sent /\ (pc = "exec" \/ c \notin ranBatch => ran[c] = 0)
  /\ ran[c] <= 1

LifeOK == at = "context" /\ \A c \in Call : CallLifeOK(c)

AllOK == TypeOK /\ FlowOK /\ SafeOK /\ WorkOK /\ LifeOK

LEMMA LifeInit == Init => LifeOK
BY DEF Init, LifeOK, CallLifeOK, Working, NoBlock, View, Call, IsFirst

LEMMA StepLife ==
  ASSUME AllOK, SafeOK', NEW c \in Call, StepOf(c)
  PROVE  LifeOK'
<1>1. PICK b : CallStep(c, b) /\ CallLife(c, b)
  BY DEF StepOf, Moves
<1>2. /\ at' = "context" /\ at = "context" /\ UNCHANGED <<made, owner, replyID>>
      /\ mem["context"] \in [Call -> Block] /\ Assistant = mem["context"]
      /\ mem'["context"] = [mem["context"] EXCEPT ![c] = b]
      /\ ran \in [Call -> Nat]
      /\ pc' = "exec" => batch' = {}
  BY <1>1 DEF AllOK, LifeOK, StepOf, ActFrame, calls, loop, CallStep, Assistant, TypeOK, View,
              SafeOK, ShapeOK
<1>3. /\ mem'["context"][c] = b /\ \A d \in Call \ {c} : mem'["context"][d] = mem["context"][d]
      /\ \A d \in Call \ {c} : ran'[d] = ran[d] /\ (d \in sent' <=> d \in sent)
                               /\ (d \in asked' <=> d \in asked)
  BY <1>1, <1>2 DEF CallLife
<1>4. CallLifeOK(c) /\ c <= made /\ (pc = "exec" => ran[c] = 0)
  <2>1. CallLifeOK(c) BY DEF AllOK, LifeOK
  <2>2. pc = "exec" => Working(c)
    BY <1>1 DEF AllOK, SafeOK, ShapeOK, Working, CallStep, Acting, IsFirst
  <2>3. c \in todo => c <= made
    BY DEF StepOf, AllOK, SafeOK, ShapeOK
  <2>4. c \in batch => mem["context"][c] # NoBlock
    BY <1>2 DEF AllOK, WorkOK, TodoOK, NoBlock
  <2>5. c <= made \/ c > made BY DEF AllOK, TypeOK, Call
  <2>. QED  BY <1>1, <2>1, <2>2, <2>3, <2>4, <2>5 DEF CallLifeOK, CallStep
<1>5. ASSUME NEW d \in Call, Working(d)'
      PROVE  d \notin sent' /\ (pc' = "exec" \/ d \notin ranBatch' => ran'[d] = 0)
  <2>1. CASE d = c
    <3>1. Assistant[c].res = "none" /\ UNCHANGED <<ran, sent>>
      BY <1>1, <1>2, <1>5, <2>1 DEF Working, CallLife
    <3>. QED  BY <1>2, <1>4, <2>1, <3>1 DEF CallLifeOK
  <2>2. CASE d # c
    <3>1. d \in batch' /\ d \in batch /\ owner[d] = replyID
      BY <1>1, <1>2, <1>5, <2>2, OneFirst DEF Working, CallStep, AllOK, TypeOK
    <3>2. CallLifeOK(d) /\ Working(d)
      BY <3>1 DEF AllOK, LifeOK, Working
    <3>. QED  BY <1>1, <1>2, <1>3, <2>2, <3>1, <3>2 DEF CallLifeOK, CallLife
  <2>. QED  BY <2>1, <2>2
<1>6. CallLifeOK(c)'
  <2>1. b.res = "none" => ran'[c] = 0 /\ c \notin sent'
    BY <1>1, <1>2, <1>4 DEF CallLife, CallLifeOK
  <2>2. c \in asked' => b.st # "pending" \/ b.res # "none"
    BY <1>1, <1>2, <1>4 DEF CallLife, CallLifeOK
  <2>3. ran'[c] <= 1
    BY <1>1, <1>2, <1>4 DEF CallLife, CallLifeOK
  <2>4. ~(c > made')
    BY <1>2, <1>4 DEF AllOK, TypeOK, Call
  <2>. QED  BY <1>3, <1>5, <2>1, <2>2, <2>3, <2>4 DEF CallLifeOK
<1>7. ASSUME NEW d \in Call \ {c} PROVE CallLifeOK(d)'
  BY <1>2, <1>3, <1>5, <1>7 DEF AllOK, LifeOK, CallLifeOK
<1>. QED  BY <1>2, <1>6, <1>7 DEF LifeOK

\* A step that leaves the blocks alone, of the loop or between two calls.
LEMMA QuietLife ==
  ASSUME LifeOK, UNCHANGED <<mem, at, made, owner, replyID, ran, sent, asked>>,
         pc # "exec", pc' # "exec", batch' = {} \/ UNCHANGED <<batch, ranBatch>>
  PROVE  LifeOK'
BY DEF LifeOK, CallLifeOK, Working

LEMMA RunBatchedLife ==
  ASSUME AllOK, NEW c \in Call, RunBatched(c)
  PROVE  LifeOK' /\ ran[c] = 0 /\ c \notin sent /\ mem["context"][c].res = "running"
<1>1. /\ UNCHANGED <<mem, at, made, owner, replyID, batch, sent, asked>>
      /\ ran' = [ran EXCEPT ![c] = @ + 1] /\ ranBatch' = ranBatch \cup {c}
      /\ pc = "flush" /\ pc' # "exec" /\ c \in batch /\ c \notin ranBatch
      /\ ran \in [Call -> Nat]
  BY DEF RunBatched, calls, blocks, loop, AllOK, TypeOK
<1>2. Working(c) /\ CallLifeOK(c) /\ mem["context"][c].res = "running"
  BY <1>1 DEF Working, AllOK, WorkOK, TodoOK, LifeOK, Assistant
<1>3. ran[c] = 0 /\ c \notin sent
  BY <1>1, <1>2 DEF CallLifeOK
<1>4. CallLifeOK(c)'
  BY <1>1, <1>2, <1>3 DEF CallLifeOK
<1>5. ASSUME NEW d \in Call \ {c} PROVE CallLifeOK(d)'
  BY <1>1, <1>5 DEF AllOK, LifeOK, CallLifeOK, Working
<1>. QED  BY <1>1, <1>2, <1>3, <1>4, <1>5 DEF LifeOK, AllOK

\* The model announces new calls: nothing is known of them yet.
LEMMA ReasonLife ==
  ASSUME AllOK, NEW n \in 0..TurnCalls, NEW k \in [1..n -> Kinds], Reason(n, k)
  PROVE  LifeOK'
<1>. DEFINE new  == (made + 1)..(made + n)
            view == [c \in Call |-> IF c \in new THEN [st |-> "pending", res |-> "none"]
                                                 ELSE Assistant[c]]
<1>1. /\ pc = "model" /\ Apply(view) /\ UNCHANGED <<at, replyID, batch, ran, sent, asked>>
      /\ made' = made + n /\ pc' \in {"idle", "end", "single", "handle"}
  BY DEF Reason, Continue, loop
<1>2. at = "context" /\ mem'["context"] = view /\ batch' = {}
  BY <1>1, ApplyBlocks, NobodyWorks DEF AllOK, LifeOK, Acting
<1>3. made \in Nat /\ n \in Nat
  BY BoundsAssumption DEF AllOK, TypeOK
<1>4. ASSUME NEW c \in Call PROVE CallLifeOK(c)'
  <2>1. ~Working(c)'
    BY <1>1, <1>2 DEF Working
  <2>2. CallLifeOK(c) /\ (c \in asked => c <= made)
    BY DEF AllOK, LifeOK, SafeOK, ShapeOK
  <2>3. CASE c \in new
    <3>1. mem'["context"][c] = [st |-> "pending", res |-> "none"] /\ c > made /\ ~(c > made')
      BY <1>1, <1>2, <1>3, <2>3
    <3>. HIDE DEF new, view
    <3>2. mem["context"][c].res = "none" /\ c \notin asked
      BY <1>3, <2>2, <3>1 DEF CallLifeOK, NoBlock, Call
    <3>. QED  BY <1>1, <2>1, <2>2, <3>1, <3>2 DEF CallLifeOK
  <2>4. CASE c \notin new
    <3>1. mem'["context"][c] = mem["context"][c] /\ (c > made' => c > made)
      BY <1>1, <1>2, <1>3, <2>4 DEF Assistant, Call
    <3>. HIDE DEF new, view
    <3>. QED  BY <1>1, <2>1, <2>2, <3>1 DEF CallLifeOK
  <2>. QED  BY <2>3, <2>4
<1>. QED  BY <1>1, <1>2, <1>4 DEF LifeOK

\* What the input makes of the context: a confirmation reaches a call that was
\* put to the user, a result one that was handed outside.
Heard(view) ==
  \/ view = mem["context"]
  \/ \E c \in Call, yes \in BOOLEAN : c \in asked /\ view = Confirmed(mem["context"], c, yes)
  \/ \E c \in Call : c \in sent /\ view = Answered(mem["context"], c)

\* It opens no result of a call that has none, and does not touch a call that
\* does not exist.
LEMMA HeardBlocks ==
  ASSUME AllOK, NEW view, Heard(view)
  PROVE  \A d \in Call : /\ d > made => view[d] = NoBlock
                         /\ view[d].res = "none" => mem["context"][d].res = "none"
                         /\ view[d].res = "none" /\ view[d].st = "pending"
                              => mem["context"][d].st = "pending"
<1>1. mem["context"] \in [Call -> Block]
      /\ \A d \in Call : CallLifeOK(d) /\ (d > made => mem["context"][d] = NoBlock)
  BY DEF AllOK, TypeOK, View, LifeOK, CallLifeOK
<1>2. \A c \in Call : c \in asked \/ c \in sent => ~(c > made)
  BY <1>1 DEF AllOK, SafeOK, ShapeOK, CallLifeOK, NoBlock, TypeOK, Call
<1>3. ASSUME NEW c \in Call, NEW yes \in BOOLEAN,
             c \in asked /\ view = Confirmed(mem["context"], c, yes)
      PROVE  /\ view[c].st # "pending" /\ view[c].res = mem["context"][c].res
             /\ \A d \in Call : d # c => view[d] = mem["context"][d]
  BY <1>1, <1>3 DEF Confirmed, Block
<1>4. ASSUME NEW c \in Call, c \in sent /\ view = Answered(mem["context"], c)
      PROVE  /\ view[c].res = "answered"
             /\ \A d \in Call : d # c => view[d] = mem["context"][d]
  BY <1>1, <1>4 DEF Answered
<1>. QED  BY <1>1, <1>2, <1>3, <1>4 DEF Heard

LEMMA ReplyFrame ==
  ASSUME AllOK, NEW n, NEW view, StartReply(n, view), Heard(view), UNCHANGED <<ran, sent, asked>>
  PROVE  /\ pc' \in {"idle", "top"} /\ at' = "context"
         /\ UNCHANGED <<made, owner, batch, ran, sent, asked>> /\ Heard(mem'["context"])
<1>1. mem'["context"] = view
  BY DEF StartReply, AllOK, TypeOK, View
<1>. QED  BY <1>1 DEF StartReply, calls, acting

LEMMA InputFrame ==
  ASSUME AllOK, Input
  PROVE  /\ pc = "idle" /\ pc' \in {"idle", "top"} /\ at' = "context"
         /\ UNCHANGED <<made, owner, batch, ran, sent, asked>> /\ Heard(mem'["context"])
<1>1. CASE ReplyNil \/ ReplyMessage
  BY <1>1, ReplyFrame DEF ReplyNil, ReplyMessage, history, Heard
<1>2. ASSUME NEW c \in Call, NEW yes \in BOOLEAN, ReplyConfirm(c, yes)
      PROVE  pc = "idle" /\ \E view : StartReply(last, view) /\ Heard(view)
                                      /\ UNCHANGED <<ran, sent, asked>>
  BY <1>2 DEF ReplyConfirm, Heard
<1>3. ASSUME NEW c \in Call, ReplyExternal(c)
      PROVE  pc = "idle" /\ \E view : StartReply(last, view) /\ Heard(view)
                                      /\ UNCHANGED <<ran, sent, asked>>
  BY <1>3 DEF ReplyExternal, Heard, history
<1>4. CASE ObserveMessage
  BY <1>4 DEF ObserveMessage, AllOK, LifeOK, calls, blocks, acting, history, Heard
<1>5. ASSUME NEW c \in Call, NEW yes \in BOOLEAN, ObserveConfirm(c, yes)
      PROVE  /\ pc = "idle" /\ UNCHANGED <<pc, at, made, owner, batch, ran, sent, asked>>
             /\ Heard(mem'["context"])
  <2>1. mem'["context"] = Confirmed(mem["context"], c, yes) /\ c \in asked
    BY <1>5 DEF ObserveConfirm, AllOK, TypeOK, View
  <2>. QED  BY <1>5, <2>1 DEF ObserveConfirm, calls, acting, Heard
<1>6. ASSUME NEW c \in Call, ObserveExternal(c)
      PROVE  /\ pc = "idle" /\ UNCHANGED <<pc, at, made, owner, batch, ran, sent, asked>>
             /\ Heard(mem'["context"])
  <2>1. mem'["context"] = Answered(mem["context"], c) /\ c \in sent
    BY <1>6 DEF ObserveExternal, AllOK, TypeOK, View
  <2>. QED  BY <1>6, <2>1 DEF ObserveExternal, calls, acting, history, Heard
<1>. QED
  BY <1>1, <1>2, <1>3, <1>4, <1>5, <1>6, ReplyFrame DEF Input, AllOK, LifeOK

LEMMA InputLife ==
  ASSUME AllOK, Input
  PROVE  LifeOK'
<1>1. /\ pc = "idle" /\ pc' \in {"idle", "top"} /\ at' = "context"
      /\ UNCHANGED <<made, batch, ran, sent, asked>> /\ batch = {}
  BY InputFrame, NobodyWorks DEF AllOK, Acting
<1>2. \A d \in Call : /\ d > made => mem'["context"][d] = NoBlock
                      /\ mem'["context"][d].res = "none" => mem["context"][d].res = "none"
                      /\ mem'["context"][d].res = "none" /\ mem'["context"][d].st = "pending"
                           => mem["context"][d].st = "pending"
  BY InputFrame, HeardBlocks
<1>. QED  BY <1>1, <1>2 DEF AllOK, LifeOK, CallLifeOK, Working

\* The steps of continueReply between the model and the tools.
Between == Top \/ Exceed \/ AllHandled \/ AfterActing \/ End \/ \E c \in Call : FlushBefore(c)

LEMMA BetweenFrame ==
  ASSUME Compaction = FALSE, AllOK, Between
  PROVE  /\ UNCHANGED <<mem, at, made, owner, replyID, ran, permitted, sent, asked>>
         /\ pc # "exec" /\ pc' # "exec" /\ (batch' = {} \/ UNCHANGED <<batch, ranBatch>>)
<1>1. pc = "top" \/ pc = "after" => batch = {}
  BY NobodyWorks DEF AllOK, Acting
<1>. QED
  BY <1>1 DEF Between, Top, Exceed, AllHandled, AfterActing, End, FlushBefore, Compact,
     KeepContext, Fail, conversation, calls, blocks, loop, acting, history

LEMMA NextLife ==
  ASSUME Compaction = FALSE, AllOK, SafeOK', [Next]_vars
  PROVE  LifeOK'
<1>1. CASE Input BY <1>1, InputLife
<1>2. CASE Between BY <1>2, BetweenFrame, QuietLife DEF AllOK
<1>3. ASSUME NEW c \in Call, Act(c) PROVE LifeOK'
  BY <1>2, <1>3, ActStep, StepLife, RunBatchedLife DEF AllOK, Between
<1>4. CASE UNCHANGED vars
  BY <1>4 DEF vars, calls, blocks, loop, acting, history, AllOK, LifeOK, CallLifeOK, Working
<1>. QED  BY <1>1, <1>2, <1>3, <1>4, ReasonLife DEF Next, Flow, Between

LEMMA LifeAlways == ASSUME Compaction = FALSE PROVE Spec => []AllOK
<1>1. Init => AllOK
  BY InitType, InitSafe, WorkInit, LifeInit DEF AllOK
<1>2. AllOK /\ [Next]_vars => AllOK'
  BY NextType, NextSafe, NextWork, NextLife DEF AllOK
<1>. QED  BY <1>1, <1>2, PTL DEF Spec

\* While the context is not compacted no call ever runs twice, however
\* confirmations, external results, errors and resumed replies follow one
\* another (pendingToolCalls and the result block prepareToolCall opens first).
THEOREM CallsRunAtMostOnce == ASSUME Compaction = FALSE PROVE Spec => []RunsAtMostOnce
<1>1. AllOK => RunsAtMostOnce
  BY DEF AllOK, LifeOK, CallLifeOK, RunsAtMostOnce
<1>. QED  BY <1>1, LifeAlways, PTL

-------------------------------------------------------------------------------
(* The life of a call implements its abstract life                         *)

Phases == [c \in Call |-> PhaseOf(c)]

LEMMA PhaseCases ==
  ASSUME NEW b \in Block, NEW out
  PROVE  /\ b.res \in {"done", "denied", "answered"} => PhaseIn(b, out) = "closed"
         /\ b.res = "running" => PhaseIn(b, out) = IF out THEN "outside" ELSE "open"
         /\ b.res = "none" =>
              /\ b.st = "none" => PhaseIn(b, out) = "unborn"
              /\ b.st = "pending" => PhaseIn(b, out) = "proposed"
              /\ b.st = "asking" => PhaseIn(b, out) = "asking"
              /\ b.st = "allowed" => PhaseIn(b, out) = "granted"
              /\ b.st \in {"submitted", "finished"} => PhaseIn(b, out) = "refused"
BY DEF PhaseIn

LEMMA PhaseNow ==
  /\ Phases = [c \in Call |-> PhaseIn(mem["context"][c], c \in sent)]
  /\ Phases' = [c \in Call |-> PhaseIn(mem'["context"][c], c \in sent')]
BY DEF Phases, PhaseOf

\* Only the block of call c changes.
LEMMA OnePhase ==
  ASSUME NEW c \in Call, NEW b, UNCHANGED sent \/ sent' = sent \cup {c},
         mem["context"] \in [Call -> Block], mem'["context"] = [mem["context"] EXCEPT ![c] = b]
  PROVE  Phases' = [Phases EXCEPT ![c] = PhaseIn(b, c \in sent')]
<1>1. /\ mem'["context"][c] = b
      /\ \A d \in Call : d # c => /\ mem'["context"][d] = mem["context"][d]
                                  /\ d \in sent' <=> d \in sent
  OBVIOUS
<1>2. \A d \in Call : d # c => PhaseIn(mem'["context"][d], d \in sent')
                                 = PhaseIn(mem["context"][d], d \in sent)
  <2>. TAKE d \in Call
  <2>. HAVE d # c
  <2>1. (d \in sent') = (d \in sent) BY <1>1
  <2>. QED  BY <1>1, <2>1
<1>. QED  BY <1>1, <1>2, PhaseNow

\* The variables of the abstract life.
LifeVars == <<Phases, permitted, ran>>

LEMMA SamePhases ==
  ASSUME UNCHANGED sent, mem'["context"] = mem["context"]
  PROVE  Phases' = Phases
BY PhaseNow

LEMMA NowOK ==
  ASSUME AllOK, NEW c \in Call
  PROVE  /\ at = "context" /\ Assistant = mem["context"] /\ mem["context"] \in [Call -> Block]
         /\ mem["context"][c] \in Block
         /\ Phases[c] = PhaseIn(mem["context"][c], c \in sent)
         /\ CallLifeOK(c) /\ ran \in [Call -> Nat]
BY PhaseNow DEF AllOK, TypeOK, View, LifeOK, Assistant

LEMMA HandlingPhase ==
  ASSUME AllOK, NEW c \in Call, Handling(c)
  PROVE  /\ Phases[c] \in {"proposed", "granted"} /\ c \notin sent
         /\ NeedsCheck(c) => Phases[c] = "proposed"
<1>1. mem["context"][c].res = "none" /\ mem["context"][c].st \in {"pending", "allowed"}
  BY NowOK, HandlingWork DEF AllOK
<1>2. c \notin sent
  BY <1>1, NowOK DEF CallLifeOK
<1>. QED  BY <1>1, <1>2, NowOK, PhaseCases DEF NeedsCheck

\* The result of the call in hand opens, or an error is its result.
LEMMA OpenSim ==
  ASSUME AllOK, NEW c \in Call, Handling(c), NEW b \in Block, b.res # "none",
         Apply([Assistant EXCEPT ![c] = b]), UNCHANGED sent \/ sent' = sent \cup {c},
         permitted' \in {permitted, permitted \cup {c}}, UNCHANGED ran
  PROVE  Lifecycle!Open(c)
<1>1. mem'["context"] = [mem["context"] EXCEPT ![c] = b]
  BY NowOK, ApplyBlocks DEF AllOK
<1>2. Phases' = [Phases EXCEPT ![c] = PhaseIn(b, c \in sent')]
  BY <1>1, NowOK, OnePhase
<1>3. PhaseIn(b, c \in sent') \in {"open", "outside", "closed"}
  BY PhaseCases DEF Block, ResultState
<1>. QED
  BY <1>2, <1>3, HandlingPhase DEF Lifecycle!Open, Lifecycle!Become, Phases

LEMMA ToolErrorSim ==
  ASSUME AllOK, NEW c \in Call, Handling(c), NEW how \in {"done", "denied"}, ToolError(c, how),
         UNCHANGED <<sent, permitted, ran>>
  PROVE  Lifecycle!Open(c)
<1>0. mem["context"][c].st \in CallState /\ Assistant = mem["context"]
  BY NowOK DEF Block
<1>1. CASE Apply([Assistant EXCEPT ![c] = [st |-> "finished", res |-> how]])
  BY <1>1, OpenSim DEF Block, CallState, ResultState
<1>2. ASSUME NEW res \in {"running", how},
             Apply([Assistant EXCEPT ![c] =
                     [st |-> IF res = how \/ how = "denied" THEN "finished" ELSE @.st,
                      res |-> res]])
      PROVE  Lifecycle!Open(c)
  <2>. DEFINE b == [st |-> IF res = how \/ how = "denied" THEN "finished"
                           ELSE Assistant[c].st,
                    res |-> res]
  <2>1. b \in Block /\ b.res # "none"
    BY <1>0 DEF Block, CallState, ResultState
  <2>2. Apply([Assistant EXCEPT ![c] = b])
    BY <1>2
  <2>. HIDE DEF b
  <2>. QED  BY <2>1, <2>2, OpenSim
<1>. QED  BY <1>1, <1>2 DEF ToolError

LEMMA PermitSim ==
  ASSUME AllOK, NEW c \in Call, HandleExternal(c) \/ HandleLocal(c)
  PROVE  Lifecycle!Open(c)
<1>1. PICK st \in {"allowed", "submitted"} :
        /\ Handling(c) /\ Apply([Assistant EXCEPT ![c] = [st |-> st, res |-> "running"]])
        /\ UNCHANGED sent \/ sent' = sent \cup {c}
        /\ permitted' \in {permitted, permitted \cup {c}} /\ UNCHANGED ran
  BY DEF HandleExternal, HandleLocal, Permit
<1>2. [st |-> st, res |-> "running"] \in Block
  BY DEF Block, CallState, ResultState
<1>. QED  BY <1>1, <1>2, OpenSim

LEMMA AskSim ==
  ASSUME AllOK, NEW c \in Call, HandleAsk(c)
  PROVE  Lifecycle!Ask(c)
<1>1. /\ Handling(c) /\ NeedsCheck(c) /\ UNCHANGED <<sent, permitted, ran>>
      /\ Apply([Assistant EXCEPT ![c].st = "asking"])
  BY DEF HandleAsk
<1>2. Assistant[c].res = "none" /\ Assistant[c] \in Block
  BY <1>1, HandlingWork DEF AllOK
<1>3. [Assistant[c] EXCEPT !.st = "asking"] = [st |-> "asking", res |-> "none"]
  BY <1>2 DEF Block
<1>4. mem'["context"] = [mem["context"] EXCEPT ![c] = [st |-> "asking", res |-> "none"]]
  BY <1>1, <1>3, NowOK, ApplyBlocks DEF AllOK
<1>5. Phases' = [Phases EXCEPT ![c] = "asking"]
  <2>1. [st |-> "asking", res |-> "none"] \in Block
    BY DEF Block, CallState, ResultState
  <2>. QED  BY <1>1, <1>4, <2>1, NowOK, OnePhase, PhaseCases, SMTT(60)
<1>. QED  BY <1>1, <1>5, HandlingPhase DEF Lifecycle!Ask, Lifecycle!Become, Phases

\* A tool that is batched or alone runs, or its result is emitted.
LEMMA WorkingPhase ==
  ASSUME AllOK, NEW c \in Call, Working(c)
  PROVE  /\ Phases[c] = "open" /\ c \notin sent /\ c \in permitted
         /\ Assistant[c].res = "running"
<1>1. Assistant[c].res = "running" /\ c \notin sent /\ c \in permitted
  BY NowOK DEF Working, AllOK, WorkOK, TodoOK, CallLifeOK, SafeOK, PermitOK, Acting, IsFirst
<1>2. mem["context"][c] \in Block /\ mem["context"][c].res = "running"
  BY <1>1, NowOK
<1>3. PhaseIn(mem["context"][c], c \in sent) = "open"
  BY <1>1, <1>2, PhaseCases
<1>. QED  BY <1>1, <1>3, NowOK

LEMMA SameOrClosed ==
  ASSUME AllOK, NEW c \in Call, Working(c), UNCHANGED sent,
         UNCHANGED mem \/ Apply([Assistant EXCEPT ![c] = Done])
  PROVE  Phases' = [Phases EXCEPT ![c] = "open"] \/ Phases' = [Phases EXCEPT ![c] = "closed"]
<1>1. CASE UNCHANGED mem
  <2>1. Phases' = Phases BY <1>1, SamePhases
  <2>. QED  BY <2>1, WorkingPhase DEF Phases
<1>2. CASE Apply([Assistant EXCEPT ![c] = Done])
  <2>1. mem'["context"] = [mem["context"] EXCEPT ![c] = Done]
    BY <1>2, NowOK, ApplyBlocks DEF AllOK
  <2>2. PhaseIn(Done, c \in sent') = "closed"
    BY PhaseCases DEF Done, Block, CallState, ResultState
  <2>. QED  BY <2>1, <2>2, NowOK, OnePhase
<1>. QED  BY <1>1, <1>2

LEMMA ExecSim ==
  ASSUME AllOK, NEW c \in Call, Exec(c)
  PROVE  Lifecycle!Run(c)
<1>1. /\ pc = "exec" /\ IsFirst(c, todo) /\ ran' = [ran EXCEPT ![c] = @ + 1]
      /\ UNCHANGED <<sent, permitted>>
      /\ UNCHANGED mem \/ Apply([Assistant EXCEPT ![c] = Done])
  BY DEF Exec, Done
<1>2. Working(c)
  BY <1>1 DEF Working, IsFirst, AllOK, SafeOK, ShapeOK, Acting
<1>3. ran[c] = 0
  BY <1>1, <1>2, NowOK DEF CallLifeOK
<1>4. ran' = [ran EXCEPT ![c] = 1]
  BY <1>1, <1>3
<1>. QED
  BY <1>1, <1>2, <1>3, <1>4, WorkingPhase, SameOrClosed DEF Lifecycle!Run, Lifecycle!Become, Phases

LEMMA RunBatchedSim ==
  ASSUME AllOK, NEW c \in Call, RunBatched(c)
  PROVE  Lifecycle!Run(c)
<1>1. Working(c) /\ UNCHANGED <<sent, permitted, mem>> /\ ran' = [ran EXCEPT ![c] = @ + 1]
  BY DEF RunBatched, Working, AllOK, WorkOK, TodoOK, blocks
<1>2. ran[c] = 0 BY RunBatchedLife
<1>4. ran' = [ran EXCEPT ![c] = 1] BY <1>1, <1>2
<1>3. Phases' = [Phases EXCEPT ![c] = "open"]
  <2>1. Phases' = Phases BY <1>1, SamePhases
  <2>. QED  BY <1>1, <2>1, WorkingPhase DEF Phases
<1>. QED  BY <1>1, <1>2, <1>3, <1>4, WorkingPhase DEF Lifecycle!Run, Lifecycle!Become, Phases

LEMMA SettleSim ==
  ASSUME AllOK, NEW c \in Call, Settle(c)
  PROVE  Lifecycle!Close(c) \/ UNCHANGED LifeVars
<1>1. /\ c \in batch /\ UNCHANGED <<sent, permitted, ran>>
      /\ UNCHANGED mem \/ Apply([Assistant EXCEPT ![c] = Done])
  BY DEF Settle, Done, IsFirst, history
<1>2. Working(c)
  BY <1>1 DEF Working, AllOK, WorkOK, TodoOK
<1>3. CASE Phases' = [Phases EXCEPT ![c] = "open"]
  BY <1>1, <1>2, <1>3, WorkingPhase DEF LifeVars, Phases
<1>4. CASE Phases' = [Phases EXCEPT ![c] = "closed"]
  BY <1>1, <1>2, <1>4, WorkingPhase DEF Lifecycle!Close, Lifecycle!Become, Phases
<1>. QED  BY <1>1, <1>2, <1>3, <1>4, SameOrClosed

LEMMA ActSim ==
  ASSUME AllOK, NEW c \in Call, Act(c)
  PROVE  Lifecycle!Next \/ UNCHANGED LifeVars
<1>1. CASE HandleUncallable(c) \/ HandleDenied(c)
  <2>1. Lifecycle!Open(c)
    BY <1>1, ToolErrorSim DEF HandleUncallable, HandleDenied, history
  <2>. QED  BY <2>1 DEF Lifecycle!Next
<1>2. CASE FlushBefore(c) \/ EngineError(c)
  BY <1>2, SamePhases DEF FlushBefore, EngineError, blocks, history, LifeVars
<1>3. CASE HandleAsk(c) BY <1>3, AskSim DEF Lifecycle!Next
<1>4. CASE HandleExternal(c) \/ HandleLocal(c) BY <1>4, PermitSim DEF Lifecycle!Next
<1>5. CASE Exec(c) \/ RunBatched(c) BY <1>5, ExecSim, RunBatchedSim DEF Lifecycle!Next
<1>6. CASE Settle(c) BY <1>6, SettleSim DEF Lifecycle!Next
<1>. QED  BY <1>1, <1>2, <1>3, <1>4, <1>5, <1>6 DEF Act

LEMMA ReasonSim ==
  ASSUME AllOK, NEW n \in 0..TurnCalls, NEW k \in [1..n -> Kinds], Reason(n, k)
  PROVE  Lifecycle!Next
<1>. DEFINE new  == (made + 1)..(made + n)
            view == [c \in Call |-> IF c \in new THEN [st |-> "pending", res |-> "none"]
                                                 ELSE Assistant[c]]
<1>1. Apply(view) /\ UNCHANGED <<ran, sent, permitted>> /\ made + n <= CallBound
  BY DEF Reason
<1>2. mem'["context"] = view /\ Assistant = mem["context"]
      /\ mem["context"] \in [Call -> Block]
  BY <1>1, ApplyBlocks DEF AllOK, LifeOK, Assistant, TypeOK, View
<1>3. new \subseteq Call /\ \A c \in new : c > made
  BY <1>1, BoundsAssumption DEF AllOK, TypeOK, Call
<1>4. \A c \in new : Phases[c] = "unborn"
  <2>. TAKE c \in new
  <2>1. c \in Call /\ mem["context"][c] = NoBlock
    BY <1>3 DEF AllOK, LifeOK, CallLifeOK
  <2>2. NoBlock \in Block /\ NoBlock.res = "none" /\ NoBlock.st = "none"
    BY DEF NoBlock, Block, CallState, ResultState
  <2>. QED  BY <2>1, <2>2, PhaseNow, PhaseCases
<1>5. Phases' = [c \in Call |-> IF c \in new THEN "proposed" ELSE Phases[c]]
  <2>1. ASSUME NEW c \in Call
        PROVE  Phases'[c] = IF c \in new THEN "proposed" ELSE Phases[c]
    <3>1. [st |-> "pending", res |-> "none"] \in Block
      BY DEF Block, CallState, ResultState
    <3>2. /\ Phases'[c] = PhaseIn(view[c], c \in sent)
          /\ Phases[c] = PhaseIn(mem["context"][c], c \in sent)
      BY <1>1, <1>2, PhaseNow
    <3>3. c \in new => view[c] = [st |-> "pending", res |-> "none"]
      OBVIOUS
    <3>4. c \notin new => view[c] = mem["context"][c]
      BY <1>2
    <3>. HIDE DEF new, view
    <3>. QED  BY <3>1, <3>2, <3>3, <3>4, PhaseCases
  <2>. HIDE DEF new
  <2>. QED  BY <2>1 DEF Phases
<1>. HIDE DEF new
<1>6. Lifecycle!Propose(new)
  BY <1>1, <1>3, <1>4, <1>5 DEF Lifecycle!Propose, Phases
<1>. QED  BY <1>3, <1>6 DEF Lifecycle!Next

\* The user's word on call c, which was put to the user: applied to the context,
\* or too late for it.
LEMMA ConfirmSim ==
  ASSUME AllOK, NEW c \in asked, NEW yes \in BOOLEAN, UNCHANGED <<sent, ran>>,
         NEW heard \in BOOLEAN, heard => mem["context"][c].st # "none",
         mem'["context"] = IF heard THEN Confirmed(mem["context"], c, yes) ELSE mem["context"],
         permitted' = IF ~yes THEN permitted \ {c}
                      ELSE IF heard THEN permitted \cup {c} ELSE permitted
  PROVE  Lifecycle!Next \/ UNCHANGED LifeVars
<1>1. c \in Call /\ mem["context"][c] \in Block /\ CallLifeOK(c)
      /\ Phases[c] = PhaseIn(mem["context"][c], c \in sent)
      /\ mem["context"] \in [Call -> Block]
  BY NowOK DEF AllOK, TypeOK
<1>2. CASE ~heard
  <2>1. Phases' = Phases BY <1>2, SamePhases
  <2>2. CASE yes BY <1>2, <2>1, <2>2 DEF LifeVars
  <2>3. CASE ~yes
    <3>1. Lifecycle!SayNo(c) BY <1>2, <2>1, <2>3 DEF Lifecycle!SayNo, Phases
    <3>. QED  BY <1>1, <3>1 DEF Lifecycle!Next
  <2>. QED  BY <2>2, <2>3
<1>3. CASE heard
  <2>. DEFINE b == [st |-> IF yes THEN "allowed" ELSE "finished", res |-> mem["context"][c].res]
  <2>1. b \in Block
    BY <1>1 DEF Block, CallState
  <2>2. mem'["context"] = [mem["context"] EXCEPT ![c] = b]
    <3>1. [mem["context"][c] EXCEPT !.st = IF yes THEN "allowed" ELSE "finished"] = b
      BY <1>1 DEF Block
    <3>2. Confirmed(mem["context"], c, yes)
            = [mem["context"] EXCEPT ![c] =
                 [mem["context"][c] EXCEPT !.st = IF yes THEN "allowed" ELSE "finished"]]
      BY DEF Confirmed
    <3>. QED  BY <1>3, <3>1, <3>2
  <2>3. b.res = mem["context"][c].res /\ (yes => b.st = "allowed") /\ (~yes => b.st = "finished")
    OBVIOUS
  <2>. HIDE DEF b
  <2>4. Phases' = [Phases EXCEPT ![c] = PhaseIn(b, c \in sent)]
    BY <1>1, <2>2, OnePhase
  <2>5. CASE b.res # "none"
    <3>1. PhaseIn(b, c \in sent) = Phases[c] /\ Phases[c] \in {"open", "outside", "closed"}
      BY <1>1, <2>1, <2>3, <2>5, PhaseCases DEF Block, ResultState
    <3>2. Phases' = Phases BY <2>4, <3>1 DEF Phases
    <3>3. CASE yes
      <4>1. Lifecycle!SayYes(c)
        BY <1>3, <2>4, <3>1, <3>3 DEF Lifecycle!SayYes, Lifecycle!Become, Phases
      <4>. QED  BY <1>1, <4>1 DEF Lifecycle!Next
    <3>4. CASE ~yes
      <4>1. Lifecycle!SayNo(c) BY <3>2, <3>4 DEF Lifecycle!SayNo, Phases
      <4>. QED  BY <1>1, <4>1 DEF Lifecycle!Next
    <3>. QED  BY <3>3, <3>4
  <2>6. CASE b.res = "none"
    <3>1. /\ mem["context"][c].res = "none"
          /\ mem["context"][c].st \in {"asking", "allowed", "submitted", "finished"}
      BY <1>1, <1>3, <2>3, <2>6 DEF CallLifeOK, Block, CallState
    <3>2. Phases[c] \in {"asking", "granted", "refused"}
      BY <1>1, <3>1, PhaseCases
    <3>3. CASE yes
      <4>1. PhaseIn(b, c \in sent) = "granted" BY <2>1, <2>3, <2>6, <3>3, PhaseCases
      <4>2. Lifecycle!SayYes(c)
        BY <1>3, <2>4, <3>2, <3>3, <4>1 DEF Lifecycle!SayYes, Lifecycle!Become, Phases
      <4>. QED  BY <1>1, <4>2 DEF Lifecycle!Next
    <3>4. CASE ~yes
      <4>1. PhaseIn(b, c \in sent) = "refused" BY <2>1, <2>3, <2>6, <3>4, PhaseCases
      <4>2. Phases[c] = "refused" => Phases' = Phases BY <2>4, <4>1 DEF Phases
      <4>3. Lifecycle!SayNo(c)
        BY <2>4, <3>2, <3>4, <4>1, <4>2 DEF Lifecycle!SayNo, Lifecycle!Become, Phases
      <4>. QED  BY <1>1, <4>3 DEF Lifecycle!Next
    <3>. QED  BY <3>3, <3>4
  <2>. QED  BY <2>5, <2>6
<1>. QED  BY <1>2, <1>3

\* The caller's own result of a call that was handed outside.
LEMMA AnswerSim ==
  ASSUME AllOK, NEW c \in sent, UNCHANGED <<sent, ran, permitted>>,
         mem'["context"] \in {mem["context"], Answered(mem["context"], c)}
  PROVE  Lifecycle!Next \/ UNCHANGED LifeVars
<1>1. c \in Call /\ mem["context"][c] \in Block /\ mem["context"][c].res # "none"
      /\ Phases[c] = PhaseIn(mem["context"][c], c \in sent)
      /\ mem["context"] \in [Call -> Block]
  BY NowOK DEF AllOK, TypeOK, CallLifeOK
<1>2. CASE mem'["context"] = mem["context"]
  BY <1>2, SamePhases DEF LifeVars
<1>3. CASE mem'["context"] = Answered(mem["context"], c)
  <2>. DEFINE b == [st |-> IF mem["context"][c].st = "none" THEN "none" ELSE "finished",
                    res |-> "answered"]
  <2>1. mem'["context"] = [mem["context"] EXCEPT ![c] = b]
    BY <1>3 DEF Answered
  <2>2. b \in Block /\ b.res = "answered"
    BY DEF Block, CallState, ResultState
  <2>. HIDE DEF b
  <2>3. Phases' = [Phases EXCEPT ![c] = "closed"]
    BY <1>1, <2>1, <2>2, OnePhase, PhaseCases
  <2>4. Phases[c] \in {"outside", "closed"}
    BY <1>1, PhaseCases DEF Block, ResultState
  <2>5. CASE Phases[c] = "outside"
    <3>1. Lifecycle!Close(c)
      BY <2>3, <2>5 DEF Lifecycle!Close, Lifecycle!Become, Phases
    <3>. QED  BY <1>1, <3>1 DEF Lifecycle!Next
  <2>6. CASE Phases[c] = "closed"
    BY <2>3, <2>6 DEF LifeVars, Phases
  <2>. QED  BY <2>4, <2>5, <2>6
<1>. QED  BY <1>2, <1>3

LEMMA InputSim ==
  ASSUME AllOK, Input
  PROVE  Lifecycle!Next \/ UNCHANGED LifeVars
<1>0. \A n, view : StartReply(n, view) => mem'["context"] = view
  BY DEF StartReply, AllOK, TypeOK, View
<1>1. CASE ReplyNil \/ ReplyMessage \/ ObserveMessage
  BY <1>0, <1>1, SamePhases DEF ReplyNil, ReplyMessage, ObserveMessage, history, blocks, LifeVars
<1>2. ASSUME NEW c \in Call, NEW yes \in BOOLEAN, ReplyConfirm(c, yes)
      PROVE  Lifecycle!Next \/ UNCHANGED LifeVars
  <2>1. PICK heard \in BOOLEAN : heard = (owner[c] = last /\ mem["context"][c].st # "none")
    OBVIOUS
  <2>2. /\ c \in asked /\ UNCHANGED <<sent, ran>> /\ (heard => mem["context"][c].st # "none")
        /\ StartReply(last, IF heard THEN Confirmed(mem["context"], c, yes) ELSE mem["context"])
        /\ permitted' = IF ~yes THEN permitted \ {c}
                        ELSE IF heard THEN permitted \cup {c} ELSE permitted
    BY <1>2, <2>1 DEF ReplyConfirm
  <2>. QED  BY <1>0, <2>2, ConfirmSim
<1>3. ASSUME NEW c \in Call, ReplyExternal(c)
      PROVE  Lifecycle!Next \/ UNCHANGED LifeVars
  BY <1>0, <1>3, AnswerSim DEF ReplyExternal, history
<1>4. ASSUME NEW c \in Call, NEW yes \in BOOLEAN, ObserveConfirm(c, yes)
      PROVE  Lifecycle!Next \/ UNCHANGED LifeVars
  <2>1. /\ c \in asked /\ UNCHANGED <<sent, ran>> /\ mem["context"][c].st # "none"
        /\ mem'["context"] = Confirmed(mem["context"], c, yes)
        /\ permitted' = IF yes THEN permitted \cup {c} ELSE permitted \ {c}
    BY <1>4 DEF ObserveConfirm, AllOK, TypeOK, View
  <2>. QED  BY <2>1, ConfirmSim
<1>5. ASSUME NEW c \in Call, ObserveExternal(c)
      PROVE  Lifecycle!Next \/ UNCHANGED LifeVars
  <2>1. c \in sent /\ mem'["context"] = Answered(mem["context"], c)
    BY <1>5 DEF ObserveExternal, AllOK, TypeOK, View
  <2>. QED  BY <1>5, <2>1, AnswerSim DEF ObserveExternal, history
<1>. QED  BY <1>1, <1>2, <1>3, <1>4, <1>5 DEF Input

LEMMA NextSim ==
  ASSUME Compaction = FALSE, AllOK, [Next]_vars
  PROVE  Lifecycle!Next \/ UNCHANGED LifeVars
<1>1. CASE Input BY <1>1, InputSim
<1>2. CASE Between BY <1>2, BetweenFrame, SamePhases DEF LifeVars
<1>3. CASE UNCHANGED vars
  BY <1>3, SamePhases DEF vars, blocks, history, LifeVars
<1>. QED  BY <1>1, <1>2, <1>3, ActSim, ReasonSim DEF Next, Flow, Between

LEMMA InitSim == Init => Lifecycle!Init
<1>. SUFFICES ASSUME Init PROVE Lifecycle!Init
  OBVIOUS
<1>1. NoBlock \in Block /\ NoBlock.res = "none" /\ NoBlock.st = "none"
  BY DEF NoBlock, Block, CallState, ResultState
<1>2. \A c \in Call : mem["context"][c] = NoBlock
  BY DEF Init, View
<1>3. \A c \in Call : PhaseOf(c) = "unborn"
  BY <1>1, <1>2, PhaseCases DEF PhaseOf
<1>. QED  BY <1>3 DEF Init, Lifecycle!Init

\* While the context is not compacted the reply flow implements the abstract
\* life of every tool call, for any calls, kinds, iterations and failures.
THEOREM CallsHaveALifecycle ==
  ASSUME Compaction = FALSE PROVE Spec => ImplementsLifecycle
<1>1. AllOK /\ [Next]_vars => [Lifecycle!Next]_(Lifecycle!vars)
  BY NextSim DEF LifeVars, Phases, Lifecycle!vars
<1>. QED
  BY <1>1, InitSim, LifeAlways, PTL DEF Spec, ImplementsLifecycle, Lifecycle!Spec

==============================================================================
