------------------------------ MODULE ContextSplit ------------------------------
(***************************************************************************)
(* splitContextForSummary: where the summary strategy cuts the agent's     *)
(* context into the part it summarizes and the part it reserves. The       *)
(* context is any sequence of messages a caller or a stored state may give *)
(* the agent, with tool results in the message of their call or in another *)
(* one; AgentReply has the contexts the reply loop itself builds. Nil       *)
(* messages are left out.                                                  *)
(***************************************************************************)
EXTENDS Integers, Sequences

CONSTANTS
  Ids,        \* ids of tool calls
  Messages,   \* the messages a context may hold
  MaxLen,     \* bound: messages of a context
  Limits      \* reserve limits, in tokens

ASSUME MessagesAssumption ==
  Messages \subseteq [calls : SUBSET Ids, open : SUBSET Ids, results : SUBSET Ids,
                      running : SUBSET Ids, tokens : Nat]
ASSUME BoundsAssumption == MaxLen \in Nat /\ Limits \subseteq Nat

VARIABLES
  context,       \* contextMessages
  limit,         \* reserveLimit
  pc,            \* "count", "adjust", "move", "done" or "failed"
  index,         \* next message to count
  used,          \* tokens of the reserved messages
  reserveStart,  \* index of the first reserved message
  unpairedStart  \* what firstUnpairedToolResultIndex returned last

vars == <<context, limit, pc, index, used, reserveStart, unpairedStart>>

-------------------------------------------------------------------------------
\* A context of more than one message (shorter ones are reserved as they are)
\* in which every result answers a call of the same or an earlier message.
Init ==
  /\ \E n \in 2..MaxLen : context \in [1..n -> Messages]
  /\ \A i \in 1..Len(context) : \A r \in context[i].results :
       \E j \in 1..i : r \in context[j].calls
  /\ limit \in Limits
  /\ pc = "count"
  /\ index = Len(context)
  /\ used = 0
  /\ reserveStart = Len(context)
  /\ unpairedStart = -1

\* hasUnresolvedToolWork: a call without a final result, or a result without
\* an end.
Unresolved(m) ==
  \/ \E c \in m.calls \cap m.open : c \notin m.results \/ c \in m.running
  \/ m.running # {}

\* firstUnresolvedToolMessageIndex
FirstUnresolved == {i \in 1..Len(context) : /\ Unresolved(context[i])
                                            /\ \A j \in 1..(i - 1) : ~Unresolved(context[j])}

\* Mutant: the message that overflows the budget is reserved too.
FitsOverflow == limit > 0 /\ used <= limit

\* The message at index fits beside the later ones.
Fits == limit > 0 /\ used + context[index].tokens <= limit

\* ctx.Err() or CountTokens fails.
Fail ==
  /\ pc = "count" /\ index > 0
  /\ pc' = "failed"
  /\ UNCHANGED <<context, limit, index, used, reserveStart, unpairedStart>>

\* The last message is reserved whatever it costs, an earlier one if it fits.
Count ==
  /\ pc = "count" /\ index > 0
  /\ index = Len(context) \/ Fits
  /\ used' = used + context[index].tokens
  /\ reserveStart' = index
  /\ index' = index - 1
  /\ UNCHANGED <<context, limit, pc, unpairedStart>>

\* Mutant: messages with unresolved tool work are not looked for.
StopCountingOnly ==
  /\ pc = "count"
  /\ index # 0 => (index # Len(context) /\ ~Fits)
  /\ pc' = "adjust"
  /\ UNCHANGED <<context, limit, index, used, reserveStart, unpairedStart>>

\* The first that does not fit ends the count; unresolved messages are
\* reserved from the first one on.
StopCounting ==
  /\ pc = "count"
  /\ index # 0 => (index # Len(context) /\ ~Fits)
  /\ pc' = "adjust"
  /\ reserveStart' = IF \E i \in FirstUnresolved : i < reserveStart
                     THEN CHOOSE i \in FirstUnresolved : TRUE ELSE reserveStart
  /\ UNCHANGED <<context, limit, index, used, unpairedStart>>

\* Mutant: the calls of the compressed part count as reserved.
UnpairedInContext ==
  {i \in reserveStart..Len(context) :
    \E r \in context[i].results : \A j \in 1..Len(context) : r \notin context[j].calls}

\* Mutant: the calls of the first reserved message do not count.
UnpairedAfterFirst ==
  {i \in reserveStart..Len(context) :
    \E r \in context[i].results :
      \A j \in (reserveStart + 1)..Len(context) : r \notin context[j].calls}

\* Reserved messages with a result whose call is not reserved.
Unpaired ==
  {i \in reserveStart..Len(context) :
    \E r \in context[i].results :
      \A j \in reserveStart..Len(context) : r \notin context[j].calls}

\* A turn of the adjusting loop: firstUnpairedToolResultIndex ...
Find ==
  /\ pc = "adjust" /\ Unpaired # {}
  /\ unpairedStart' = CHOOSE i \in Unpaired : \A j \in Unpaired : i <= j
  /\ pc' = "move"
  /\ UNCHANGED <<context, limit, index, used, reserveStart>>

\* ... becomes the boundary.
Move ==
  /\ pc = "move"
  /\ reserveStart' = unpairedStart
  /\ pc' = "adjust"
  /\ UNCHANGED <<context, limit, index, used, unpairedStart>>

Stable ==
  /\ pc = "adjust" /\ Unpaired = {}
  /\ pc' = "done"
  /\ UNCHANGED <<context, limit, index, used, reserveStart, unpairedStart>>

Loop == Count \/ StopCounting \/ Find \/ Move \/ Stable

Next == Fail \/ Loop

Spec == Init /\ [][Next]_vars

\* The function's own loops run; ctx.Err() need not come.
FairSpec == Spec /\ WF_vars(Loop)

-------------------------------------------------------------------------------
Reserved == {context[i] : i \in reserveStart..Len(context)}

\* No tool work in progress is summarized away, and the last message never is
\* (firstUnresolvedToolMessageIndex, then the adjusting loop, which moves the
\* boundary the other way).
UnresolvedReserved ==
  pc = "done" =>
    /\ reserveStart <= Len(context)
    /\ \A i \in 1..(reserveStart - 1) : ~Unresolved(context[i])

Paired == UNION {m.results : m \in Reserved} \subseteq UNION {m.calls : m \in Reserved}

\* "Adjust the boundary so tool call and result pairs are not split": a
\* reserved result has its call beside it.
PairsNotSplit == pc = "done" => Paired

\* The budget is used up and not exceeded, unless one message or unresolved
\* work alone exceeds it.
BudgetKept ==
  pc \in {"adjust", "move", "done"} /\ FirstUnresolved = {} =>
    /\ used <= limit \/ index = Len(context) - 1
    /\ index > 0 /\ limit > 0 => used + context[index].tokens > limit

\* "... so repeat until it is stable": the split ends, unless the boundary that
\* budget and unresolved work gave has cut a result off from its call.  (Then it
\* never ends: the boundary moves to the result, which stays reserved.)
EndsUnlessCut ==
  /\ pc = "count" ~> pc # "count"
  /\ pc = "adjust" /\ Paired ~> pc = "done"

==============================================================================
