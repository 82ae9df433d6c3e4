------------------------------ MODULE ReplyBudget ------------------------------
(***************************************************************************)
(* pkg/middleware/budget.go: what ReplyBudgetControlMiddleware has counted *)
(* against each reply.  A model call costs one unit.                       *)
(***************************************************************************)
EXTENDS Naturals

CONSTANT Budget   \* tokenBudget, in model calls

ASSUME BudgetAssumption == Budget \in Nat \ {0}   \* OnReply: tokenBudget <= 0 is off

VARIABLE used     \* used[r], 0 when the map has no entry for r

BudgetInit(replies) == used = [r \in replies |-> 0]

\* initReply, clearReply: an entry of 0 and no entry read the same.
ClearReply(r) == used' = [used EXCEPT ![r] = 0]

\* addUsage
AddUsage(r) == used' = [used EXCEPT ![r] = @ + 1]

\* exceeded
BudgetExceeded(r) == used[r] >= Budget

==============================================================================
