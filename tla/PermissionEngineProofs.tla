-------------------------- MODULE PermissionEngineProofs --------------------------
(***************************************************************************)
(* The denials that auto mode returns silently are bounded, and deny and   *)
(* ask rules stand, for every set of actions and rules and every limit.    *)
(***************************************************************************)
EXTENDS PermissionEngine, TLAPS

\* A silent denial was counted, and the count was below the limits.
CountOK ==
  /\ silent.inARow <= consecutive
  /\ silent.all <= total
  /\ SilentDenialsBounded

\* What a rule decided still matches a rule of that group.
RuledOK ==
  /\ \A a \in ruled.deny : Matches("deny", a)
  /\ \A a \in ruled.ask  : Matches("ask", a)
  /\ RulesStand

IInv == TypeOK /\ CountOK /\ RuledOK

USE RulesAssumption, ModesAssumption, LimitsAssumption

LEMMA InitIInv == Init => IInv
  BY DEF Init, IInv, TypeOK, CountOK, RuledOK, RulesStand, SilentDenialsBounded,
         Behavior, NoVerdict

\* What a decision does to the history and the verdict.
LEMMA DecideTypes ==
  ASSUME TypeOK, NEW a \in Actions, NEW b \in Behavior \cup {"error"}, NEW l \in Layer,
         Decide(a, b, l), consecutive' \in Nat, total' \in Nat
  PROVE  TypeOK'
<1>1. verdict' \in Verdict
  BY DEF Decide, Verdict
<1>2. silent' \in [all : Nat, inARow : Nat]
  BY DEF Decide, TypeOK
<1>3. ruled' \in [deny : SUBSET Actions, ask : SUBSET Actions]
  <2>1. CASE l = "rule" /\ b \in {"deny", "ask"}
    BY <2>1 DEF Decide, TypeOK
  <2>2. CASE ~(l = "rule" /\ b # "allow")
    BY <2>2 DEF Decide, TypeOK
  <2>3. CASE l = "rule" /\ b = "error"
    BY <2>3 DEF Decide, TypeOK
  <2> QED BY <2>1, <2>2, <2>3 DEF Behavior
<1> QED BY <1>1, <1>2, <1>3 DEF Decide, TypeOK

\* A decision no rule takes concerns an action no rule ever decided.
LEMMA DecideUnruled ==
  ASSUME IInv, NEW a \in Actions, NEW b \in Behavior \cup {"error"}, NEW l \in Layer,
         Decide(a, b, l), Unruled(a), l # "rule" \/ b = "allow"
  PROVE  RuledOK'
  BY DEF IInv, RuledOK, RulesStand, Decide, Unruled, Matches, Behavior, NoVerdict, TypeOK

LEMMA AllowKeeps ==
  ASSUME IInv, NEW a \in Actions, NEW l \in Layer, Allow(a, l), Unruled(a)
  PROVE  IInv'
<1>1. /\ Decide(a, "allow", l)
      /\ consecutive' = IF mode = "auto" THEN 0 ELSE consecutive
      /\ total' = total
  BY DEF Allow
<1>2. TypeOK'
  BY <1>1, DecideTypes DEF IInv, TypeOK, Behavior
<1>3. CountOK'
  BY <1>1 DEF IInv, TypeOK, CountOK, SilentDenialsBounded, Decide
<1>4. RuledOK'
  BY <1>1, DecideUnruled DEF Behavior
<1> QED BY <1>2, <1>3, <1>4 DEF IInv

LEMMA AnswerCounts ==
  ASSUME IInv, NEW a \in Actions, NEW b \in Behavior \cup {"error"}, NEW l \in Layer,
         Answer(a, b, l), <<b, l>> # <<"deny", "classifier">>
  PROVE  TypeOK' /\ CountOK' /\ Decide(a, b, l)
<1>1. Decide(a, b, l) /\ UNCHANGED <<consecutive, total>>
  BY DEF Answer
<1>2. TypeOK'
  BY <1>1, DecideTypes DEF IInv, TypeOK
<1>3. CountOK'
  BY <1>1 DEF IInv, TypeOK, CountOK, SilentDenialsBounded, Decide
<1> QED BY <1>1, <1>2, <1>3

LEMMA AnswerKeeps ==
  ASSUME IInv, NEW a \in Actions, NEW b \in Behavior \cup {"error"}, NEW l \in Layer,
         Answer(a, b, l), <<b, l>> # <<"deny", "classifier">>, Unruled(a), l # "rule"
  PROVE  IInv'
<1>1. TypeOK' /\ CountOK' /\ Decide(a, b, l)
  BY AnswerCounts
<1>2. RuledOK'
  BY <1>1, DecideUnruled
<1> QED BY <1>1, <1>2 DEF IInv

LEMMA CheckKeeps ==
  ASSUME IInv, NEW a \in Actions, CheckPermission(a)
  PROVE  IInv'
<1> USE DEF Behavior, Layer
<1>1. CASE ByDenyRule(a)
  <2>1. TypeOK' /\ CountOK' /\ Decide(a, "deny", "rule")
    BY <1>1, AnswerCounts DEF ByDenyRule
  <2>2. RuledOK'
    BY <1>1, <2>1 DEF ByDenyRule, IInv, RuledOK, RulesStand, Decide, Matches, TypeOK
  <2> QED BY <2>1, <2>2 DEF IInv
<1>2. CASE ByAskRule(a)
  <2>1. TypeOK' /\ CountOK' /\ Decide(a, "ask", "rule")
    BY <1>2, AnswerCounts DEF ByAskRule
  <2>2. RuledOK'
    BY <1>2, <2>1 DEF ByAskRule, IInv, RuledOK, RulesStand, Decide, Matches, TypeOK
  <2> QED BY <2>1, <2>2 DEF IInv
<1>3. CASE ByReadOnly(a)
  BY <1>3, AllowKeeps DEF ByReadOnly
<1>4. CASE ByExplore(a)
  BY <1>4, AnswerKeeps DEF ByExplore, Mutating
<1>5. CASE ByTool(a)
  BY <1>5, AnswerKeeps, AllowKeeps DEF ByTool, Mutating
<1>6. CASE ByAllowRule(a)
  BY <1>6, AllowKeeps DEF ByAllowRule, Mutating
<1>7. CASE ByBypass(a)
  BY <1>7, AnswerKeeps DEF ByBypass, Mutating
<1>8. CASE ByDontAsk(a)
  BY <1>8, AnswerKeeps DEF ByDontAsk, Mutating
<1>9. CASE ByUser(a)
  <2> PICK l \in {"tool", "mode"} : WouldAsk(a, l) /\ Answer(a, "ask", l)
    BY <1>9 DEF ByUser
  <2> QED BY AnswerKeeps DEF WouldAsk, Mutating
<1> Resolving(a) => Unruled(a)
  BY DEF Resolving, WouldAsk, Mutating
<1>10. CASE ByAcceptEdits(a)
  BY <1>10, AnswerKeeps, AllowKeeps DEF ByAcceptEdits
<1>11. CASE ByFailure(a)
  BY <1>11, AnswerKeeps DEF ByFailure
<1>12. CASE ByClassifier(a)
  BY <1>12, AnswerKeeps, AllowKeeps DEF ByClassifier
<1>13. CASE ByDenial(a)
  <2>1. /\ consecutive' = consecutive + 1 /\ total' = total + 1
        /\ Unruled(a)
    BY <1>13 DEF ByDenial
  <2>2. consecutive' \in Nat /\ total' \in Nat
    BY <2>1 DEF IInv, TypeOK
  <2>3. CASE ShouldFallbackToAsk(consecutive + 1, total + 1)
    <3>1. Decide(a, "ask", "threshold")
      BY <1>13, <2>3 DEF ByDenial
    <3>2. TypeOK'
      BY <3>1, <2>2, DecideTypes DEF IInv
    <3>3. CountOK'
      BY <3>1, <2>1 DEF IInv, TypeOK, CountOK, SilentDenialsBounded, Decide
    <3>4. RuledOK'
      BY <3>1, <2>1, DecideUnruled
    <3> QED BY <3>2, <3>3, <3>4 DEF IInv
  <2>4. CASE ~ShouldFallbackToAsk(consecutive + 1, total + 1)
    <3>1. Decide(a, "deny", "classifier")
      BY <1>13, <2>4 DEF ByDenial
    <3>2. TypeOK'
      BY <3>1, <2>2, DecideTypes DEF IInv
    <3>3. CountOK'
      BY <3>1, <2>1, <2>4
         DEF IInv, TypeOK, CountOK, SilentDenialsBounded, Decide, ShouldFallbackToAsk
    <3>4. RuledOK'
      BY <3>1, <2>1, DecideUnruled
    <3> QED BY <3>2, <3>3, <3>4 DEF IInv
  <2> QED BY <2>3, <2>4
<1> QED BY <1>1, <1>2, <1>3, <1>4, <1>5, <1>6, <1>7, <1>8, <1>9, <1>10, <1>11, <1>12, <1>13
        DEF CheckPermission

LEMMA AddRuleKeeps ==
  ASSUME IInv, NEW b \in Behavior, NEW r \in Rules, AddRule(b, r)
  PROVE  IInv'
<1>1. TypeOK'
  BY DEF IInv, TypeOK, AddRule
<1>2. CountOK'
  BY DEF IInv, CountOK, SilentDenialsBounded, AddRule
<1>3. \A g \in Behavior : rules[g] \subseteq rules'[g]
  BY DEF IInv, TypeOK, AddRule
<1>4. RuledOK'
  BY <1>3 DEF IInv, RuledOK, RulesStand, AddRule, Matches, Behavior
<1> QED BY <1>1, <1>2, <1>4 DEF IInv

LEMMA NextIInv == IInv /\ [Next]_vars => IInv'
<1> SUFFICES ASSUME IInv, [Next]_vars PROVE IInv'
  OBVIOUS
<1>1. CASE Next
  BY <1>1, CheckKeeps, AddRuleKeeps DEF Next
<1>2. CASE UNCHANGED vars
  BY <1>2 DEF vars, IInv, TypeOK, CountOK, SilentDenialsBounded, RuledOK, RulesStand, Matches
<1> QED BY <1>1, <1>2

LEMMA Invariant == Spec => []IInv
  BY InitIInv, NextIInv, PTL DEF Spec

\* Every variable keeps its type: counters are natural numbers (CheckPermission).
THEOREM TypeCorrect == Spec => []TypeOK
<1>1. IInv => TypeOK
  BY DEF IInv
<1> QED BY <1>1, Invariant, PTL

\* For every classifier, set of rules and interleaving of calls: the denials
\* auto mode returns in a row and in all stay below the two limits
\* (recordAutoDenial, resetAutoDenials, shouldFallbackToAsk).
THEOREM SilentDenialsAreBounded == Spec => []SilentDenialsBounded
<1>1. IInv => SilentDenialsBounded
  BY DEF IInv, CountOK
<1> QED BY <1>1, Invariant, PTL

\* In every mode, what a deny rule refused stays refused and what an ask rule
\* asked about is never allowed without asking (checkRules, AddRule).
THEOREM RulesAlwaysStand == Spec => []RulesStand
<1>1. IInv => RulesStand
  BY DEF IInv, RuledOK
<1> QED BY <1>1, Invariant, PTL

==============================================================================
