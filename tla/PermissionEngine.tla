---------------------------- MODULE PermissionEngine ----------------------------
(***************************************************************************)
(* permission.Engine.CheckPermission and AddRule over one permission       *)
(* Context, as the agent uses them: a decision for each call, layer after  *)
(* layer, rules that user confirmations add, and the denial counters of    *)
(* auto mode.                                                              *)
(*                                                                         *)
(* An action stands for one tool with one input, a rule for the actions it *)
(* matches. Messages, reasons' wording, suggested rules and UpdatedInput   *)
(* are left out.                                                           *)
(***************************************************************************)
EXTENDS Integers

CONSTANTS
  Actions,                    \* a tool with an input
  Rules,                      \* sets of actions a rule may match
  ReadOnly,                   \* actions that are read-only invocations
  Modes,                      \* the modes the context may be created with
  HasClassifier,              \* was WithAutoPermissionClassifier given
  AutoMaxConsecutiveDenials,
  AutoMaxTotalDenials,
  MaxDenials                  \* bound: denials of the classifier

ASSUME RulesAssumption  == Rules \subseteq SUBSET Actions /\ ReadOnly \subseteq Actions
ASSUME ModesAssumption  == Modes \subseteq {"default", "accept_edits", "auto", "explore",
                                            "bypass", "dont_ask"}
ASSUME LimitsAssumption == /\ AutoMaxConsecutiveDenials \in Nat \ {0}
                           /\ AutoMaxTotalDenials \in Nat \ {0}
                           /\ MaxDenials \in Nat

VARIABLES
  mode,         \* Context.Mode
  rules,        \* Context.AllowRules, DenyRules and AskRules
  consecutive,  \* AutoDenialState.ConsecutiveDenials
  total,        \* AutoDenialState.TotalDenials
  verdict,      \* the last decision, its action and the layer that took it
  silent,       \* history: classifier denials returned as such, in all and
                \* since the engine last allowed a call
  ruled         \* history: actions a deny rule refused, an ask rule asked about

vars == <<mode, rules, consecutive, total, verdict, silent, ruled>>

Behavior == {"allow", "deny", "ask"}
Layer    == {"rule", "read_only", "mode", "tool", "classifier", "failure", "threshold"}
NoVerdict == [of |-> "none"]
Verdict  == [of : {"check"}, action : Actions, behavior : Behavior \cup {"error"},
             by : Layer]

-------------------------------------------------------------------------------
\* A context with the rules its configuration gives it.
Init ==
  /\ mode \in Modes
  /\ rules \in [Behavior -> SUBSET Rules]
  /\ consecutive = 0 /\ total = 0
  /\ verdict = NoVerdict
  /\ silent = [all |-> 0, inARow |-> 0]
  /\ ruled = [deny |-> {}, ask |-> {}]

\* Mutant: a rule takes the place of what other groups say of the same actions.
AddRuleReplacing(b, r) ==
  /\ rules' = [g \in Behavior |-> IF g = b THEN rules[g] \cup {r} ELSE rules[g] \ {r}]
  /\ UNCHANGED <<mode, consecutive, total, verdict, silent, ruled>>

\* AddRule, from the rules of a user's confirmation.
AddRule(b, r) ==
  /\ rules' = [rules EXCEPT ![b] = @ \cup {r}]
  /\ UNCHANGED <<mode, consecutive, total, verdict, silent, ruled>>

\* checkRules finds a rule of group b for action a.
Matches(b, a) == \E r \in rules[b] : a \in r

\* The engine's decision on action a is b, taken by layer l.
Decide(a, b, l) ==
  /\ verdict' = [of |-> "check", action |-> a, behavior |-> b, by |-> l]
  /\ silent' = IF b = "allow" THEN [silent EXCEPT !.inARow = 0]
               ELSE IF <<b, l>> = <<"deny", "classifier">>
                    THEN [all |-> silent.all + 1, inARow |-> silent.inARow + 1]
                    ELSE silent
  /\ ruled' = IF l = "rule" /\ b # "allow" THEN [ruled EXCEPT ![b] = @ \cup {a}]
              ELSE ruled
  /\ UNCHANGED <<mode, rules>>

\* An allow by layer l, with resetAutoDenials.
Allow(a, l) ==
  /\ Decide(a, "allow", l)
  /\ consecutive' = IF mode = "auto" THEN 0 ELSE consecutive
  /\ UNCHANGED total

\* Any other decision that leaves the counters alone.
Answer(a, b, l) == Decide(a, b, l) /\ UNCHANGED <<consecutive, total>>

\* Mutant: one denial too many before the fallback.
ShouldFallbackLate(c, t) == c > AutoMaxConsecutiveDenials \/ t > AutoMaxTotalDenials

\* shouldFallbackToAsk
ShouldFallbackToAsk(c, t) == c >= AutoMaxConsecutiveDenials \/ t >= AutoMaxTotalDenials

-------------------------------------------------------------------------------
ByDenyRule(a) == Matches("deny", a) /\ Answer(a, "deny", "rule")

\* No deny rule matches and an ask rule does: nothing else is consulted.
ByAskRule(a) == ~Matches("deny", a) /\ Matches("ask", a) /\ Answer(a, "ask", "rule")

\* Neither matches.
Unruled(a) == ~Matches("deny", a) /\ ~Matches("ask", a)

ByReadOnly(a) == Unruled(a) /\ a \in ReadOnly /\ Allow(a, "read_only")

\* ... and the read-only fast path does not decide.
Mutating(a) == Unruled(a) /\ a \notin ReadOnly

ByExplore(a) == Mutating(a) /\ mode = "explore" /\ Answer(a, "deny", "mode")

\* tool.CheckPermissions decides by itself, or fails.
ByTool(a) ==
  /\ Mutating(a) /\ mode # "explore"
  /\ \/ Answer(a, "error", "tool")
     \/ Answer(a, "deny", "tool")
     \/ Allow(a, "tool")

\* tool.CheckPermissions passes and an allow rule matches.
ByAllowRule(a) ==
  /\ Mutating(a) /\ mode # "explore"
  /\ Matches("allow", a)
  /\ Allow(a, "rule")

\* ... and none does.
ByBypass(a) ==
  /\ Mutating(a) /\ mode = "bypass"
  /\ ~Matches("allow", a)
  /\ Answer(a, "allow", "mode")

ByDontAsk(a) ==
  /\ Mutating(a) /\ mode = "dont_ask"
  /\ ~Matches("allow", a)
  /\ Answer(a, "deny", "mode")

\* The tool asks, or every layer passed: an ask decision by the layer.
WouldAsk(a, l) ==
  /\ Mutating(a) /\ mode # "explore"
  /\ \/ l = "tool"
     \/ l = "mode" /\ mode \notin {"bypass", "dont_ask"} /\ ~Matches("allow", a)

\* resolveAutoPermission leaves the ask to the user.
ByUser(a) ==
  \E l \in {"tool", "mode"} :
    WouldAsk(a, l) /\ ~(mode = "auto" /\ HasClassifier) /\ Answer(a, "ask", l)

\* ... or decides without one.
Resolving(a) == mode = "auto" /\ HasClassifier /\ \E l \in {"tool", "mode"} : WouldAsk(a, l)

\* checkAcceptEditsFastPath: the tool again, as if in accept_edits mode.
ByAcceptEdits(a) ==
  /\ Resolving(a)
  /\ \/ Answer(a, "error", "tool")
     \/ Answer(a, "deny", "tool")
     \/ Allow(a, "tool")

\* The classifier fails, returns nil or an invalid behavior.
ByFailure(a) == Resolving(a) /\ Answer(a, "deny", "failure")

\* The classifier allows, or asks.
ByClassifier(a) ==
  /\ Resolving(a)
  /\ Allow(a, "classifier") \/ Answer(a, "ask", "classifier")

\* The classifier denies: recordAutoDenial, then the thresholds.
ByDenial(a) ==
  /\ Resolving(a)
  /\ total < MaxDenials
  /\ consecutive' = consecutive + 1
  /\ total' = total + 1
  /\ IF ShouldFallbackToAsk(consecutive + 1, total + 1)
       THEN Decide(a, "ask", "threshold")
       ELSE Decide(a, "deny", "classifier")

CheckPermission(a) ==
  \/ ByDenyRule(a)
  \/ ByAskRule(a)
  \/ ByReadOnly(a)
  \/ ByExplore(a)
  \/ ByTool(a)
  \/ ByAllowRule(a)
  \/ ByBypass(a)
  \/ ByDontAsk(a)
  \/ ByUser(a)
  \/ ByAcceptEdits(a)
  \/ ByFailure(a)
  \/ ByClassifier(a)
  \/ ByDenial(a)

Next ==
  \/ \E a \in Actions : CheckPermission(a)
  \/ \E b \in Behavior, r \in Rules : AddRule(b, r)

Spec == Init /\ [][Next]_vars

-------------------------------------------------------------------------------
TypeOK ==
  /\ mode \in Modes
  /\ rules \in [Behavior -> SUBSET Rules]
  /\ consecutive \in Nat /\ total \in Nat
  /\ verdict = NoVerdict \/ verdict \in Verdict
  /\ silent \in [all : Nat, inARow : Nat]
  /\ ruled \in [deny : SUBSET Actions, ask : SUBSET Actions]

\* A classifier that only denies cannot do so unseen for long: the denials the
\* engine returns stay below both limits, however they are mixed with rules
\* added, other layers' decisions and asks (recordAutoDenial, resetAutoDenials,
\* shouldFallbackToAsk).
SilentDenialsBounded ==
  /\ silent.inARow < AutoMaxConsecutiveDenials
  /\ silent.all < AutoMaxTotalDenials

\* What a deny rule refused once is never allowed or asked about again, and
\* what an ask rule asked about is never decided without the user's rules, in
\* any mode and whatever rules a later confirmation adds (checkRules before
\* every other layer; groups only grow).
RulesStand ==
  verdict # NoVerdict =>
    /\ verdict.action \in ruled.deny => verdict.behavior = "deny" /\ verdict.by = "rule"
    /\ verdict.action \in ruled.ask  => verdict.behavior \in {"ask", "deny"}
                                        /\ verdict.by = "rule"

==============================================================================
