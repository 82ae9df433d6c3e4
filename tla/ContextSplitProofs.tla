--------------------------- MODULE ContextSplitProofs ---------------------------
(***************************************************************************)
(* What the cut of the context keeps, for every context and every limit:   *)
(* the budget while it counts, the unresolved work when it stops counting, *)
(* and the pairs if it ever comes to an end.                               *)
(***************************************************************************)
EXTENDS ContextSplit, WellFoundedInduction, TLAPS

\* The indices stay within the context, and the count below it.
TypeOK ==
  /\ context \in Seq(Messages) /\ Len(context) > 1
  /\ limit \in Nat
  /\ pc \in {"count", "adjust", "move", "done", "failed"}
  /\ index \in 0..Len(context)
  /\ used \in Nat
  /\ reserveStart \in 1..Len(context)
  /\ unpairedStart \in {-1} \cup 1..Len(context)
  /\ pc = "move" => unpairedStart \in 1..Len(context)

\* The messages behind index are counted: they fit, or are the last one alone.
BudgetOK ==
  /\ index = Len(context) => used = 0
  /\ index < Len(context) => used <= limit \/ index = Len(context) - 1
  /\ pc = "count" => reserveStart = IF index = Len(context) THEN index ELSE index + 1
  /\ pc \in {"adjust", "move", "done"} =>
       /\ index < Len(context)
       /\ index > 0 /\ limit > 0 => used + context[index].tokens > limit

\* The boundary leaves no unresolved message behind until the loop moves it; the
\* message the loop moves it to has lost the call of one of its results for good.
CutOK ==
  /\ pc = "count" => unpairedStart = -1
  /\ pc = "move" => unpairedStart \in Unpaired
  /\ pc \in {"adjust", "done"} =>
       \/ unpairedStart = -1 /\ \A i \in 1..(reserveStart - 1) : ~Unresolved(context[i])
       \/ pc = "adjust" /\ unpairedStart \in Unpaired
  /\ pc = "done" => Unpaired = {}

-------------------------------------------------------------------------------
\* A set of numbers has a least one.
LEMMA Least ==
  ASSUME NEW S, S \subseteq Nat, S # {}
  PROVE  \E x \in S : \A y \in S : x <= y
<1>. DEFINE R == {ss \in Nat \X Nat : ss[1] < ss[2]}
<1>1. IsWellFoundedOn(R, Nat)
  BY NatLessThanWellFounded DEF OpToRel
<1>. HIDE DEF R
<1>2. PICK x \in S : \A y \in S : ~ (<<y, x>> \in R)
  BY <1>1, WFMin
<1>3. \A y \in S : ~(y < x)
  BY <1>2 DEF R
<1>. QED  BY <1>3

LEMMA Tokens == \A m \in Messages : m.tokens \in Nat
BY MessagesAssumption

\* Whoever has an unresolved message has a first one.
LEMMA FirstIsFirst ==
  ASSUME TypeOK
  PROVE  /\ FirstUnresolved \subseteq 1..Len(context)
         /\ \A i \in 1..Len(context) : Unresolved(context[i]) =>
              FirstUnresolved # {} /\ \A j \in FirstUnresolved : j <= i
<1>1. ASSUME NEW i \in 1..Len(context), Unresolved(context[i])  PROVE FirstUnresolved # {}
  <2>. DEFINE U == {j \in 1..Len(context) : Unresolved(context[j])}
  <2>1. U \subseteq Nat /\ U # {}
    BY <1>1 DEF TypeOK
  <2>2. PICK f \in U : \A j \in U : f <= j
    BY <2>1, Least
  <2>3. \A j \in 1..(f - 1) : ~Unresolved(context[j])
    BY <2>2 DEF TypeOK
  <2>. QED  BY <2>2, <2>3 DEF FirstUnresolved
<1>2. ASSUME NEW i \in 1..Len(context), Unresolved(context[i]), NEW j \in FirstUnresolved
      PROVE  j <= i
  BY <1>2 DEF FirstUnresolved, TypeOK
<1>. QED  BY <1>1, <1>2 DEF FirstUnresolved

LEMMA TypeInit == Init => TypeOK
<1>. SUFFICES ASSUME Init PROVE TypeOK
  OBVIOUS
<1>1. PICK n \in 2..MaxLen : context \in [1..n -> Messages]
  BY DEF Init
<1>2. n \in Nat /\ n > 1
  BY BoundsAssumption
<1>3. context \in Seq(Messages) /\ Len(context) = n
  BY <1>1, <1>2
<1>. QED  BY <1>2, <1>3, BoundsAssumption DEF Init, TypeOK

LEMMA TypeNext == TypeOK /\ [Next]_vars => TypeOK'
<1>. SUFFICES ASSUME TypeOK, [Next]_vars PROVE TypeOK'
  OBVIOUS
<1>. USE DEF TypeOK
<1>1. CASE Count
  <2>1. index \in 1..Len(context) /\ context[index].tokens \in Nat
    BY <1>1, Tokens DEF Count
  <2>. QED  BY <1>1, <2>1 DEF Count
<1>2. CASE StopCounting
  BY <1>2, FirstIsFirst DEF StopCounting
<1>3. CASE Find
  <2>1. Unpaired \subseteq 1..Len(context) /\ Unpaired # {}
    BY <1>3 DEF Find, Unpaired
  <2>2. Unpaired \subseteq Nat
    BY <2>1
  <2>3. PICK f \in Unpaired : \A j \in Unpaired : f <= j
    BY <2>1, <2>2, Least
  <2>. QED  BY <1>3, <2>1, <2>3 DEF Find
<1>4. CASE Move
  BY <1>4 DEF Move
<1>5. CASE Stable \/ Fail \/ UNCHANGED vars
  BY <1>5 DEF Stable, Fail, vars
<1>. QED  BY <1>1, <1>2, <1>3, <1>4, <1>5 DEF Next, Loop

-------------------------------------------------------------------------------
LEMMA BudgetInit == Init => BudgetOK
<1>. SUFFICES ASSUME Init PROVE BudgetOK
  OBVIOUS
<1>1. TypeOK
  BY TypeInit
<1>. QED  BY <1>1 DEF Init, TypeOK, BudgetOK

LEMMA BudgetNext == TypeOK /\ BudgetOK /\ [Next]_vars => BudgetOK'
<1>. SUFFICES ASSUME TypeOK, BudgetOK, [Next]_vars PROVE BudgetOK'
  OBVIOUS
<1>. USE DEF TypeOK, BudgetOK
<1>1. CASE Count
  <2>1. index \in 1..Len(context) /\ context[index].tokens \in Nat
    BY <1>1, Tokens DEF Count
  <2>. QED  BY <1>1, <2>1 DEF Count, Fits
<1>2. CASE StopCounting
  <2>1. index \in 1..Len(context) => context[index].tokens \in Nat
    BY Tokens
  <2>2. /\ index' = index /\ used' = used /\ limit' = limit /\ context' = context
        /\ pc' = "adjust"
    BY <1>2 DEF StopCounting
  <2>. QED  BY <1>2, <2>1, <2>2 DEF StopCounting, Fits
<1>3. CASE Find
  BY <1>3 DEF Find
<1>4. CASE Move
  BY <1>4 DEF Move
<1>5. CASE Stable \/ Fail \/ UNCHANGED vars
  BY <1>5 DEF Stable, Fail, vars
<1>. QED  BY <1>1, <1>2, <1>3, <1>4, <1>5 DEF Next, Loop

-------------------------------------------------------------------------------
LEMMA CutInit == Init => CutOK
BY DEF Init, CutOK

\* The count stops with every unresolved message reserved.
LEMMA StopReserves ==
  ASSUME TypeOK, StopCounting
  PROVE  \A i \in 1..(reserveStart' - 1) : ~Unresolved(context[i])
<1>. DEFINE f == CHOOSE i \in FirstUnresolved : TRUE
            n == Len(context)
<1>1. n \in Nat /\ reserveStart \in 1..n
  BY DEF TypeOK
<1>2. reserveStart' = IF \E i \in FirstUnresolved : i < reserveStart THEN f ELSE reserveStart
  BY DEF StopCounting
<1>3. FirstUnresolved \subseteq 1..n
  BY FirstIsFirst
<1>4. FirstUnresolved # {} => f \in FirstUnresolved
  OBVIOUS
<1>5. \A i \in 1..n : Unresolved(context[i]) =>
        FirstUnresolved # {} /\ \A j \in FirstUnresolved : j <= i
  BY FirstIsFirst
<1>. HIDE DEF f, n
<1>6. reserveStart' \in 1..n
  BY <1>1, <1>2, <1>3, <1>4
<1>7. ASSUME NEW i \in 1..n, Unresolved(context[i])
      PROVE  reserveStart' <= i
  <2>1. f \in 1..n /\ f <= i
    BY <1>3, <1>4, <1>5, <1>7
  <2>2. f < reserveStart => reserveStart' = f
    BY <1>2, <1>4, <1>5, <1>7
  <2>3. \/ reserveStart' = f
        \/ reserveStart' = reserveStart
    BY <1>2
  <2>. QED  BY <1>1, <1>6, <2>1, <2>2, <2>3
<1>8. PICK r \in 1..n : r = reserveStart'
  BY <1>6
<1>9. \A i \in 1..(r - 1) : i \in 1..n /\ ~(r <= i)
  BY <1>1
<1>. QED  BY <1>7, <1>8, <1>9

LEMMA CutNext == TypeOK /\ BudgetOK /\ CutOK /\ [Next]_vars => CutOK'
<1>. SUFFICES ASSUME TypeOK, BudgetOK, CutOK, [Next]_vars PROVE CutOK'
  OBVIOUS
<1>. USE DEF CutOK
<1>1. CASE Count \/ Fail
  BY <1>1 DEF Count, Fail
<1>2. CASE StopCounting
  <2>1. /\ context' = context /\ pc' = "adjust" /\ unpairedStart' = -1
        /\ \A i \in 1..(reserveStart' - 1) : ~Unresolved(context[i])
    BY <1>2, StopReserves DEF StopCounting
  <2>. QED  BY <2>1 DEF Unresolved
<1>3. CASE Find
  <2>1. Unpaired \subseteq Nat /\ Unpaired # {}
    BY <1>3 DEF Find, Unpaired, TypeOK
  <2>2. PICK f \in Unpaired : \A j \in Unpaired : f <= j
    BY <2>1, Least
  <2>3. unpairedStart' \in Unpaired
    BY <1>3, <2>2 DEF Find
  <2>. QED  BY <1>3, <2>3 DEF Find, Unpaired
<1>4. CASE Move
  <2>1. unpairedStart \in Unpaired
    BY <1>4 DEF Move
  <2>2. unpairedStart \in reserveStart..Len(context)
    BY <2>1 DEF Unpaired
  <2>3. unpairedStart' \in Unpaired'
    BY <1>4, <2>1, <2>2 DEF Move, Unpaired, TypeOK
  <2>. QED  BY <1>4, <2>3 DEF Move
<1>5. CASE Stable
  <2>1. \A i \in 1..(reserveStart - 1) : ~Unresolved(context[i])
    BY <1>5 DEF Stable
  <2>. QED  BY <1>5, <2>1 DEF Stable, Unpaired, Unresolved
<1>6. CASE UNCHANGED vars
  BY <1>6 DEF vars, Unpaired, Unresolved
<1>. QED  BY <1>1, <1>2, <1>3, <1>4, <1>5, <1>6 DEF Next, Loop

-------------------------------------------------------------------------------
\* The three parts together are inductive.
LEMMA SplitInvariant == Spec => [](TypeOK /\ BudgetOK /\ CutOK)
<1>1. Init => TypeOK /\ BudgetOK /\ CutOK
  BY TypeInit, BudgetInit, CutInit
<1>2. (TypeOK /\ BudgetOK /\ CutOK) /\ [Next]_vars => (TypeOK /\ BudgetOK /\ CutOK)'
  BY TypeNext, BudgetNext, CutNext
<1>. QED  BY <1>1, <1>2, PTL DEF Spec

\* No tool work in progress is summarized away, whatever the messages cost
\* (splitContextForSummary).
THEOREM UnresolvedStaysReserved == Spec => []UnresolvedReserved
<1>1. TypeOK /\ CutOK => UnresolvedReserved
  BY DEF TypeOK, CutOK, UnresolvedReserved
<1>. QED  BY <1>1, SplitInvariant, PTL

\* A split that is returned leaves no reserved result without its call
\* (firstUnpairedToolResultIndex).
THEOREM PairsStayTogether == Spec => []PairsNotSplit
<1>1. TypeOK /\ CutOK => PairsNotSplit
  <2>. SUFFICES ASSUME TypeOK, CutOK, pc = "done",
                       NEW m \in Reserved, NEW r \in m.results
                PROVE  r \in UNION {n.calls : n \in Reserved}
    BY DEF PairsNotSplit, Paired
  <2>1. PICK i \in reserveStart..Len(context) : m = context[i]
    BY DEF Reserved
  <2>2. i \notin Unpaired
    BY DEF CutOK
  <2>3. PICK j \in reserveStart..Len(context) : r \in context[j].calls
    BY <2>1, <2>2 DEF Unpaired
  <2>. QED  BY <2>3 DEF Reserved
<1>. QED  BY <1>1, SplitInvariant, PTL

\* Whenever the adjusting loop has moved the boundary it never comes to an end: a
\* split that is returned is the one that budget and unresolved work gave
\* (splitContextForSummary, "repeat until it is stable").
THEOREM AdjustedSplitsNeverEnd == Spec => [](pc = "done" => unpairedStart = -1)
<1>1. CutOK => (pc = "done" => unpairedStart = -1)
  BY DEF CutOK
<1>. QED  BY <1>1, SplitInvariant, PTL

\* What is reserved uses the budget up and does not exceed it, unless its last
\* message alone does (splitContextForSummary).
THEOREM BudgetIsKept == Spec => []BudgetKept
<1>1. TypeOK /\ BudgetOK => BudgetKept
  BY DEF TypeOK, BudgetOK, BudgetKept
<1>. QED  BY <1>1, SplitInvariant, PTL

==============================================================================
