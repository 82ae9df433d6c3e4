----------------------------- MODULE MCContextSplit -----------------------------
EXTENDS ContextSplit
CONSTANTS a, b
\* Text, calls and results on their own, and an assistant message with both.
MCMessages ==
  {[calls |-> {},  open |-> {},  results |-> {},  running |-> {},  tokens |-> 1],
   [calls |-> {},  open |-> {},  results |-> {},  running |-> {},  tokens |-> 3],
   [calls |-> {a}, open |-> {},  results |-> {},  running |-> {},  tokens |-> 1],
   [calls |-> {a}, open |-> {a}, results |-> {},  running |-> {},  tokens |-> 1],
   [calls |-> {b}, open |-> {b}, results |-> {b}, running |-> {},  tokens |-> 2],
   [calls |-> {b}, open |-> {b}, results |-> {b}, running |-> {b}, tokens |-> 1],
   [calls |-> {},  open |-> {},  results |-> {a}, running |-> {},  tokens |-> 1],
   [calls |-> {},  open |-> {},  results |-> {a, b}, running |-> {}, tokens |-> 2]}
==============================================================================
