---------------------------- MODULE MCAutomationRunner ----------------------------
(* Two messages of one event and one of another. *)
EXTENDS AutomationRunner
CONSTANTS m1, m2, m3, k1, k2
SharedKey == [m \in Messages |-> IF m = m3 THEN k2 ELSE k1]
==============================================================================
