---------------------------- MODULE MCAutomation ----------------------------
(***************************************************************************)
(* Small instances of Automation.  The timer drop-down has two options, so *)
(* that recipes differ; the other two have one.                            *)
(***************************************************************************)
EXTENDS Automation

TwoRecipes == [d \in Dropdown |-> IF d = "timer" THEN 1 ELSE 0]

OneRecipe == [d \in Dropdown |-> 0]

\* Every path of two keys lies inside the same plant, an ordinary one.
OneParent == [n \in Nested |-> CHOOSE p \in Plant \ (Operator \cup Digit) : TRUE]

=============================================================================
