------------------------------ MODULE MCFrontEnd ------------------------------
(* Lines of two windows of two instructions. *)
EXTENDS FrontEnd

Straight(n, offset) ==
  [j \in 1..n |-> [window |-> (j + offset) \div 2, line |-> (j + offset) \div 4]]

\* From the second instruction of a window, and round a loop of three instructions.
MCTraces == {Straight(6, 0), [j \in 1..6 |-> Straight(3, 1)[((j - 1) % 3) + 1]]}

Outcome(type, taken, predicted, target) ==
  [branch_type |-> type, taken |-> taken, predicted |-> predicted, target |-> target]

MCOutcomes ==
  {Outcome("NOT_BRANCH", FALSE, FALSE, "none"),
   Outcome("CONDITIONAL", TRUE, TRUE, "wrong"),
   Outcome("CONDITIONAL", FALSE, TRUE, "none")}
=============================================================================
