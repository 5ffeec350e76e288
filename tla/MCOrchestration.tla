--------------------------- MODULE MCOrchestration ---------------------------
(* Constants for checking Orchestration. *)
EXTENDS Orchestration

CONSTANTS c1, c2, c3, w1, p1, t1, s1

\* Two calls in the first step, one in the second.
MCStepOf == [c \in Call |-> IF c = c3 THEN 2 ELSE 1]

=============================================================================
