---------------------------- MODULE MCAgentRuns ----------------------------
(* Constants for checking AgentRuns on small families. *)
EXTENDS AgentRuns, TLC

CONSTANTS c1, c2

ChildSymmetry == Permutations(Child)

=============================================================================
