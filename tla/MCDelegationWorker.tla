------------------------- MODULE MCDelegationWorker -------------------------
(* Constants for checking DelegationWorker on a parent with one child. *)
EXTENDS DelegationWorker

CONSTANT c1

=============================================================================
