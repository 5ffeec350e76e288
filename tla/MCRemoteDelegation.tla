------------------------- MODULE MCRemoteDelegation -------------------------
(* Constants for checking RemoteDelegation. *)
EXTENDS RemoteDelegation

CONSTANTS e1, e2, a1, a2, w1, r1

=============================================================================
