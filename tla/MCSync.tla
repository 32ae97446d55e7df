-------------------------------- MODULE MCSync --------------------------------
(* An instance of Sync for TLC. *)
EXTENDS Sync, TLC

CONSTANTS d1, p1, b1, m1, m2, c1

Paid == d1 :> p1
=============================================================================
