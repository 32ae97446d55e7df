------------------------------ MODULE MCApiScan ------------------------------
(* The TLC instance of ApiScan: all three services, five transfers. A    *)
(* page holds two of one second and a third one, of the four sent.         *)
EXTENDS ApiScan

Transfers == 1 .. 5
Sizes     == [k \in Kinds |-> 3]
=============================================================================
