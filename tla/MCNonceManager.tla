---------------------------- MODULE MCNonceManager ----------------------------
(* TLC instances of NonceManager: the runs differ in their .cfg only.          *)
EXTENDS NonceManager
=============================================================================
