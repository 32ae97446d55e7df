----------------------------- MODULE MCBlockScan -----------------------------
(* TLC instances of BlockScan: the runs differ in their .cfg only.          *)
EXTENDS BlockScan
=============================================================================
