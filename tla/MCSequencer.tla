---------------------------- MODULE MCSequencer ----------------------------
(* TLC instances of Sequencer: the runs differ in their .cfg only.          *)
EXTENDS SequencerProofs

Symmetry == Permutations(Tx) \cup Permutations(Exec)
=============================================================================
