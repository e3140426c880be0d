---------------------------- MODULE MCCheckpoint ----------------------------
(* Instances of Checkpoint for TLC *)
EXTENDS Checkpoint, TLC

\* No definition tells one restorable task from another
TaskSymmetry == Permutations(Tasks)
=============================================================================
