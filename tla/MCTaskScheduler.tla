-------------------------- MODULE MCTaskScheduler ---------------------------
(* TaskScheduler for TLC: tasks and workers are model values and may be     *)
(* permuted, since the code never compares two tasks or two workers.        *)
EXTENDS TaskScheduler, TLC

Symmetry == Permutations(Tasks) \union Permutations(Workers)
=============================================================================
