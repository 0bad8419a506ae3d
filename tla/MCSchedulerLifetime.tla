------------------------ MODULE MCSchedulerLifetime -------------------------
(* SchedulerLifetime for TLC: e1, e2, ... are tasks of the evaluator, v1 and *)
(* v2 tasks of the VM.                                                      *)
EXTENDS SchedulerLifetime, TLC

Symmetry ==
    Permutations(Workers) \union Permutations(Capturing)
        \union Permutations(Tasks \ Capturing)
=============================================================================
