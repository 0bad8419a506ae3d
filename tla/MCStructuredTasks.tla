------------------------- MODULE MCStructuredTasks --------------------------
(* Spawn trees for StructuredTasks on a pool of two workers: a chain of     *)
(* three beside a task with one nested task, or two chains of three.        *)
EXTENDS StructuredTasks

CONSTANTS a, a1, a2, b, b1, b2

SpawnTree ==
    [t \in Tasks |->
        CASE t \in {a, b} -> Main
          [] t = a1 -> a
          [] t = a2 -> a1
          [] t = b1 -> b
          [] t = b2 -> b1]
=============================================================================
