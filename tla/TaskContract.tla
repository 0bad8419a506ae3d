---------------------------- MODULE TaskContract ----------------------------
(***************************************************************************)
(* What spawn / join / task_cancel promise the adlang programmer, with no   *)
(* threads, queue or lock in sight.  A task is submitted once, its body is  *)
(* run at most once, its promise is fulfilled once, and the result is       *)
(* handed to at most one joiner.  TaskScheduler is shown to implement this  *)
(* module.                                                                  *)
(***************************************************************************)
EXTENDS Naturals

CONSTANT Tasks

VARIABLES phase,      \* how far each task has come
          started,    \* the tasks whose body has begun
          asked,      \* the tasks someone has asked to cancel
          outcome     \* what the promise of each task holds

contractVars == <<phase, started, asked, outcome>>

Outcomes == {"value", "error", "cancelled"}

ContractTypeOK ==
    /\ phase \in [Tasks -> {"new", "pending", "resolved", "taken"}]
    /\ started \subseteq Tasks
    /\ asked \subseteq Tasks
    /\ outcome \in [Tasks -> Outcomes \union {"none"}]

ContractInit ==
    /\ phase = [t \in Tasks |-> "new"]
    /\ started = {}
    /\ asked = {}
    /\ outcome = [t \in Tasks |-> "none"]

Submit(t) ==
    /\ phase[t] = "new"
    /\ phase' = [phase EXCEPT ![t] = "pending"]
    /\ UNCHANGED <<started, asked, outcome>>

Start(t) ==
    /\ phase[t] = "pending"
    /\ t \notin started
    /\ started' = started \union {t}
    /\ UNCHANGED <<phase, asked, outcome>>

RequestCancel(t) ==
    /\ phase[t] # "new"
    /\ asked' = asked \union {t}
    /\ UNCHANGED <<phase, started, outcome>>

\* A value or an error comes from the body; only a task someone asked to
\* cancel is cancelled.
Resolve(t, o) ==
    /\ phase[t] = "pending"
    /\ o \in {"value", "error"} => t \in started
    /\ o = "cancelled" => t \in asked
    /\ phase' = [phase EXCEPT ![t] = "resolved"]
    /\ outcome' = [outcome EXCEPT ![t] = o]
    /\ UNCHANGED <<started, asked>>

Take(t) ==
    /\ phase[t] = "resolved"
    /\ phase' = [phase EXCEPT ![t] = "taken"]
    /\ UNCHANGED <<started, asked, outcome>>

ContractNext ==
    \E t \in Tasks :
        \/ Submit(t)
        \/ Start(t)
        \/ RequestCancel(t)
        \/ \E o \in Outcomes : Resolve(t, o)
        \/ Take(t)

ContractSpec == ContractInit /\ [][ContractNext]_contractVars
=============================================================================
