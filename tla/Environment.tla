----------------------------- MODULE Environment ----------------------------
(***************************************************************************)
(* The environments of the evaluator (environment.cpp).  envs is the heap   *)
(* of environments, e an index into it, 0 the null pointer of an outermost  *)
(* environment, 1 the global one.  An instance's fields and methods are the *)
(* variables of an environment of its own, whose siblings hold what each    *)
(* parent class has put there.  Left out: the bootstrap environment,        *)
(* reference counts, and the lock.                                          *)
(***************************************************************************)
EXTENDS Naturals, Sequences

(* The null pointer of the evaluator's objects.                             *)
NIL == [o |-> "nil"]

NoEntries == [name \in {} |-> 0]
EnclosedBy(outer) ==
    [vars |-> NoEntries, outer |-> outer, isInstance |-> FALSE, siblings |-> NoEntries]
InstanceEnvironment == [EnclosedBy(0) EXCEPT !.isInstance = TRUE]

With(entries, name, value) ==
    [n \in DOMAIN entries \union {name} |-> IF n = name THEN value ELSE entries[n]]

LookupOnlyInStore(envs, e, name) ==
    IF name \in DOMAIN envs[e].vars THEN envs[e].vars[name] ELSE NIL

(* The innermost environment that holds the name, 0 if there is none.       *)
RECURSIVE Owner(_, _, _)
Owner(envs, e, name) ==
    IF e = 0 \/ name \in DOMAIN envs[e].vars THEN e ELSE Owner(envs, envs[e].outer, name)

Check(envs, e, name) == Owner(envs, e, name) # 0

Get(envs, e, name) ==
    IF Check(envs, e, name) THEN envs[Owner(envs, e, name)].vars[name] ELSE NIL

SetLocalParam(envs, e, name, value) == [envs EXCEPT ![e].vars = With(@, name, value)]
SetOuterEnvironment(envs, e, outer) == [envs EXCEPT ![e].outer = outer]
AddSibling(envs, e, name, sibling) == [envs EXCEPT ![e].siblings = With(@, name, sibling)]

(* A name of an enclosing environment is changed there; but the frame of a  *)
(* method reaches no further than the fields of its instance.               *)
RECURSIVE Set(_, _, _, _)
Set(envs, e, name, value) ==
    LET outer == envs[e].outer
        InOuter == IF envs[outer].isInstance THEN LookupOnlyInStore(envs, outer, name) # NIL
                   ELSE Check(envs, outer, name)
    IN  IF name \in DOMAIN envs[e].vars \/ outer = 0 \/ ~InOuter
        THEN SetLocalParam(envs, e, name, value)
        ELSE IF envs[outer].isInstance THEN SetLocalParam(envs, outer, name, value)
        ELSE Set(envs, outer, name, value)

(* resolveGlobalEnvironment: the environment itself when its chain does not *)
(* end in the global one.                                                   *)
RECURSIVE Outermost(_, _)
Outermost(envs, e) == IF envs[e].outer = 0 THEN e ELSE Outermost(envs, envs[e].outer)
GlobalOf(envs, e) == IF Outermost(envs, e) = 1 THEN 1 ELSE e
=============================================================================
