---------------------------- MODULE HeapContract ----------------------------
(***************************************************************************)
(* The heap that the VM's instructions count on, with no list, marks or     *)
(* phases: objects come into being when they are pushed, refer to each      *)
(* other, and go when nothing the program has leads to them any more.  It   *)
(* is never told when.  GarbageCollector is shown to implement this module. *)
(***************************************************************************)
CONSTANT Objects

VARIABLES heap,    \* the objects that exist
          refs,    \* the objects each object refers to
          roots    \* the objects on the VM's stack, in its frames and globals

heapVars == <<heap, refs, roots>>

\* What lies outside a set that has the roots and, with each object, all it
\* refers to.
Garbage ==
    UNION {Objects \ S : S \in
        {T \in SUBSET Objects : roots \subseteq T /\ \A x \in T : refs[x] \subseteq T}}

HeapInit ==
    /\ heap = {}
    /\ refs = [o \in Objects |-> {}]
    /\ roots = {}

Make(o) ==
    /\ o \notin heap
    /\ heap' = heap \union {o}
    /\ refs' = [refs EXCEPT ![o] = {}]
    /\ roots' = roots \union {o}

\* The program uses what it can reach: it stores p in o or takes it out, ...
Store(o, p) ==
    /\ {o, p} \intersect Garbage = {}
    /\ refs' \in {[refs EXCEPT ![o] = @ \union {p}], [refs EXCEPT ![o] = @ \ {p}]}
    /\ UNCHANGED <<heap, roots>>

\* ... pushes p or drops it.
Hold(p) ==
    /\ p \notin Garbage
    /\ roots' \in {roots \union {p}, roots \ {p}}
    /\ UNCHANGED <<heap, refs>>

EndOfFile == roots' = {} /\ UNCHANGED <<heap, refs>>

Free(o) ==
    /\ o \in heap \intersect Garbage
    /\ heap' = heap \ {o}
    /\ refs' = [refs EXCEPT ![o] = {}]
    /\ UNCHANGED roots

HeapNext ==
    \/ \E o \in Objects : Make(o) \/ Free(o) \/ Hold(o)
    \/ \E o, p \in Objects : Store(o, p)
    \/ EndOfFile

HeapSpec == HeapInit /\ [][HeapNext]_heapVars
=============================================================================
