-------------------------- MODULE GarbageCollector --------------------------
(***************************************************************************)
(* The object list and the mark/sweep collector of cpp-v3 (gc.cpp), as one  *)
(* VM drives them: every object the VM makes is appended to a doubly linked *)
(* list; between two instructions the VM may stop to mark what its stack,   *)
(* frames, globals and constants reach, and to sweep the rest off the list. *)
(* When a file ends everything is swept.                                    *)
(*                                                                         *)
(* The recursion of markObject is a set of objects still to be visited: the *)
(* order of the visits does not matter.  The compiler makes some objects     *)
(* that it does not add to the list (the closures and functions of a class's *)
(* methods): they are in Unlisted, and belong to the bytecode's constants.   *)
(***************************************************************************)
CONSTANTS Objects,   \* addresses an object may have
          Nil,       \* NULL
          Unlisted   \* objects the compiler made without addObject

ASSUME NilAssumption == Nil \notin Objects
ASSUME UnlistedAssumption == Unlisted \subseteq Objects

VARIABLES
    allocated,   \* objects that were added to the list and exist
    refs,        \* the objects each object refers to
    roots,       \* the objects on the VM's stack, in its frames and globals
    head, tail,  \* the ends of the collector's list
    next, prev,  \* its links
    marked,      \* objects whose mark is set
    phase,       \* "run" (the VM), "mark" or "sweep"
    pending,     \* objects that markObject has been called for
    iter,        \* where the sweep is
    older        \* auxiliary: the listed objects added before each object

mutable == <<allocated, refs, roots>>
list == <<head, tail, next, prev, older>>
vars == <<mutable, list, marked, phase, pending, iter>>

Closed(S, rts, rfs) == rts \subseteq S /\ \A x \in S : rfs[x] \subseteq S

\* What can be reached from rts along rfs: the least closed set.
Reach(rts, rfs) ==
    {o \in Objects : \A S \in SUBSET Objects : Closed(S, rts, rfs) => o \in S}

\* What the program can still reach.
Live == Reach(roots, refs)

Init ==
    /\ allocated = {}
    /\ refs = [o \in Objects |-> {}]
    /\ roots = Unlisted
    /\ head = Nil /\ tail = Nil
    /\ next = [o \in Objects |-> Nil]
    /\ prev = [o \in Objects |-> Nil]
    /\ older = [o \in Objects |-> {}]
    /\ marked \in SUBSET Unlisted   \* AdClosureObject() does not set marked
    /\ phase = "run"
    /\ pending = {}
    /\ iter = Nil

-----------------------------------------------------------------------------
(* The VM: between collections its instructions make objects and move       *)
(* references about.                                                        *)

\* An object is made, appended to the list and pushed.  Not every constructor
\* initialises its mark.
AddObject(o) ==
    /\ phase = "run"
    /\ o \notin allocated \union Unlisted
    /\ allocated' = allocated \union {o}
    /\ roots' = roots \union {o}
    /\ IF head = Nil
       THEN /\ head' = o
            /\ prev' = [prev EXCEPT ![o] = Nil]
            /\ next' = [next EXCEPT ![o] = Nil]
       ELSE /\ next' = [next EXCEPT ![tail] = o, ![o] = Nil]
            /\ prev' = [prev EXCEPT ![o] = tail]
            /\ UNCHANGED head
    /\ tail' = o
    /\ older' = [older EXCEPT ![o] = allocated]
    /\ refs' = [refs EXCEPT ![o] = {}]
    /\ marked' \in {marked, marked \union {o}}
    /\ UNCHANGED <<phase, pending, iter>>

\* An instruction stores p in o, overwrites p in o, pushes p or drops p.
Mutate(o, p) ==
    /\ phase = "run"
    /\ o \in Live /\ p \in Live
    /\ \/ refs' = [refs EXCEPT ![o] = @ \union {p}] /\ UNCHANGED roots
       \/ refs' = [refs EXCEPT ![o] = @ \ {p}] /\ UNCHANGED roots
       \/ roots' = roots \union {p} /\ UNCHANGED refs
       \/ roots' = roots \ {p} /\ UNCHANGED refs
    /\ UNCHANGED <<allocated, list, marked, phase, pending, iter>>

-----------------------------------------------------------------------------
(* The collector.                                                           *)

\* Broken on purpose: the marks of the last collection are kept.
StartMarkingStale ==
    /\ phase = "run"
    /\ phase' = "mark"
    /\ pending' = roots
    /\ UNCHANGED <<mutable, list, marked, iter>>

\* Only the objects of the list are unmarked.
StartMarking ==
    /\ phase = "run"
    /\ phase' = "mark"
    /\ marked' = marked \intersect Unlisted
    /\ pending' = roots
    /\ UNCHANGED <<mutable, list, iter>>

\* Broken on purpose: an object that is marked already is visited again.
MarkObjectAgain(o) ==
    /\ phase = "mark"
    /\ o \in pending
    /\ marked' = marked \union {o}
    /\ pending' = (pending \ {o}) \union refs[o]
    /\ UNCHANGED <<mutable, list, phase, iter>>

\* Broken on purpose: what the object refers to is not visited.
MarkObjectOnly(o) ==
    /\ phase = "mark"
    /\ o \in pending
    /\ marked' = marked \union {o}
    /\ pending' = pending \ {o}
    /\ UNCHANGED <<mutable, list, phase, iter>>

MarkObject(o) ==
    /\ phase = "mark"
    /\ o \in pending
    /\ IF o \in marked
       THEN pending' = pending \ {o} /\ UNCHANGED marked
       ELSE /\ marked' = marked \union {o}
            /\ pending' = (pending \ {o}) \union refs[o]
    /\ UNCHANGED <<mutable, list, phase, iter>>

StartSweep ==
    /\ phase = "mark"
    /\ pending = {}
    /\ phase' = "sweep"
    /\ iter' = head
    /\ UNCHANGED <<mutable, list, marked, pending>>

\* The end of a file: nothing is reachable any more, all marks are cleared.
ForceFree ==
    /\ phase = "run"
    /\ phase' = "sweep"
    /\ roots' = {}
    /\ marked' = marked \intersect Unlisted
    /\ iter' = head
    /\ UNCHANGED <<allocated, refs, list, pending>>

\* Broken on purpose: the tail is not moved when the last object goes.
UnlinkKeepTail(o) ==
    /\ head' = IF o = head THEN next[o] ELSE head
    /\ next' = [next EXCEPT ![o] = Nil, ![prev[o]] = next[o]]
    /\ prev' = [prev EXCEPT ![o] = Nil, ![next[o]] = prev[o]]
    /\ UNCHANGED tail

\* Broken on purpose: the next object's prev is left as it was.
UnlinkForward(o) ==
    /\ head' = IF o = head THEN next[o] ELSE head
    /\ tail' = IF o = tail THEN prev[o] ELSE tail
    /\ next' = [next EXCEPT ![o] = Nil, ![prev[o]] = next[o]]
    /\ prev' = [prev EXCEPT ![o] = Nil]

\* o leaves the list; its own links go with its memory.
Unlink(o) ==
    \/ /\ o = head /\ o = tail
       /\ head' = Nil /\ tail' = Nil
       /\ next' = [next EXCEPT ![o] = Nil]
       /\ prev' = [prev EXCEPT ![o] = Nil]
    \/ /\ o = head /\ o # tail
       /\ head' = next[o]
       /\ prev' = [prev EXCEPT ![next[o]] = Nil, ![o] = Nil]
       /\ next' = [next EXCEPT ![o] = Nil]
       /\ UNCHANGED tail
    \/ /\ o # head /\ o = tail
       /\ tail' = prev[o]
       /\ next' = [next EXCEPT ![prev[o]] = Nil, ![o] = Nil]
       /\ prev' = [prev EXCEPT ![o] = Nil]
       /\ UNCHANGED head
    \/ /\ o # head /\ o # tail
       /\ next' = [next EXCEPT ![prev[o]] = next[o], ![o] = Nil]
       /\ prev' = [prev EXCEPT ![next[o]] = prev[o], ![o] = Nil]
       /\ UNCHANGED <<head, tail>>

SweepObject ==
    /\ phase = "sweep"
    /\ iter # Nil
    /\ iter' = next[iter]
    /\ IF iter \in marked
       THEN UNCHANGED <<allocated, refs, list>>
       ELSE /\ Unlink(iter)
            /\ allocated' = allocated \ {iter}
            /\ refs' = [refs EXCEPT ![iter] = {}]
            /\ older' = [o \in Objects |->
                            IF o = iter THEN {} ELSE older[o] \ {iter}]
    /\ UNCHANGED <<roots, marked, phase, pending>>

EndSweep ==
    /\ phase = "sweep"
    /\ iter = Nil
    /\ phase' = "run"
    /\ UNCHANGED <<mutable, list, marked, pending, iter>>

Collect ==
    \/ StartSweep \/ SweepObject \/ EndSweep
    \/ \E o \in Objects : MarkObject(o)

Next ==
    \/ \E o \in Objects : AddObject(o)
    \/ \E o, p \in Objects : Mutate(o, p)
    \/ StartMarking \/ ForceFree
    \/ Collect

\* The VM may do anything between collections, but a collection it has begun
\* is carried out by its own thread without a pause.
Spec == Init /\ [][Next]_vars /\ WF_vars(Collect)

-----------------------------------------------------------------------------
(* Types, and the collector only ever holds pointers to objects that exist. *)
GcTypeOK ==
    /\ allocated \subseteq Objects \ Unlisted
    /\ refs \in [Objects -> SUBSET Objects]
    /\ roots \subseteq Objects
    /\ {head, tail, iter} \subseteq allocated \union {Nil}
    /\ next \in [Objects -> Objects \union {Nil}]
    /\ prev \in [Objects -> Objects \union {Nil}]
    /\ older \in [Objects -> SUBSET Objects]
    /\ marked \subseteq Objects
    /\ pending \subseteq Objects
    /\ phase \in {"run", "mark", "sweep"}

(* The list is the heap: through appends and removals at both ends and in   *)
(* the middle, next and prev lead through exactly the objects that exist,   *)
(* in the order in which they were made, from head to tail and back.        *)
ListIsHeap ==
    /\ head = Nil <=> allocated = {}
    /\ allocated = {} => tail = Nil
    /\ allocated # {} => /\ {head, tail} \subseteq allocated
                         /\ older[head] = {}
                         /\ older[tail] = allocated \ {tail}
    /\ \A o \in allocated :
        /\ o \notin older[o] /\ older[o] \subseteq allocated
        /\ IF o = tail
           THEN next[o] = Nil
           ELSE next[o] \in allocated /\ older[next[o]] = older[o] \union {o}
        /\ IF o = head
           THEN prev[o] = Nil
           ELSE prev[o] \in allocated /\ older[o] = older[prev[o]] \union {prev[o]}

(* No collection frees an object that the program can still reach, however  *)
(* its references form chains and cycles and whatever it did before.        *)
NoLiveFreed == Live \ Unlisted \subseteq allocated

(* When a sweep is over, every object that the program could not reach has  *)
(* been freed: cycles leave nothing behind.                                 *)
SweepIsExact == phase = "sweep" /\ iter = Nil => allocated = Live \ Unlisted

(* To the program the collector is a heap that loses an unreachable object  *)
(* now and then: no step of it, in the middle of a mark or of a sweep, shows *)
(* in what the program can reach.                                           *)
Heap == INSTANCE HeapContract WITH heap <- allocated

ImplementsHeap == Heap!HeapSpec

(* A collection ends, on cyclic data too, and the VM goes on.               *)
CollectionEnds == phase # "run" ~> phase = "run"
=============================================================================
