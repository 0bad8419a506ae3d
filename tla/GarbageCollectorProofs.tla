----------------------- MODULE GarbageCollectorProofs -----------------------
(***************************************************************************)
(* The collector's list is the heap, and a collection frees exactly what    *)
(* the program cannot reach, for any number of objects.                     *)
(*                                                                         *)
(* The list invariant, Listed, says that "older" orders the objects that    *)
(* exist and that the links follow that order; it does not depend on marks. *)
(* The marks are the usual two colours with a frontier (Traced): all that   *)
(* is marked is reachable, and what is reachable but not marked lies        *)
(* beyond the objects still to be visited.                                  *)
(***************************************************************************)
EXTENDS GarbageCollector, TLAPS

(* older is a strict total order of the objects that exist.                 *)
Ordered ==
    /\ \A x \in allocated : \A y \in older[x] : older[y] \subseteq older[x]
    /\ \A x, y \in allocated : x = y \/ x \in older[y] \/ y \in older[x]

Listed == ListIsHeap /\ Ordered

(* Everything behind the sweep is marked.                                   *)
Swept ==
    phase = "sweep" =>
        IF iter = Nil THEN allocated \subseteq marked ELSE older[iter] \subseteq marked

Traced ==
    /\ Live \subseteq allocated
    /\ phase = "mark" =>
        /\ marked \union pending \subseteq Live
        /\ roots \subseteq marked \union pending
        /\ \A x \in marked : refs[x] \subseteq marked \union pending
    /\ phase = "sweep" => marked = Live

-----------------------------------------------------------------------------
(* Reachability.                                                            *)

(* What can be reached is closed.                                           *)
LEMMA ReachClosed ==
    ASSUME NEW R \in SUBSET Objects, NEW F \in [Objects -> SUBSET Objects]
    PROVE  Closed(Reach(R, F), R, F) /\ Reach(R, F) \subseteq Objects
  BY DEF Closed, Reach

(* It is the least closed set.                                              *)
LEMMA ReachLeast ==
    ASSUME NEW R, NEW F, NEW S \in SUBSET Objects, Closed(S, R, F)
    PROVE  Reach(R, F) \subseteq S
  BY DEF Reach

(* Dropping the references of an object that cannot be reached changes      *)
(* nothing that can.                                                        *)
LEMMA ReachWithout ==
    ASSUME NEW R \in SUBSET Objects, NEW F \in [Objects -> SUBSET Objects],
           NEW o \in Objects, o \notin Reach(R, F)
    PROVE  Reach(R, [F EXCEPT ![o] = {}]) = Reach(R, F)
<1> DEFINE G == [F EXCEPT ![o] = {}]
           L == Reach(R, F)
<1>0. G \in [Objects -> SUBSET Objects]
  OBVIOUS
<1>1. Closed(L, R, F) /\ L \subseteq Objects
  BY ReachClosed
<1>2. Closed(L, R, G)
  BY <1>1 DEF Closed
<1>3. Reach(R, G) \subseteq L
  <2> HIDE DEF G, L
  <2> QED BY <1>1, <1>2, ReachLeast
<1>4. Closed(Reach(R, G), R, G) /\ Reach(R, G) \subseteq Objects
  <2> HIDE DEF G
  <2> QED BY <1>0, ReachClosed
<1>5. Closed(Reach(R, G), R, F)
  <2> DEFINE M == Reach(R, G)
  <2>1. o \notin M
    BY <1>3
  <2>2. Closed(M, R, G) /\ M \subseteq Objects
    BY <1>4
  <2>3. \A x \in M : G[x] = F[x]
    BY <2>1, <2>2
  <2>4. Closed(M, R, F)
    <3> HIDE DEF M, G
    <3> QED BY <2>2, <2>3 DEF Closed
  <2> QED BY <2>4
<1>6. L \subseteq Reach(R, G)
  <2> HIDE DEF G
  <2> QED BY <1>4, <1>5, ReachLeast
<1> QED BY <1>3, <1>6

-----------------------------------------------------------------------------
(* The list.                                                                *)

(* Only x's successor has x for its predecessor, and the other way round.   *)
LEMMA Neighbours ==
    ASSUME GcTypeOK, Listed, NEW x \in allocated, NEW y \in allocated
    PROVE  /\ x # tail /\ next[x] = y => y # head /\ prev[y] = x
           /\ y # head /\ prev[y] = x => x # tail /\ next[x] = y
<1> USE DEF Listed, ListIsHeap, Ordered
<1>1. ASSUME x # tail, next[x] = y
      PROVE  y # head /\ prev[y] = x
  <2>1. older[y] = older[x] \union {x} /\ y # head
    BY <1>1
  <2>2. older[y] = older[prev[y]] \union {prev[y]} /\ prev[y] \in allocated
    BY <2>1
  <2>3. CASE prev[y] \in older[x]
    BY <2>1, <2>2, <2>3
  <2>4. CASE x \in older[prev[y]]
    BY <2>1, <2>2, <2>4
  <2> QED BY <2>2, <2>3, <2>4
<1>2. ASSUME y # head, prev[y] = x
      PROVE  x # tail /\ next[x] = y
  <2>1. older[y] = older[x] \union {x}
    BY <1>2
  <2>2. x # tail
    BY <2>1
  <2>3. older[next[x]] = older[x] \union {x} /\ next[x] \in allocated
    BY <2>2
  <2>4. CASE next[x] \in older[y]
    BY <2>1, <2>3, <2>4
  <2>5. CASE y \in older[next[x]]
    BY <2>1, <2>3, <2>5
  <2> QED BY <2>2, <2>3, <2>4, <2>5
<1> QED BY <1>1, <1>2

(* An append keeps the list in order.                                       *)
LEMMA AddListed ==
    ASSUME GcTypeOK, Listed, NEW o \in Objects, AddObject(o)
    PROVE  Listed'
<1> USE DEF AddObject, GcTypeOK
<1>1. /\ allocated' = allocated \union {o} /\ o \notin allocated
      /\ older' = [older EXCEPT ![o] = allocated]
      /\ tail' = o
      /\ \A x \in allocated : older'[x] = older[x] /\ older[x] \subseteq allocated
      /\ older'[o] = allocated
  BY DEF Listed, ListIsHeap
<1>2. Ordered'
  BY <1>1 DEF Listed, Ordered
<1>3. ListIsHeap'
  <2>1. CASE head = Nil
    BY <1>1, <2>1, NilAssumption DEF Listed, ListIsHeap
  <2>2. CASE head # Nil
    <3>1. /\ head' = head /\ allocated # {} /\ tail \in allocated
          /\ next' = [next EXCEPT ![tail] = o, ![o] = Nil]
          /\ prev' = [prev EXCEPT ![o] = tail]
          /\ head \in allocated
      BY <2>2 DEF Listed, ListIsHeap
    <3>2. /\ next'[o] = Nil /\ next'[tail] = o /\ prev'[o] = tail
          /\ \A x \in allocated \ {tail} : next'[x] = next[x]
          /\ \A x \in allocated : prev'[x] = prev[x]
      BY <1>1, <3>1
    <3>3. \A x \in allocated :
             /\ x # tail' /\ next'[x] \in allocated'
             /\ older'[next'[x]] = older'[x] \union {x}
      BY <1>1, <3>1, <3>2 DEF Listed, ListIsHeap
    <3>4. \A x \in allocated : x # head =>
             /\ prev'[x] \in allocated'
             /\ older'[x] = older'[prev'[x]] \union {prev'[x]}
      BY <1>1, <3>1, <3>2 DEF Listed, ListIsHeap
    <3>5. older'[o] = older'[prev'[o]] \union {prev'[o]} /\ prev'[o] \in allocated'
      BY <1>1, <3>1, <3>2 DEF Listed, ListIsHeap
    <3> QED BY <1>1, <3>1, <3>2, <3>3, <3>4, <3>5, NilAssumption DEF Listed, ListIsHeap
  <2> QED BY <2>1, <2>2
<1> QED BY <1>2, <1>3 DEF Listed

-----------------------------------------------------------------------------
(* Sweeping one object off the list.                                        *)

(* What Unlink does to the links of the objects that stay.                  *)
LEMMA UnlinkLinks ==
    ASSUME GcTypeOK, Listed, NEW o \in allocated, Unlink(o)
    PROVE  /\ o # tail => next[o] \in allocated \ {o}
           /\ o # head => prev[o] \in allocated \ {o}
           /\ head' = IF o # head THEN head ELSE IF o = tail THEN Nil ELSE next[o]
           /\ tail' = IF o # tail THEN tail ELSE IF o = head THEN Nil ELSE prev[o]
           /\ \A x \in allocated \ {o} :
                next'[x] = IF o # head /\ x = prev[o]
                           THEN IF o = tail THEN Nil ELSE next[o]
                           ELSE next[x]
           /\ \A x \in allocated \ {o} :
                prev'[x] = IF o # tail /\ x = next[o]
                           THEN IF o = head THEN Nil ELSE prev[o]
                           ELSE prev[x]
<1>1. /\ o # tail => next[o] \in allocated \ {o}
      /\ o # head => prev[o] \in allocated \ {o}
  BY DEF Listed, ListIsHeap
<1>2. CASE o = head /\ o = tail
  BY <1>1, <1>2 DEF Unlink, GcTypeOK
<1>3. CASE o = head /\ o # tail
  BY <1>1, <1>3 DEF Unlink, GcTypeOK
<1>4. CASE o # head /\ o = tail
  BY <1>1, <1>4 DEF Unlink, GcTypeOK
<1>5. CASE o # head /\ o # tail
  BY <1>1, <1>5 DEF Unlink, GcTypeOK
<1> QED BY <1>2, <1>3, <1>4, <1>5

(* A removal, at either end or in the middle, keeps the list in order.      *)
LEMMA RemoveListed ==
    ASSUME GcTypeOK, Listed, NEW o \in allocated, Unlink(o),
           allocated' = allocated \ {o},
           older' = [x \in Objects |-> IF x = o THEN {} ELSE older[x] \ {o}]
    PROVE  Listed'
<1>1. \A x \in allocated' : older'[x] = older[x] \ {o} /\ x \in allocated /\ x # o
  BY DEF GcTypeOK
<1>2. Ordered'
  <2>1. \A x \in allocated : older[x] \subseteq allocated
    BY DEF Listed, ListIsHeap
  <2>2. \A x \in allocated' : \A y \in older'[x] : y \in older[x] /\ y \in allocated'
    BY <1>1, <2>1
  <2>3. \A x \in allocated' : \A y \in older'[x] : older'[y] \subseteq older'[x]
    BY <1>1, <2>2 DEF Listed, Ordered
  <2>4. \A x, y \in allocated' : x = y \/ x \in older'[y] \/ y \in older'[x]
    BY <1>1 DEF Listed, Ordered
  <2> QED BY <2>3, <2>4 DEF Ordered
<1> DEFINE Linked(x) ==
        /\ x \notin older[x] /\ older[x] \subseteq allocated
        /\ IF x = tail
           THEN next[x] = Nil
           ELSE next[x] \in allocated /\ older[next[x]] = older[x] \union {x}
        /\ IF x = head
           THEN prev[x] = Nil
           ELSE prev[x] \in allocated /\ older[x] = older[prev[x]] \union {prev[x]}
<1>3. \A x \in allocated : Linked(x)
  BY DEF Listed, ListIsHeap
<1>4. /\ head' = Nil <=> allocated' = {}
      /\ allocated' = {} => tail' = Nil
      /\ allocated' # {} => /\ {head', tail'} \subseteq allocated'
                            /\ older'[head'] = {}
                            /\ older'[tail'] = allocated' \ {tail'}
  BY <1>1, <1>3, UnlinkLinks, NilAssumption DEF Listed, ListIsHeap, GcTypeOK
<1>5. ASSUME NEW x \in allocated'
      PROVE  IF x = tail'
             THEN next'[x] = Nil
             ELSE next'[x] \in allocated' /\ older'[next'[x]] = older'[x] \union {x}
  <2>0. x \in allocated \ {o}
    BY <1>1
  <2>1. CASE o # head /\ x = prev[o]
    <3>1. x # tail /\ next[x] = o
      BY <2>1, <2>0, Neighbours
    <3> QED BY <1>1, <1>3, <2>0, <2>1, <3>1, UnlinkLinks
  <2>2. CASE ~(o # head /\ x = prev[o])
    <3>1. ~(x # tail /\ next[x] = o)
      BY <2>2, <2>0, Neighbours
    <3>2. x = tail' <=> x = tail
      BY <2>0, <2>2, <3>1, <1>3, UnlinkLinks, NilAssumption DEF GcTypeOK
    <3> QED BY <1>1, <1>3, <2>0, <2>2, <3>1, <3>2, UnlinkLinks
  <2> QED BY <2>1, <2>2
<1>6. ASSUME NEW x \in allocated'
      PROVE  IF x = head'
             THEN prev'[x] = Nil
             ELSE prev'[x] \in allocated' /\ older'[x] = older'[prev'[x]] \union {prev'[x]}
  <2>0. x \in allocated \ {o}
    BY <1>1
  <2>1. CASE o # tail /\ x = next[o]
    <3>1. x # head /\ prev[x] = o
      BY <2>1, <2>0, Neighbours
    <3> QED BY <1>1, <1>3, <2>0, <2>1, <3>1, UnlinkLinks
  <2>2. CASE ~(o # tail /\ x = next[o])
    <3>1. ~(x # head /\ prev[x] = o)
      BY <2>2, <2>0, Neighbours
    <3>2. x = head' <=> x = head
      BY <2>0, <2>2, <3>1, <1>3, UnlinkLinks, NilAssumption DEF GcTypeOK
    <3> QED BY <1>1, <1>3, <2>0, <2>2, <3>1, <3>2, UnlinkLinks
  <2> QED BY <2>1, <2>2
<1>7. \A x \in allocated' : x \notin older'[x] /\ older'[x] \subseteq allocated'
  BY <1>1, <1>3
<1> QED BY <1>2, <1>4, <1>5, <1>6, <1>7 DEF Listed, ListIsHeap

(* A step of the sweep keeps the list in order, and everything behind the   *)
(* sweep is marked.                                                         *)
LEMMA SweepListed ==
    ASSUME GcTypeOK, Listed, Swept, SweepObject
    PROVE  /\ Listed' /\ Swept'
           /\ allocated' \subseteq allocated /\ iter' \in allocated' \union {Nil}
<1>1. /\ iter \in allocated /\ iter' = next[iter] /\ phase' = "sweep"
      /\ marked' = marked /\ older[iter] \subseteq marked
  BY DEF SweepObject, GcTypeOK, Swept
<1>2. /\ iter = tail => next[iter] = Nil
      /\ iter # tail => /\ next[iter] \in allocated
                        /\ older[next[iter]] = older[iter] \union {iter}
      /\ older[tail] = allocated \ {tail}
      /\ iter \notin older[iter]
  BY <1>1 DEF Listed, ListIsHeap
<1>3. CASE iter \in marked
  <2>1. UNCHANGED <<allocated, list>>
    BY <1>3 DEF SweepObject
  <2>2. Listed'
    BY <2>1 DEF Listed, ListIsHeap, Ordered, list
  <2>3. Swept'
    BY <1>1, <1>2, <1>3, <2>1, NilAssumption DEF Swept, list, GcTypeOK
  <2> QED BY <1>1, <1>2, <2>1, <2>2, <2>3
<1>4. CASE iter \notin marked
  <2>1. /\ Unlink(iter)
        /\ allocated' = allocated \ {iter}
        /\ older' = [x \in Objects |-> IF x = iter THEN {} ELSE older[x] \ {iter}]
    BY <1>4 DEF SweepObject
  <2>2. Listed'
    BY <1>1, <2>1, RemoveListed
  <2>3. /\ iter # tail => next[iter] \in allocated'
        /\ iter # tail => older'[next[iter]] \subseteq marked
        /\ iter = tail => allocated' \subseteq marked
    BY <1>1, <1>2, <2>1 DEF GcTypeOK
  <2>4. Swept'
    BY <1>1, <1>2, <2>3, NilAssumption DEF Swept, GcTypeOK
  <2> QED BY <1>1, <1>2, <2>1, <2>2, <2>3, <2>4
<1> QED BY <1>3, <1>4

-----------------------------------------------------------------------------
(* The list invariant does not need the marks to be right.                  *)
ListInv == GcTypeOK /\ Listed /\ Swept

LEMMA ListInit == Init => ListInv
  BY UnlistedAssumption DEF Init, ListInv, GcTypeOK, Listed, ListIsHeap, Ordered, Swept

LEMMA ListNext == ListInv /\ [Next]_vars => ListInv'
<1> SUFFICES ASSUME ListInv, [Next]_vars PROVE ListInv'
  OBVIOUS
<1> USE DEF ListInv
<1>0. GcTypeOK /\ Listed /\ Swept
  OBVIOUS
<1>1. ASSUME NEW o \in Objects, AddObject(o) PROVE ListInv'
  <2>1. Listed'
    BY <1>0, <1>1, AddListed
  <2>2. GcTypeOK'
    BY <1>0, <1>1 DEF AddObject, GcTypeOK, Listed, ListIsHeap
  <2>3. Swept'
    BY <1>1 DEF AddObject, Swept
  <2> QED BY <2>1, <2>2, <2>3
<1>2. ASSUME NEW o \in Objects, NEW p \in Objects, Mutate(o, p) PROVE ListInv'
  <2>1. UNCHANGED <<allocated, list, marked, phase, pending, iter>>
    BY <1>2 DEF Mutate
  <2>2. refs' \in [Objects -> SUBSET Objects] /\ roots' \subseteq Objects
    BY <1>2 DEF Mutate, GcTypeOK
  <2> QED BY <2>1, <2>2
          DEF list, GcTypeOK, Listed, ListIsHeap, Ordered, Swept
<1>3. CASE StartMarking
  BY <1>3 DEF StartMarking, list, mutable, GcTypeOK, Listed, ListIsHeap, Ordered, Swept
<1>4. CASE ForceFree
  BY <1>4 DEF ForceFree, list, GcTypeOK, Listed, ListIsHeap, Ordered, Swept
<1>5. CASE StartSweep
  BY <1>5 DEF StartSweep, list, mutable, GcTypeOK, Listed, ListIsHeap, Ordered, Swept
<1>6. CASE SweepObject
  <2>1. /\ Listed' /\ Swept'
        /\ allocated' \subseteq allocated /\ iter' \in allocated' \union {Nil}
    BY <1>0, <1>6, SweepListed
  <2>2. {head', tail'} \subseteq allocated' \union {Nil}
    BY <2>1 DEF Listed, ListIsHeap
  <2>3. /\ next' \in [Objects -> Objects \union {Nil}]
        /\ prev' \in [Objects -> Objects \union {Nil}]
    BY <1>6 DEF SweepObject, Unlink, list, GcTypeOK
  <2>4. /\ refs' \in [Objects -> SUBSET Objects]
        /\ older' \in [Objects -> SUBSET Objects]
    BY <1>6 DEF SweepObject, list, GcTypeOK
  <2>5. UNCHANGED <<roots, marked, phase, pending>>
    BY <1>6 DEF SweepObject
  <2> QED BY <2>1, <2>2, <2>3, <2>4, <2>5 DEF GcTypeOK
<1>7. CASE EndSweep
  BY <1>7 DEF EndSweep, list, mutable, GcTypeOK, Listed, ListIsHeap, Ordered, Swept
<1>8. ASSUME NEW o \in Objects, MarkObject(o) PROVE ListInv'
  <2>1. UNCHANGED <<mutable, list, phase, iter>>
    BY <1>8 DEF MarkObject
  <2>2. phase = "mark" /\ marked' \subseteq Objects /\ pending' \subseteq Objects
    BY <1>8 DEF MarkObject, GcTypeOK
  <2> QED BY <2>1, <2>2
          DEF list, mutable, GcTypeOK, Listed, ListIsHeap, Ordered, Swept
<1>9. CASE UNCHANGED vars
  BY <1>9 DEF vars, list, mutable, GcTypeOK, Listed, ListIsHeap, Ordered, Swept
<1> QED BY <1>1, <1>2, <1>3, <1>4, <1>5, <1>6, <1>7, <1>8, <1>9 DEF Next, Collect

(* The collector's pointers lead to objects that exist, whatever it marks.  *)
THEOREM GcTypes == Spec => []GcTypeOK
<1>1. ListInv => GcTypeOK
  BY DEF ListInv
<1> QED BY ListInit, ListNext, <1>1, PTL DEF Spec

(* The list is exactly the heap, in the order of allocation, in both        *)
(* directions and at both ends, at every moment of a sweep too.             *)
THEOREM ListIsHeapAlways == Spec => []ListIsHeap
<1>1. ListInv => ListIsHeap
  BY DEF ListInv, Listed
<1> QED BY ListInit, ListNext, <1>1, PTL DEF Spec

-----------------------------------------------------------------------------
(* Marking.  Every object is on the list.                                   *)
HeapInv == ListInv /\ Traced

LEMMA LiveFacts ==
    ASSUME GcTypeOK
    PROVE  /\ roots \subseteq Live /\ Live \subseteq Objects
           /\ \A x \in Live : refs[x] \subseteq Live
  BY ReachClosed DEF GcTypeOK, Live, Closed

(* Reaching less: what is reachable now bounds what is reachable next.      *)
LEMMA LiveShrinks ==
    ASSUME GcTypeOK, NEW S \in SUBSET Objects,
           roots' \subseteq S, \A x \in S : refs'[x] \subseteq S
    PROVE  Live' \subseteq S
<1>1. Closed(S, roots', refs')
  BY DEF Closed
<1>2. Reach(roots', refs') \subseteq S
  BY <1>1, ReachLeast
<1> QED BY <1>2 DEF Live

LEMMA TracedInit == Unlisted = {} /\ Init => Traced
<1> SUFFICES ASSUME Unlisted = {}, Init PROVE Traced
  OBVIOUS
<1>1. Closed({}, roots, refs)
  BY DEF Init, Closed
<1>2. Live \subseteq {}
  BY <1>1, ReachLeast DEF Live
<1> QED BY <1>2 DEF Init, Traced

LEMMA TracedNext == Unlisted = {} /\ HeapInv /\ [Next]_vars => Traced'
<1> SUFFICES ASSUME Unlisted = {}, HeapInv, [Next]_vars PROVE Traced'
  OBVIOUS
<1>0. GcTypeOK /\ Listed /\ Swept /\ Traced /\ Live \subseteq allocated
  BY DEF HeapInv, ListInv, Traced
<1>a. /\ roots \subseteq Live /\ Live \subseteq Objects
       /\ \A x \in Live : refs[x] \subseteq Live
  BY <1>0, LiveFacts
<1>1. ASSUME NEW o \in Objects, AddObject(o) PROVE Traced'
  <2>1. /\ phase' = "run" /\ allocated' = allocated \union {o}
        /\ roots' = roots \union {o} /\ refs' = [refs EXCEPT ![o] = {}]
        /\ o \notin allocated
    BY <1>1 DEF AddObject
  <2>2. \A x \in Live \union {o} : refs'[x] \subseteq Live \union {o}
    BY <1>0, <1>a, <2>1 DEF GcTypeOK
  <2>3. Live' \subseteq Live \union {o}
    <3> DEFINE S == Live \union {o}
    <3>1. /\ S \in SUBSET Objects /\ roots' \subseteq S
          /\ \A x \in S : refs'[x] \subseteq S
      BY <1>a, <2>1, <2>2
    <3> HIDE DEF S
    <3>2. Live' \subseteq S
      BY <1>0, <3>1, LiveShrinks
    <3> QED BY <3>2 DEF S
  <2> QED BY <1>0, <2>1, <2>3 DEF Traced
<1>2. ASSUME NEW o \in Objects, NEW p \in Objects, Mutate(o, p) PROVE Traced'
  <2>1. phase' = "run" /\ UNCHANGED allocated /\ o \in Live /\ p \in Live
    BY <1>2 DEF Mutate
  <2>2. roots' \subseteq Live /\ \A x \in Live : refs'[x] \subseteq Live
    BY <1>0, <1>a, <1>2, <2>1 DEF Mutate, GcTypeOK
  <2>3. Live' \subseteq Live
    BY <1>0, <1>a, <2>2, LiveShrinks
  <2> QED BY <1>0, <2>1, <2>3 DEF Traced
<1>3. CASE StartMarking
  <2>1. UNCHANGED mutable /\ Live' = Live
    BY <1>3 DEF StartMarking, mutable, Live
  <2> QED BY <1>0, <1>a, <1>3, <2>1 DEF StartMarking, mutable, Traced
<1>4. CASE ForceFree
  <2>1. Live' \subseteq {}
    BY <1>0, <1>4, LiveShrinks DEF ForceFree
  <2> QED BY <2>1, <1>4 DEF ForceFree, Traced
<1>5. CASE StartSweep
  <2>1. UNCHANGED <<mutable, marked>> /\ Live' = Live /\ phase' = "sweep"
    BY <1>5 DEF StartSweep, mutable, Live
  <2>2. marked \subseteq Live /\ Closed(marked, roots, refs)
    BY <1>0, <1>5 DEF StartSweep, Traced, Closed
  <2>3. Live \subseteq marked
    BY <1>0, <2>2, ReachLeast DEF Live, GcTypeOK
  <2> QED BY <1>0, <2>1, <2>2, <2>3 DEF mutable, Traced
<1>6. CASE SweepObject
  <2>1. /\ marked = Live /\ phase = "sweep" /\ iter \in Objects
        /\ UNCHANGED <<roots, marked, phase>>
    BY <1>0, <1>6 DEF SweepObject, Traced, GcTypeOK
  <2>2. CASE iter \in marked
    <3>1. UNCHANGED <<allocated, refs>> /\ Live' = Live
      BY <1>6, <2>1, <2>2 DEF SweepObject, Live
    <3> QED BY <1>0, <2>1, <3>1 DEF Traced
  <2>3. CASE iter \notin marked
    <3>1. allocated' = allocated \ {iter} /\ refs' = [refs EXCEPT ![iter] = {}]
      BY <1>6, <2>3 DEF SweepObject
    <3>2. Reach(roots, [refs EXCEPT ![iter] = {}]) = Reach(roots, refs)
      BY <1>0, <2>1, <2>3, ReachWithout DEF Live, GcTypeOK
    <3>3. Live' = Live
      BY <2>1, <3>1, <3>2 DEF Live
    <3> QED BY <1>0, <2>1, <2>3, <3>1, <3>3 DEF Traced
  <2> QED BY <2>2, <2>3
<1>7. CASE EndSweep
  <2>1. UNCHANGED mutable /\ Live' = Live /\ phase' = "run"
    BY <1>7 DEF EndSweep, mutable, Live
  <2> QED BY <1>0, <2>1 DEF mutable, Traced
<1>8. ASSUME NEW o \in Objects, MarkObject(o) PROVE Traced'
  <2>1. UNCHANGED <<mutable, phase>> /\ Live' = Live /\ phase = "mark" /\ o \in pending
    BY <1>8 DEF MarkObject, mutable, Live
  <2>2. /\ marked \union pending \subseteq Live
        /\ roots \subseteq marked \union pending
        /\ \A x \in marked : refs[x] \subseteq marked \union pending
    BY <1>0, <2>1 DEF Traced
  <2>3. CASE o \in marked
    <3>1. marked' = marked /\ pending' = pending \ {o}
      BY <1>8, <2>3 DEF MarkObject
    <3> QED BY <1>0, <2>1, <2>2, <2>3, <3>1 DEF mutable, Traced
  <2>4. CASE o \notin marked
    <3>1. marked' = marked \union {o} /\ pending' = (pending \ {o}) \union refs[o]
      BY <1>8, <2>4 DEF MarkObject
    <3>2. refs[o] \subseteq Live
      BY <1>a, <2>1, <2>2
    <3> QED BY <1>0, <2>1, <2>2, <3>1, <3>2 DEF mutable, Traced
  <2> QED BY <2>3, <2>4
<1>9. CASE UNCHANGED vars
  <2>1. Live' = Live
    BY <1>9 DEF vars, mutable, Live
  <2> QED BY <1>0, <1>9, <2>1 DEF vars, mutable, Traced
<1> QED BY <1>1, <1>2, <1>3, <1>4, <1>5, <1>6, <1>7, <1>8, <1>9 DEF Next, Collect

LEMMA HeapInit == Unlisted = {} /\ Init => HeapInv
  BY ListInit, TracedInit DEF HeapInv

LEMMA HeapNext == Unlisted = {} /\ HeapInv /\ [Next]_vars => HeapInv'
  BY ListNext, TracedNext DEF HeapInv

(* When every object is on the list, a collection frees nothing the program *)
(* can reach: no use of a freed object, whatever graph it has built, and     *)
(* whatever marks the constructors and earlier collections have left.       *)
THEOREM NoLiveFreedAlways ==
    ASSUME Unlisted = {}
    PROVE  Spec => []NoLiveFreed
<1>1. HeapInv => NoLiveFreed
  BY DEF HeapInv, Traced, NoLiveFreed
<1>2. Init => HeapInv
  BY HeapInit
<1>3. HeapInv /\ [Next]_vars => HeapInv'
  BY HeapNext
<1> QED BY <1>1, <1>2, <1>3, PTL DEF Spec

(* Then it also frees everything else: garbage is gone when a sweep is      *)
(* over, in cycles or not.                                                  *)
THEOREM SweepIsExactAlways ==
    ASSUME Unlisted = {}
    PROVE  Spec => []SweepIsExact
<1>1. HeapInv => SweepIsExact
  BY DEF HeapInv, ListInv, Swept, Traced, SweepIsExact
<1>2. Init => HeapInv
  BY HeapInit
<1>3. HeapInv /\ [Next]_vars => HeapInv'
  BY HeapNext
<1> QED BY <1>1, <1>2, <1>3, PTL DEF Spec

-----------------------------------------------------------------------------
(* The heap the program counts on.                                          *)

(* HeapContract's garbage, which it describes from outside, is all that is   *)
(* not live.                                                                *)
LEMMA GarbageIsRest ==
    ASSUME GcTypeOK
    PROVE  Heap!Garbage = Objects \ Live
<1>1. ASSUME NEW o \in Objects, o \notin Live
      PROVE  o \in Heap!Garbage
  <2>1. PICK S \in SUBSET Objects : Closed(S, roots, refs) /\ o \notin S
    BY <1>1 DEF Live, Reach
  <2> QED BY <2>1 DEF Heap!Garbage, Closed
<1>2. ASSUME NEW o, o \in Heap!Garbage
      PROVE  o \in Objects \ Live
  <2>1. PICK S \in SUBSET Objects :
             /\ roots \subseteq S /\ \A x \in S : refs[x] \subseteq S
             /\ o \in Objects \ S
    BY <1>2 DEF Heap!Garbage
  <2>2. Live \subseteq S
    BY <2>1, ReachLeast DEF Live, Closed
  <2> QED BY <2>1, <2>2
<1> QED BY <1>1, <1>2, LiveFacts

LEMMA ContractInit == Unlisted = {} /\ Init => Heap!HeapInit
  BY DEF Init, Heap!HeapInit

(* The program's steps are the contract's own.  Of the collector's only the *)
(* end of a file and the removal of an object show, and a removed object is *)
(* not marked, so it is garbage.                                            *)
LEMMA ContractNext ==
    HeapInv /\ [Next]_vars => [Heap!HeapNext]_(Heap!heapVars)
<1> SUFFICES ASSUME HeapInv, [Next]_vars
             PROVE  Heap!HeapNext \/ UNCHANGED mutable
  BY DEF Heap!heapVars, mutable
<1>0. GcTypeOK /\ Traced
  BY DEF HeapInv, ListInv
<1>a. Heap!Garbage = Objects \ Live
  BY <1>0, GarbageIsRest
<1>1. ASSUME NEW o \in Objects, AddObject(o) PROVE Heap!HeapNext
  <2>1. Heap!Make(o)
    BY <1>1 DEF AddObject, Heap!Make
  <2> QED BY <2>1 DEF Heap!HeapNext
<1>2. ASSUME NEW o \in Objects, NEW p \in Objects, Mutate(o, p) PROVE Heap!HeapNext
  <2>1. {o, p} \intersect Heap!Garbage = {}
    BY <1>2, <1>a DEF Mutate
  <2>2. Heap!Store(o, p) \/ Heap!Hold(p)
    BY <1>2, <2>1 DEF Mutate, Heap!Store, Heap!Hold
  <2> QED BY <2>2 DEF Heap!HeapNext
<1>3. CASE ForceFree
  BY <1>3 DEF ForceFree, Heap!EndOfFile, Heap!HeapNext
<1>4. CASE SweepObject
  <2>1. CASE iter \in marked
    BY <1>4, <2>1 DEF SweepObject, mutable
  <2>2. CASE iter \notin marked
    <3>1. iter \in allocated /\ iter \in Objects /\ marked = Live
      BY <1>0, <1>4 DEF SweepObject, Traced, GcTypeOK
    <3>2. Heap!Free(iter)
      BY <1>4, <1>a, <2>2, <3>1 DEF SweepObject, Heap!Free
    <3> QED BY <3>1, <3>2 DEF Heap!HeapNext
  <2> QED BY <2>1, <2>2
<1>5. CASE StartMarking \/ StartSweep \/ EndSweep \/ \E o \in Objects : MarkObject(o)
  BY <1>5 DEF StartMarking, StartSweep, EndSweep, MarkObject
<1>6. CASE UNCHANGED vars
  BY <1>6 DEF vars
<1> QED BY <1>1, <1>2, <1>3, <1>4, <1>5, <1>6 DEF Next, Collect

(* When every object is on the list, the collector implements the heap that *)
(* the VM's instructions count on: whatever it marks, frees and forgets,     *)
(* each step makes an object, moves a reference between reachable ones,      *)
(* frees one object that nothing leads to, or is not seen by the program.   *)
THEOREM CollectorImplementsHeap ==
    ASSUME Unlisted = {}
    PROVE  Spec => ImplementsHeap
<1>1. Init => HeapInv /\ Heap!HeapInit
  BY HeapInit, ContractInit
<1>2. HeapInv /\ [Next]_vars => HeapInv'
  BY HeapNext
<1>3. HeapInv /\ [Next]_vars => [Heap!HeapNext]_(Heap!heapVars)
  BY ContractNext
<1> QED BY <1>1, <1>2, <1>3, PTL DEF Spec, ImplementsHeap, Heap!HeapSpec
=============================================================================
