---------------------- MODULE SchedulerLifetimeProofs -----------------------
(***************************************************************************)
(* Proofs about SchedulerLifetime: what a captured shared_ptr guarantees    *)
(* for any program, and that the pool of an orderly VM program is torn down *)
(* by ~Repl, after its last use, although ~TaskScheduler never waits for    *)
(* the overflow pthreads.                                                   *)
(***************************************************************************)
EXTENDS SchedulerLifetime, TLAPS

Elements(q) == {q[i] : i \in 1..Len(q)}

(* Which thread is where, and what it holds there. *)
PlacesFit ==
    /\ pc[Main] \in {"program", "evaluatorReset", "replReset", "returned",
                     "destructor", "joinWorkers"}
    /\ \A w \in Workers :
          /\ pc[w] \in {"top", "slice", "spawned", "release", "requeue", "exited",
                        "destructor", "joinWorkers"}
          /\ pc[w] \in {"slice", "spawned", "release", "requeue"} => cur[w] # NoTask
          /\ pc[w] = "release" => cur[w] \in resolved
    /\ \A t \in Tasks :
          /\ pc[t] \in {"none", "begin", "slice", "spawned", "release", "ended",
                        "destructor", "joinWorkers"}
          /\ pc[t] = "release" => t \in resolved
          /\ pc[t] = "spawned" => t \notin Capturing
    /\ pc[Main] = "program" => {"repl", "evaluator", "global"} \subseteq owners

(* A task is with the pool or has a pthread, never both; a pthread's task    *)
(* was spawned by a task.                                                    *)
Placed ==
    /\ \A t \in Elements(queue) : t \in Submitted /\ pc[t] = "none"
    /\ \A w \in Workers : cur[w] # NoTask => cur[w] \in Submitted /\ pc[cur[w]] = "none"
    /\ \A t \in Tasks : pc[t] # "none" => parent[t] \in Tasks
    /\ joined \subseteq Submitted

(* A task of the evaluator owns the scheduler from its submission to the end *)
(* of its first slice, and the destructor waits for the last owner.          *)
OwnersFit ==
    /\ \A t \in Capturing : t \in fresh /\ t \in Unfinished => t \in owners
    /\ destroyer # NoThread => owners = {}

LInv == LifetimeTypeOK /\ PlacesFit /\ Placed /\ OwnersFit

-----------------------------------------------------------------------------
\* push puts one task more on the queue.
LEMMA PushElements ==
    ASSUME NEW q \in Seq(Tasks), NEW t \in Tasks
    PROVE  Append(q, t) \in Seq(Tasks) /\ Elements(Append(q, t)) = Elements(q) \union {t}
<1>1. /\ Append(q, t) \in Seq(Tasks)
      /\ Len(Append(q, t)) = Len(q) + 1
      /\ \A i \in 1..Len(q) : Append(q, t)[i] = q[i]
      /\ Append(q, t)[Len(q) + 1] = t
  OBVIOUS
<1>2. 1..Len(Append(q, t)) = 1..Len(q) \union {Len(q) + 1}
  BY <1>1
<1>3. QED
  BY <1>1, <1>2 DEF Elements

\* front and pop take the first task off the queue.
LEMMA PopElements ==
    ASSUME NEW q \in Seq(Tasks), q # <<>>
    PROVE  /\ Head(q) \in Tasks
           /\ Tail(q) \in Seq(Tasks)
           /\ Elements(q) = Elements(Tail(q)) \union {Head(q)}
<1>1. /\ Head(q) \in Tasks
      /\ Tail(q) \in Seq(Tasks)
      /\ Len(q) \in Nat \ {0}
      /\ Len(Tail(q)) = Len(q) - 1
      /\ \A i \in 1..(Len(q) - 1) : Tail(q)[i] = q[i + 1]
      /\ Head(q) = q[1]
  OBVIOUS
<1>2. Elements(Tail(q)) \subseteq Elements(q) /\ Head(q) \in Elements(q)
  BY <1>1 DEF Elements
<1>3. Elements(q) \subseteq Elements(Tail(q)) \union {Head(q)}
  <2>1. SUFFICES ASSUME NEW i \in 1..Len(q)
                 PROVE  q[i] \in Elements(Tail(q)) \union {Head(q)}
    BY DEF Elements
  <2>2. CASE i = 1
    BY <1>1, <2>2
  <2>3. CASE i # 1
    <3>1. i - 1 \in 1..(Len(q) - 1) /\ Tail(q)[i - 1] = q[i]
      BY <1>1, <2>3
    <3>2. QED
      BY <1>1, <3>1 DEF Elements
  <2>4. QED
    BY <2>2, <2>3
<1>4. QED
  BY <1>1, <1>2, <1>3

\* The pool is created with three owners and no tasks.
LEMMA InitLInv == Init => LInv
<1>1. SUFFICES ASSUME Init PROVE LInv
  OBVIOUS
<1>2. LifetimeTypeOK
  <2>1. queue \in Seq(Tasks)
    BY <1>1 DEF Init
  <2>2. QED
    BY <1>1, <2>1 DEF Init, LifetimeTypeOK
<1>3. PlacesFit
  BY <1>1, ThreadsAssumption DEF Init, PlacesFit, Threads
<1>4. Placed
  BY <1>1, ThreadsAssumption DEF Init, Placed, Elements, Threads
<1>5. Unfinished = {}
  BY <1>1 DEF Init, Unfinished, Submitted
<1>6. QED
  BY <1>1, <1>2, <1>3, <1>4, <1>5 DEF Init, LInv, OwnersFit

\* A thread that is at a task's code has a task that was spawned.
LEMMA BodyFits ==
    ASSUME LInv, NEW th \in Workers \union Tasks,
           pc[th] \in {"begin", "slice", "spawned", "release"}
    PROVE  Body(th) \in Tasks /\ Body(th) \in Submitted
<1>1. CASE th \in Workers
  BY <1>1 DEF LInv, LifetimeTypeOK, PlacesFit, Placed, Body
<1>2. CASE th \in Tasks
  BY <1>2, ThreadsAssumption DEF LInv, Placed, Body, Submitted
<1>3. QED
  BY <1>1, <1>2

\* A spawn inside a task: who spawns, and what is new about the spawned task.
LEMMA SpawnFits ==
    ASSUME LInv, NEW th \in Threads, NEW t \in Tasks, NEW l, SubmitFrom(th, t, l)
    PROVE  /\ th \in Workers \union Tasks
           /\ th # t
           /\ pc[th] = "slice"
           /\ pc[t] = "none"
           /\ t \notin joined
           /\ t \notin Elements(queue)
           /\ \A w \in Workers : cur[w] # t
           /\ Body(th) \in Tasks
           /\ parent' = [parent EXCEPT ![t] = Body(th)]
           /\ pc' \in {[pc EXCEPT ![th] = l], [pc EXCEPT ![th] = l, ![t] = "begin"]}
           /\ queue' \in {queue, Append(queue, t)}
           /\ \/ queue' = queue
              \/ pc' = [pc EXCEPT ![th] = l]
<1>1. th \in Workers \union Tasks /\ pc[th] = "slice" /\ t \notin Submitted
  BY DEF SubmitFrom, Threads, Runs
<1>2. Body(th) \in Tasks
  BY <1>1, BodyFits
<1>3. pc[t] = "none" /\ t \notin joined /\ t \notin Elements(queue)
      /\ \A w \in Workers : cur[w] # t
  BY <1>1, ThreadsAssumption DEF LInv, Placed, Submitted
<1>4. QED
  BY <1>1, <1>2, <1>3 DEF SubmitFrom

\* Every step keeps the types.
LEMMA TypesStep == LInv /\ [Next]_vars => LifetimeTypeOK'
<1>1. SUFFICES ASSUME LInv, [Next]_vars PROVE LifetimeTypeOK'
  OBVIOUS
<1>2. LifetimeTypeOK /\ Workers \subseteq Threads /\ Tasks \subseteq Threads /\ Main \in Threads
  BY <1>1 DEF LInv, Threads
<1>3. ASSUME NEW t \in Tasks, Submit(t) PROVE LifetimeTypeOK'
  BY <1>2, <1>3, PushElements, CapturingAssumption DEF LifetimeTypeOK, Submit
<1>4. ASSUME NEW t \in Tasks, BeginSlice(t) PROVE LifetimeTypeOK'
  BY <1>2, <1>4 DEF LifetimeTypeOK, BeginSlice
<1>5. ASSUME NEW th \in Threads, NEW t \in Tasks, NEW l \in {"slice", "spawned"},
             SubmitFrom(th, t, l),
             owners' \in {owners \union {t}, owners \union {th}}
      PROVE  LifetimeTypeOK'
  <2>1. /\ th \in Workers \union Tasks
        /\ pc[th] = "slice"
        /\ t \notin joined
        /\ parent' \in [Tasks -> Tasks \union {Main, NoThread}]
        /\ pc' \in {[pc EXCEPT ![th] = l], [pc EXCEPT ![th] = l, ![t] = "begin"]}
        /\ queue' \in {queue, Append(queue, t)}
    BY <1>1, <1>2, <1>5, SpawnFits DEF LifetimeTypeOK
  <2>2. queue' \in Seq(Tasks)
    BY <1>2, <2>1, PushElements DEF LifetimeTypeOK
  <2>3. pc' \in [Threads -> {"program", "evaluatorReset", "replReset", "returned", "none", "top",
                             "begin", "slice", "spawned", "release", "requeue", "exited",
                             "ended", "destructor", "joinWorkers"}]
    BY <1>2, <1>5, <2>1 DEF LifetimeTypeOK
  <2>4. \A u \in joined : pc'[u] = pc[u]
    BY <1>2, <2>1 DEF LifetimeTypeOK
  <2>5. QED
    BY <1>2, <1>5, <2>1, <2>2, <2>3, <2>4 DEF LifetimeTypeOK, SubmitFrom
<1>6. ASSUME NEW th \in Threads, NEW t \in Tasks, Join(th, t) PROVE LifetimeTypeOK'
  BY <1>2, <1>6 DEF LifetimeTypeOK, Join
<1>7. CASE ClearGlobal
  <2>1. loose' \subseteq Tasks
    BY <1>2, <1>7 DEF LifetimeTypeOK, ClearGlobal, Unjoined
  <2>2. Drop(Main, "global", "evaluatorReset")
        /\ UNCHANGED <<cur, queue, stop, freed, parent, fresh, resolved, joined>>
    BY <1>7 DEF ClearGlobal
  <2>3. QED
    BY <1>2, <2>1, <2>2, ThreadsAssumption DEF LifetimeTypeOK, Drop
<1>8. CASE ClearEvaluator
  BY <1>2, <1>8, ThreadsAssumption DEF LifetimeTypeOK, ClearEvaluator, Drop
<1>9. CASE ClearRepl
  BY <1>2, <1>9, ThreadsAssumption DEF LifetimeTypeOK, ClearRepl, Drop
<1>10. ASSUME NEW w \in Workers, PopTask(w) PROVE LifetimeTypeOK'
  BY <1>2, <1>10, PopElements DEF LifetimeTypeOK, PopTask
<1>11. ASSUME NEW w \in Workers, ExitLoop(w) PROVE LifetimeTypeOK'
  BY <1>2, <1>11 DEF LifetimeTypeOK, ExitLoop
<1>12. ASSUME NEW w \in Workers, Requeue(w) PROVE LifetimeTypeOK'
  <2>1. cur[w] \in Tasks
    BY <1>1, <1>2, <1>12 DEF LInv, PlacesFit, LifetimeTypeOK, Requeue
  <2>2. QED
    BY <1>2, <1>12, <2>1, PushElements DEF LifetimeTypeOK, Requeue
<1>13. ASSUME NEW th \in Workers \union Tasks, EndSpawn(th) PROVE LifetimeTypeOK'
  BY <1>2, <1>13 DEF LifetimeTypeOK, EndSpawn, Drop
<1>14. ASSUME NEW th \in Workers \union Tasks, Resolve(th) PROVE LifetimeTypeOK'
  <2>1. Body(th) \in Tasks
    BY <1>1, <1>14, BodyFits DEF Resolve
  <2>2. QED
    BY <1>2, <1>14, <2>1 DEF LifetimeTypeOK, Resolve, Unjoined
<1>15. ASSUME NEW th \in Workers \union Tasks, ReplaceSlice(th) PROVE LifetimeTypeOK'
  BY <1>2, <1>15 DEF LifetimeTypeOK, ReplaceSlice, Drop, Unjoined
<1>16. ASSUME NEW th \in Workers \union Tasks, Release(th) PROVE LifetimeTypeOK'
  <2>1. cur' \in [Workers -> Tasks \union {NoTask}]
    BY <1>2, <1>16 DEF LifetimeTypeOK, Release
  <2>2. /\ pc[th] = "release"
        /\ owners' \subseteq owners
        /\ destroyer' \in {destroyer, th}
        /\ \E l \in {"top", "ended", "destructor"} : pc' = [pc EXCEPT ![th] = l]
        /\ UNCHANGED <<queue, stop, freed, parent, fresh, resolved, joined, loose>>
    BY <1>16 DEF Release, Drop
  <2>3. QED
    BY <1>2, <2>1, <2>2 DEF LifetimeTypeOK
<1>17. ASSUME NEW th \in Threads, SetStop(th) PROVE LifetimeTypeOK'
  BY <1>2, <1>17 DEF LifetimeTypeOK, SetStop
<1>18. ASSUME NEW th \in Threads, JoinWorkersAndFree(th) PROVE LifetimeTypeOK'
  BY <1>2, <1>18 DEF LifetimeTypeOK, JoinWorkersAndFree, AfterDestructor
<1>19. CASE UNCHANGED vars
  BY <1>2, <1>19 DEF LifetimeTypeOK, vars
<1>20. QED
  BY <1>1, <1>3, <1>4, <1>5, <1>6, <1>7, <1>8, <1>9, <1>10, <1>11, <1>12, <1>13,
     <1>14, <1>15, <1>16, <1>17, <1>18, <1>19 DEF Next, SpawnCall, ExecuteSpawn

\* Every step keeps each thread on its own track.
LEMMA PlacesStep == LInv /\ [Next]_vars => PlacesFit'
<1>1. SUFFICES ASSUME LInv, [Next]_vars PROVE PlacesFit'
  OBVIOUS
<1>2. LifetimeTypeOK /\ PlacesFit
  BY <1>1 DEF LInv
<1>a. /\ Workers \subseteq Threads
      /\ Tasks \subseteq Threads
      /\ Main \in Threads
      /\ Main \notin Workers
      /\ Main \notin Tasks
      /\ Tasks \intersect Workers = {}
      /\ {"repl", "evaluator", "global"} \intersect (Tasks \union Workers) = {}
      /\ NoTask \notin Tasks
  BY ThreadsAssumption DEF Threads
<1>3. ASSUME NEW t \in Tasks, Submit(t) PROVE PlacesFit'
  BY <1>2, <1>3 DEF PlacesFit, Submit
<1>4. ASSUME NEW t \in Tasks, BeginSlice(t) PROVE PlacesFit'
  BY <1>2, <1>a, <1>4 DEF LifetimeTypeOK, PlacesFit, BeginSlice
<1>5. ASSUME NEW th \in Threads, NEW t \in Tasks, NEW l \in {"slice", "spawned"},
             SubmitFrom(th, t, l),
             owners \subseteq owners',
             l = "spawned" => Body(th) \notin Capturing
      PROVE  PlacesFit'
  <2>1. /\ th \in Workers \union Tasks
        /\ th # t
        /\ pc[th] = "slice"
        /\ pc[t] = "none"
        /\ pc' \in {[pc EXCEPT ![th] = l], [pc EXCEPT ![th] = l, ![t] = "begin"]}
    BY <1>1, <1>5, SpawnFits
  <2>2. /\ pc'[th] = l
        /\ pc'[t] \in {"none", "begin"}
        /\ \A x \in Threads \ {th, t} : pc'[x] = pc[x]
    BY <1>2, <1>a, <2>1 DEF LifetimeTypeOK
  <2>3. cur' = cur /\ resolved' = resolved
    BY <1>5 DEF SubmitFrom
  <2>4. pc'[Main] = pc[Main]
    BY <1>a, <2>1, <2>2
  <2>5. ASSUME NEW w \in Workers
        PROVE  /\ pc'[w] \in {"top", "slice", "spawned", "release", "requeue", "exited",
                              "destructor", "joinWorkers"}
               /\ pc'[w] \in {"slice", "spawned", "release", "requeue"} => cur'[w] # NoTask
               /\ pc'[w] = "release" => cur'[w] \in resolved'
    BY <1>2, <1>a, <1>5, <2>1, <2>2, <2>3, <2>5 DEF PlacesFit
  <2>6. ASSUME NEW u \in Tasks
        PROVE  /\ pc'[u] \in {"none", "begin", "slice", "spawned", "release", "ended",
                              "destructor", "joinWorkers"}
               /\ pc'[u] = "release" => u \in resolved'
               /\ pc'[u] = "spawned" => u \notin Capturing
    BY <1>2, <1>a, <1>5, <2>1, <2>2, <2>3, <2>6 DEF PlacesFit, Body
  <2>7. QED
    BY <1>2, <1>5, <2>4, <2>5, <2>6 DEF PlacesFit
<1>6. ASSUME NEW th \in Threads, NEW t \in Tasks, Join(th, t) PROVE PlacesFit'
  BY <1>2, <1>6 DEF PlacesFit, Join
<1>7. CASE ClearGlobal
  BY <1>2, <1>a, <1>7 DEF LifetimeTypeOK, PlacesFit, ClearGlobal, Drop
<1>8. CASE ClearEvaluator
  BY <1>2, <1>a, <1>8 DEF LifetimeTypeOK, PlacesFit, ClearEvaluator, Drop
<1>9. CASE ClearRepl
  BY <1>2, <1>a, <1>9 DEF LifetimeTypeOK, PlacesFit, ClearRepl, Drop
<1>10. ASSUME NEW w \in Workers, PopTask(w) PROVE PlacesFit'
  <2>1. Head(queue) \in Tasks
    BY <1>2, <1>10, PopElements DEF LifetimeTypeOK, PopTask
  <2>2. QED
    BY <1>2, <1>a, <1>10, <2>1 DEF LifetimeTypeOK, PlacesFit, PopTask
<1>11. ASSUME NEW w \in Workers, ExitLoop(w) PROVE PlacesFit'
  BY <1>2, <1>a, <1>11 DEF LifetimeTypeOK, PlacesFit, ExitLoop
<1>12. ASSUME NEW w \in Workers, Requeue(w) PROVE PlacesFit'
  BY <1>2, <1>a, <1>12 DEF LifetimeTypeOK, PlacesFit, Requeue
<1>13. ASSUME NEW th \in Workers \union Tasks, EndSpawn(th) PROVE PlacesFit'
  BY <1>2, <1>a, <1>13 DEF LifetimeTypeOK, PlacesFit, EndSpawn, Drop
<1>14. ASSUME NEW th \in Workers \union Tasks, Resolve(th) PROVE PlacesFit'
  BY <1>2, <1>a, <1>14 DEF LifetimeTypeOK, PlacesFit, Resolve, Body
<1>15. ASSUME NEW th \in Workers \union Tasks, ReplaceSlice(th) PROVE PlacesFit'
  <2>1. Body(th) \in Tasks
    BY <1>15, CapturingAssumption DEF ReplaceSlice
  <2>2. QED
    BY <1>2, <1>a, <1>15, <2>1 DEF LifetimeTypeOK, PlacesFit, ReplaceSlice, Drop
<1>16. ASSUME NEW th \in Workers \union Tasks, Release(th) PROVE PlacesFit'
  <2>1. Body(th) \in Tasks
    BY <1>1, <1>16, BodyFits DEF Release
  <2>2. \A x \in Workers : x # th => cur'[x] = cur[x]
    BY <1>16 DEF Release
  <2>3. \E l \in {"top", "ended", "destructor"} :
            /\ pc' = [pc EXCEPT ![th] = l]
            /\ th \in Workers => l # "ended"
            /\ th \in Tasks => l # "top"
    BY <1>a, <1>16 DEF Release, Drop
  <2>4. owners' \in {owners, owners \ {Body(th)}} /\ resolved' = resolved
    BY <1>16 DEF Release, Drop
  <2>5. QED
    BY <1>2, <1>a, <2>1, <2>2, <2>3, <2>4 DEF LifetimeTypeOK, PlacesFit
<1>17. ASSUME NEW th \in Threads, SetStop(th) PROVE PlacesFit'
  BY <1>2, <1>a, <1>17 DEF LifetimeTypeOK, PlacesFit, SetStop, Threads
<1>18. ASSUME NEW th \in Threads, JoinWorkersAndFree(th) PROVE PlacesFit'
  <2>1. AfterDestructor(th) \in {"returned", "top", "slice", "requeue", "ended", "begin"}
    BY DEF AfterDestructor
  <2>2. QED
    BY <1>2, <1>a, <1>18, <2>1
       DEF LifetimeTypeOK, PlacesFit, JoinWorkersAndFree, AfterDestructor, Threads
<1>19. CASE UNCHANGED vars
  BY <1>2, <1>19 DEF PlacesFit, vars
<1>20. QED
  BY <1>1, <1>3, <1>4, <1>5, <1>6, <1>7, <1>8, <1>9, <1>10, <1>11, <1>12, <1>13,
     <1>14, <1>15, <1>16, <1>17, <1>18, <1>19 DEF Next, SpawnCall, ExecuteSpawn

\* Every step keeps pool and pthreads apart.
LEMMA PlacedStep == LInv /\ [Next]_vars => Placed'
<1>1. SUFFICES ASSUME LInv, [Next]_vars PROVE Placed'
  OBVIOUS
<1>2. LifetimeTypeOK /\ PlacesFit /\ Placed
  BY <1>1 DEF LInv
<1>a. /\ Workers \subseteq Threads
      /\ Tasks \subseteq Threads
      /\ Main \in Threads
      /\ Main \notin Tasks
      /\ NoThread \notin Tasks \union {Main}
      /\ Elements(queue) \subseteq Tasks
  BY <1>2, ThreadsAssumption DEF Threads, LifetimeTypeOK, Elements
<1>b. ASSUME \A t \in Tasks : pc[t] = "none" => pc'[t] = "none",
             UNCHANGED <<cur, queue, parent, joined>>
      PROVE  Placed'
  BY <1>2, <1>a, <1>b DEF Placed, LifetimeTypeOK, Submitted
<1>3. ASSUME NEW t \in Tasks, Submit(t) PROVE Placed'
  <2>1. Elements(queue') = Elements(queue) \union {t}
    BY <1>2, <1>3, PushElements DEF LifetimeTypeOK, Submit
  <2>2. Submitted' = Submitted \union {t} /\ pc[t] = "none"
    BY <1>2, <1>a, <1>3 DEF LifetimeTypeOK, Placed, Submitted, Submit
  <2>3. \A u \in Tasks : parent[u] \in Tasks => parent'[u] = parent[u]
    BY <1>2, <1>a, <1>3 DEF LifetimeTypeOK, Submitted, Submit
  <2>4. UNCHANGED <<pc, cur, joined>>
    BY <1>3 DEF Submit
  <2>5. QED
    BY <1>2, <1>a, <2>1, <2>2, <2>3, <2>4 DEF Placed
<1>4. ASSUME NEW t \in Tasks, BeginSlice(t) PROVE Placed'
  BY <1>2, <1>a, <1>b, <1>4 DEF LifetimeTypeOK, BeginSlice
<1>5. ASSUME NEW th \in Threads, NEW t \in Tasks, NEW l \in {"slice", "spawned"},
             SubmitFrom(th, t, l)
      PROVE  Placed'
  <2>1. /\ th \in Workers \union Tasks
        /\ th # t
        /\ pc[th] = "slice"
        /\ pc[t] = "none"
        /\ t \notin Elements(queue)
        /\ \A w \in Workers : cur[w] # t
        /\ Body(th) \in Tasks
        /\ parent' = [parent EXCEPT ![t] = Body(th)]
        /\ pc' \in {[pc EXCEPT ![th] = l], [pc EXCEPT ![th] = l, ![t] = "begin"]}
        /\ queue' \in {queue, Append(queue, t)}
        /\ \/ queue' = queue
           \/ pc' = [pc EXCEPT ![th] = l]
    BY <1>1, <1>5, SpawnFits
  <2>2. /\ \A x \in Tasks : x # t /\ pc[x] = "none" => pc'[x] = "none"
        /\ queue' # queue => pc'[t] = "none"
    BY <1>2, <1>a, <2>1 DEF LifetimeTypeOK
  <2>3. Elements(queue') \subseteq Elements(queue) \union {t}
        /\ (t \in Elements(queue') => queue' # queue)
    BY <1>2, <2>1, PushElements DEF LifetimeTypeOK
  <2>4. Submitted' = Submitted \union {t}
    BY <1>2, <1>a, <2>1 DEF LifetimeTypeOK, Submitted
  <2>5. cur' = cur /\ joined' = joined
    BY <1>5 DEF SubmitFrom
  <2>6. \A u \in Elements(queue') : u \in Submitted' /\ pc'[u] = "none"
    BY <1>2, <1>a, <2>2, <2>3, <2>4 DEF Placed
  <2>7. \A w \in Workers : cur'[w] # NoTask => cur'[w] \in Submitted' /\ pc'[cur'[w]] = "none"
    BY <1>2, <2>1, <2>2, <2>4, <2>5 DEF Placed, LifetimeTypeOK
  <2>8. \A u \in Tasks : pc'[u] # "none" => parent'[u] \in Tasks
    BY <1>2, <2>1, <2>2 DEF Placed, LifetimeTypeOK
  <2>9. QED
    BY <1>2, <2>4, <2>5, <2>6, <2>7, <2>8 DEF Placed
<1>6. ASSUME NEW th \in Threads, NEW t \in Tasks, Join(th, t) PROVE Placed'
  <2>1. t \in Submitted
    <3>1. parent[t] = Body(th) /\ Runs(th)
      BY <1>6 DEF Join, Unjoined
    <3>2. CASE th = Main
      BY <1>a, <3>1, <3>2, ThreadsAssumption DEF Body, Submitted
    <3>3. CASE th # Main
      <4>1. th \in Workers \union Tasks /\ pc[th] = "slice"
        BY <3>1, <3>3 DEF Threads, Runs
      <4>2. Body(th) \in Tasks
        BY <1>1, <4>1, BodyFits
      <4>3. QED
        BY <1>a, <3>1, <4>2 DEF Submitted
    <3>4. QED
      BY <3>2, <3>3
  <2>2. joined' = joined \union {t} /\ UNCHANGED <<pc, cur, queue, parent>>
    BY <1>6 DEF Join
  <2>3. QED
    BY <1>2, <2>1, <2>2 DEF Placed, Submitted
<1>7. CASE ClearGlobal
  BY <1>2, <1>a, <1>b, <1>7 DEF LifetimeTypeOK, ClearGlobal, Drop
<1>8. CASE ClearEvaluator
  BY <1>2, <1>a, <1>b, <1>8 DEF LifetimeTypeOK, ClearEvaluator, Drop
<1>9. CASE ClearRepl
  BY <1>2, <1>a, <1>b, <1>9 DEF LifetimeTypeOK, ClearRepl, Drop
<1>10. ASSUME NEW w \in Workers, PopTask(w) PROVE Placed'
  <2>1. Elements(queue) = Elements(queue') \union {Head(queue)} /\ Head(queue) \in Tasks
    BY <1>2, <1>10, PopElements DEF LifetimeTypeOK, PopTask
  <2>2. \A x \in Workers : cur'[x] \in {cur[x], Head(queue)}
    BY <1>2, <1>10 DEF LifetimeTypeOK, PopTask
  <2>3. \A x \in Tasks : pc'[x] = pc[x]
    BY <1>2, <1>a, <1>10, ThreadsAssumption DEF LifetimeTypeOK, PopTask
  <2>4. Submitted' = Submitted /\ UNCHANGED <<parent, joined>>
    BY <1>10 DEF PopTask, Submitted
  <2>5. Submitted \subseteq Tasks
    BY DEF Submitted
  <2>6. QED
    BY <1>2, <2>1, <2>2, <2>3, <2>4, <2>5 DEF Placed
<1>11. ASSUME NEW w \in Workers, ExitLoop(w) PROVE Placed'
  BY <1>2, <1>a, <1>b, <1>11, ThreadsAssumption DEF LifetimeTypeOK, ExitLoop
<1>12. ASSUME NEW w \in Workers, Requeue(w) PROVE Placed'
  <2>1. cur[w] \in Tasks /\ cur[w] # NoTask
    BY <1>2, <1>12 DEF PlacesFit, LifetimeTypeOK, Requeue
  <2>2. Elements(queue') = Elements(queue) \union {cur[w]}
    BY <1>2, <1>12, <2>1, PushElements DEF LifetimeTypeOK, Requeue
  <2>3. \A x \in Workers : cur'[x] \in {cur[x], NoTask}
    BY <1>2, <1>12 DEF LifetimeTypeOK, Requeue
  <2>4. \A x \in Tasks : pc'[x] = pc[x]
    BY <1>2, <1>a, <1>12, ThreadsAssumption DEF LifetimeTypeOK, Requeue
  <2>5. Submitted' = Submitted /\ UNCHANGED <<parent, joined>> /\ Submitted \subseteq Tasks
    BY <1>12 DEF Requeue, Submitted
  <2>6. QED
    BY <1>2, <2>1, <2>2, <2>3, <2>4, <2>5 DEF Placed
<1>13. ASSUME NEW th \in Workers \union Tasks, EndSpawn(th) PROVE Placed'
  BY <1>2, <1>a, <1>b, <1>13 DEF LifetimeTypeOK, EndSpawn, Drop
<1>14. ASSUME NEW th \in Workers \union Tasks, Resolve(th) PROVE Placed'
  BY <1>2, <1>a, <1>b, <1>14 DEF LifetimeTypeOK, Resolve
<1>15. ASSUME NEW th \in Workers \union Tasks, ReplaceSlice(th) PROVE Placed'
  BY <1>2, <1>a, <1>b, <1>15 DEF LifetimeTypeOK, ReplaceSlice, Drop
<1>16. ASSUME NEW th \in Workers \union Tasks, Release(th) PROVE Placed'
  <2>1. \A x \in Workers : cur'[x] \in {cur[x], NoTask}
    BY <1>16 DEF Release
  <2>2. \E l \in {"top", "ended", "destructor"} : pc' = [pc EXCEPT ![th] = l]
    BY <1>16 DEF Release, Drop
  <2>3. \A x \in Tasks : pc[x] = "none" => pc'[x] = "none"
    BY <1>2, <1>a, <1>16, <2>2 DEF LifetimeTypeOK, Release
  <2>4. UNCHANGED <<queue, parent, joined>> /\ Submitted' = Submitted /\ Submitted \subseteq Tasks
    BY <1>16 DEF Release, Submitted
  <2>5. QED
    BY <1>2, <1>a, <2>1, <2>3, <2>4 DEF Placed
<1>17. ASSUME NEW th \in Threads, SetStop(th) PROVE Placed'
  BY <1>2, <1>a, <1>b, <1>17 DEF LifetimeTypeOK, SetStop
<1>18. ASSUME NEW th \in Threads, JoinWorkersAndFree(th) PROVE Placed'
  BY <1>2, <1>a, <1>b, <1>18 DEF LifetimeTypeOK, JoinWorkersAndFree
<1>19. CASE UNCHANGED vars
  BY <1>b, <1>19 DEF vars
<1>20. QED
  BY <1>1, <1>3, <1>4, <1>5, <1>6, <1>7, <1>8, <1>9, <1>10, <1>11, <1>12, <1>13,
     <1>14, <1>15, <1>16, <1>17, <1>18, <1>19 DEF Next, SpawnCall, ExecuteSpawn

\* What leaves the spawned and the resolved tasks alone.
LEMMA SameTasks ==
    UNCHANGED <<parent, resolved>> => Unfinished' = Unfinished
  BY DEF Unfinished, Submitted

\* Every step keeps the first slices' ownership.
LEMMA OwnersStep == LInv /\ [Next]_vars => OwnersFit'
<1>1. SUFFICES ASSUME LInv, [Next]_vars PROVE OwnersFit'
  OBVIOUS
<1>2. LifetimeTypeOK /\ PlacesFit /\ OwnersFit
  BY <1>1 DEF LInv
<1>a. {"repl", "evaluator", "global"} \intersect Capturing = {}
      /\ Workers \intersect Capturing = {}
  BY ThreadsAssumption, CapturingAssumption
<1>b. ASSUME UNCHANGED <<parent, resolved, fresh, owners, destroyer>> PROVE OwnersFit'
  BY <1>2, <1>b, SameTasks DEF OwnersFit
<1>3. ASSUME NEW t \in Tasks, Submit(t) PROVE OwnersFit'
  <2>1. Unfinished' \subseteq Unfinished \union {t}
    BY <1>2, <1>3 DEF LifetimeTypeOK, Unfinished, Submitted, Submit
  <2>2. destroyer = NoThread
    BY <1>2, <1>3 DEF PlacesFit, OwnersFit, Submit
  <2>3. QED
    BY <1>2, <1>3, <2>1, <2>2 DEF OwnersFit, Submit
<1>4. ASSUME NEW t \in Tasks, BeginSlice(t) PROVE OwnersFit'
  BY <1>b, <1>4 DEF BeginSlice
<1>5. ASSUME NEW th \in Threads, NEW t \in Tasks, NEW l, SubmitFrom(th, t, l),
             owners # {}, owners \subseteq owners',
             t \in owners' \/ t \notin Capturing
      PROVE  OwnersFit'
  <2>1. Unfinished' \subseteq Unfinished \union {t}
    BY <1>1, <1>2, <1>5, SpawnFits DEF LifetimeTypeOK, Unfinished, Submitted, SubmitFrom
  <2>2. destroyer' = NoThread /\ fresh' = fresh
    BY <1>2, <1>5 DEF OwnersFit, SubmitFrom
  <2>3. QED
    BY <1>2, <1>5, <2>1, <2>2 DEF OwnersFit
<1>6. ASSUME NEW th \in Threads, NEW t \in Tasks, Join(th, t) PROVE OwnersFit'
  BY <1>b, <1>6 DEF Join
<1>7. CASE ClearGlobal
  BY <1>2, <1>a, <1>7, SameTasks DEF OwnersFit, ClearGlobal, Drop
<1>8. CASE ClearEvaluator
  BY <1>2, <1>a, <1>8, SameTasks DEF OwnersFit, ClearEvaluator, Drop
<1>9. CASE ClearRepl
  BY <1>2, <1>a, <1>9, SameTasks DEF OwnersFit, ClearRepl, Drop
<1>10. ASSUME NEW w \in Workers, PopTask(w) PROVE OwnersFit'
  BY <1>b, <1>10 DEF PopTask
<1>11. ASSUME NEW w \in Workers, ExitLoop(w) PROVE OwnersFit'
  BY <1>b, <1>11 DEF ExitLoop
<1>12. ASSUME NEW w \in Workers, Requeue(w) PROVE OwnersFit'
  BY <1>b, <1>12 DEF Requeue
<1>13. ASSUME NEW th \in Workers \union Tasks, EndSpawn(th) PROVE OwnersFit'
  <2>1. th \notin Capturing
    BY <1>2, <1>a, <1>13 DEF PlacesFit, EndSpawn
  <2>2. QED
    BY <1>2, <1>13, <2>1, SameTasks DEF OwnersFit, EndSpawn, Drop
<1>14. ASSUME NEW th \in Workers \union Tasks, Resolve(th) PROVE OwnersFit'
  <2>1. Unfinished' \subseteq Unfinished
    BY <1>14 DEF Unfinished, Submitted, Resolve
  <2>2. QED
    BY <1>2, <1>14, <2>1 DEF OwnersFit, Resolve
<1>15. ASSUME NEW th \in Workers \union Tasks, ReplaceSlice(th) PROVE OwnersFit'
  BY <1>2, <1>15, SameTasks DEF OwnersFit, ReplaceSlice, Drop
<1>16. ASSUME NEW th \in Workers \union Tasks, Release(th) PROVE OwnersFit'
  <2>1. Body(th) \notin Unfinished
    BY <1>2, <1>16 DEF PlacesFit, Unfinished, Release, Body
  <2>2. Unfinished' = Unfinished /\ fresh' = fresh
    BY <1>16, SameTasks DEF Release
  <2>3. \/ UNCHANGED <<owners, destroyer>>
        \/ /\ owners' = owners \ {Body(th)}
           /\ destroyer' # destroyer => owners' = {}
    BY <1>16 DEF Release, Drop
  <2>4. QED
    BY <1>2, <2>1, <2>2, <2>3 DEF OwnersFit
<1>17. ASSUME NEW th \in Threads, SetStop(th) PROVE OwnersFit'
  BY <1>b, <1>17 DEF SetStop
<1>18. ASSUME NEW th \in Threads, JoinWorkersAndFree(th) PROVE OwnersFit'
  BY <1>b, <1>18 DEF JoinWorkersAndFree
<1>19. CASE UNCHANGED vars
  BY <1>b, <1>19 DEF vars
<1>20. ASSUME NEW th \in Threads, NEW t \in Tasks, SpawnCall(th, t) PROVE OwnersFit'
  BY <1>5, <1>20 DEF SpawnCall
<1>21. ASSUME NEW th \in Threads, NEW t \in Tasks, ExecuteSpawn(th, t) PROVE OwnersFit'
  BY <1>5, <1>21 DEF ExecuteSpawn
<1>22. QED
  BY <1>1, <1>3, <1>4, <1>6, <1>7, <1>8, <1>9, <1>10, <1>11, <1>12, <1>13, <1>14,
     <1>15, <1>16, <1>17, <1>18, <1>19, <1>20, <1>21 DEF Next

\* The four parts together.
LEMMA LInvStep == LInv /\ [Next]_vars => LInv'
  BY TypesStep, PlacesStep, PlacedStep, OwnersStep DEF LInv

\* The inductive invariant holds in every reachable state.
LEMMA LifetimeInvariance == Spec => []LInv
  BY InitLInv, LInvStep, PTL DEF Spec

\* Variables keep their types; who has joined a task has its result, and its
\* pthread is over.
THEOREM LifetimeTypes == Spec => []LifetimeTypeOK
<1>1. LInv => LifetimeTypeOK
  BY DEF LInv
<1>2. QED
  BY LifetimeInvariance, <1>1, PTL

\* The capture in spawnCall works: as long as a task of the evaluator waits
\* for its first slice or is in it, nobody destroys the pool.
THEOREM FirstSlicesKeepPoolAlways == Spec => []FirstSlicesKeepPool
<1>1. LInv => FirstSlicesKeepPool
  BY DEF LInv, OwnersFit, FirstSlicesKeepPool
<1>2. QED
  BY LifetimeInvariance, <1>1, PTL

-----------------------------------------------------------------------------
(* The pool of an orderly VM program                                        *)

\* Main() owns the pool, and so does, for a moment, a body that spawns; when
\* the program ends no pthread is left, so main() destroys the pool, and its
\* memory goes after the last worker has left its loop.
OwnedByMain ==
    /\ owners = (CASE pc[Main] = "program" -> {"repl", "evaluator", "global"}
                   [] pc[Main] = "evaluatorReset" -> {"repl", "evaluator"}
                   [] pc[Main] = "replReset" -> {"repl"}
                   [] OTHER -> {})
                \union {th \in Workers \union Tasks : pc[th] = "spawned"}
    /\ pc[Main] # "program" =>
          /\ \A w \in Workers : pc[w] # "spawned"
          /\ \A t \in Tasks : pc[t] \in {"none", "ended"}
    /\ destroyer \in {NoThread, Main}
    /\ \A w \in Workers : pc[w] \in {"top", "slice", "spawned", "release", "exited"}
    /\ \A t \in Tasks : pc[t] \notin {"destructor", "joinWorkers"}
    /\ pc[Main] = "returned" => freed
    /\ freed => pc[Main] # "program" /\ \A w \in Workers : pc[w] = "exited"

\* What a program has spawned, and what it has left loose, stays so.
LEMMA OrderlyBefore ==
    ASSUME LInv, [Next]_vars, Orderly'
    PROVE  Orderly /\ loose' = {}
<1> SUFFICES Submitted \subseteq Submitted' /\ loose \subseteq loose'
  BY DEF Orderly
<1>1. LifetimeTypeOK
  BY DEF LInv
<1>2. ASSUME NEW t \in Tasks, Submit(t)
      PROVE  Submitted \subseteq Submitted' /\ loose \subseteq loose'
  BY <1>1, <1>2, ThreadsAssumption DEF LifetimeTypeOK, Submitted, Submit
<1>3. ASSUME NEW th \in Threads, NEW t \in Tasks, NEW l, SubmitFrom(th, t, l)
      PROVE  Submitted \subseteq Submitted' /\ loose \subseteq loose'
  BY <1>1, <1>3, SpawnFits, ThreadsAssumption DEF LifetimeTypeOK, Submitted, SubmitFrom
<1>4. CASE UNCHANGED parent /\ loose \subseteq loose'
  BY <1>4 DEF Submitted
<1>5. CASE ClearGlobal
  BY <1>4, <1>5 DEF ClearGlobal
<1>6. CASE \E th \in Workers \union Tasks : Resolve(th) \/ ReplaceSlice(th)
  BY <1>4, <1>6 DEF Resolve, ReplaceSlice
<1>7. CASE UNCHANGED <<parent, loose>>
  BY <1>4, <1>7
<1>8. QED
  BY <1>2, <1>3, <1>5, <1>6, <1>7
     DEF Next, SpawnCall, ExecuteSpawn, BeginSlice, Join, ClearEvaluator, ClearRepl,
         PopTask, ExitLoop, Requeue, EndSpawn, Release, SetStop, JoinWorkersAndFree, vars

\* An orderly program leaves no pthread behind, and nobody in the middle of a
\* spawn.
LEMMA NoPthreadAtEnd ==
    ASSUME LInv, ClearGlobal, loose' = {},
           \A t \in Tasks : pc[t] \notin {"destructor", "joinWorkers"}
    PROVE  /\ \A t \in Tasks : pc[t] \in {"none", "ended"}
           /\ \A w \in Workers : pc[w] # "spawned"
<1>1. ASSUME NEW t \in Tasks PROVE pc[t] \in {"none", "ended"}
  <2>1. CASE pc[t] = "none"
    BY <2>1
  <2>2. CASE pc[t] # "none"
    <3>1. parent[t] \in Tasks
      BY <2>2 DEF LInv, Placed
    <3>2. Unjoined(parent[t]) \subseteq loose'
      BY <3>1 DEF ClearGlobal
    <3>3. t \in joined
      BY <3>2 DEF Unjoined
    <3>4. QED
      BY <3>3 DEF LInv, LifetimeTypeOK
  <2>3. QED
    BY <2>1, <2>2
<1>2. ASSUME NEW w \in Workers, pc[w] = "spawned" PROVE FALSE
  <2>1. Body(w) \in Tasks
    BY <1>2, BodyFits
  <2>2. Body(w) \in loose'
    BY <1>2, <2>1 DEF ClearGlobal, Threads
  <2>3. QED
    BY <2>2
<1>3. QED
  BY <1>1, <1>2

\* The step of main() through ~Repl, with the tasks' threads standing still.
LEMMA MainStep ==
    ASSUME LInv, OwnedByMain, NEW a, NEW l,
           \/ pc[Main] = "program" /\ a = "global" /\ l = "evaluatorReset"
           \/ pc[Main] = "evaluatorReset" /\ a = "evaluator" /\ l = "replReset"
           \/ pc[Main] = "replReset" /\ a = "repl" /\ l = "returned",
           \A w \in Workers : pc[w] # "spawned",
           \A t \in Tasks : pc[t] \in {"none", "ended"},
           Drop(Main, a, l), UNCHANGED freed
    PROVE  OwnedByMain'
<1>1. LifetimeTypeOK
  BY DEF LInv
<1>2. /\ Workers \subseteq Threads
      /\ Tasks \subseteq Threads
      /\ Main \in Threads
      /\ Main \notin Workers
      /\ Main \notin Tasks
  BY ThreadsAssumption DEF Threads
<1>3. {th \in Workers \union Tasks : pc[th] = "spawned"} = {}
  OBVIOUS
<1>4. /\ pc[Main] = "program" => owners = {"repl", "evaluator", "global"}
      /\ pc[Main] = "evaluatorReset" => owners = {"repl", "evaluator"}
      /\ pc[Main] = "replReset" => owners = {"repl"}
  BY <1>3 DEF OwnedByMain
<1>5. /\ owners' = owners \ {a}
      /\ pc' = [pc EXCEPT ![Main] = IF owners = {a} THEN "destructor" ELSE l]
      /\ destroyer' \in {destroyer, Main}
  BY DEF Drop
<1>6. /\ \A th \in Workers \union Tasks : pc'[th] = pc[th]
      /\ pc'[Main] = IF owners = {a} THEN "destructor" ELSE l
  BY <1>1, <1>2, <1>5 DEF LifetimeTypeOK
<1>7. {th \in Workers \union Tasks : pc'[th] = "spawned"} = {}
  BY <1>6
<1>8. owners' = CASE pc'[Main] = "program" -> {"repl", "evaluator", "global"}
                  [] pc'[Main] = "evaluatorReset" -> {"repl", "evaluator"}
                  [] pc'[Main] = "replReset" -> {"repl"}
                  [] OTHER -> {}
  BY <1>4, <1>5, <1>6
<1>9. pc'[Main] # "program" /\ pc'[Main] # "returned"
  BY <1>4, <1>6
<1>10. QED
  BY <1>5, <1>6, <1>7, <1>8, <1>9 DEF OwnedByMain

\* A step of a task's thread that spawns nothing and drops nothing.
LEMMA TaskThreadStep ==
    ASSUME LInv, OwnedByMain, NEW th \in Workers \union Tasks,
           pc[th] \in {"top", "begin", "slice", "release"},
           \/ /\ th \in Workers
              /\ \/ pc' = [pc EXCEPT ![th] = "top"]
                 \/ pc' = [pc EXCEPT ![th] = "exited"]
           \/ /\ th \in Tasks
              /\ pc' = [pc EXCEPT ![th] = "ended"]
           \/ pc' = [pc EXCEPT ![th] = "slice"]
           \/ pc' = [pc EXCEPT ![th] = "release"],
           UNCHANGED <<owners, destroyer, freed>>
    PROVE  OwnedByMain'
<1>1. LifetimeTypeOK /\ PlacesFit
  BY DEF LInv
<1>2. Workers \union Tasks \subseteq Threads /\ Main \notin Workers \union Tasks
  BY ThreadsAssumption DEF Threads
<1>3. /\ \/ th \in Workers /\ pc'[th] \in {"top", "slice", "release", "exited"}
         \/ th \in Tasks /\ pc'[th] \in {"slice", "release", "ended"}
      /\ \A x \in Threads \ {th} : pc'[x] = pc[x]
      /\ pc'[Main] = pc[Main]
  BY <1>1, <1>2 DEF LifetimeTypeOK, Threads
<1>4. {x \in Workers \union Tasks : pc'[x] = "spawned"}
        = {x \in Workers \union Tasks : pc[x] = "spawned"}
  BY <1>2, <1>3, ThreadsAssumption
<1>5. owners' = (CASE pc'[Main] = "program" -> {"repl", "evaluator", "global"}
                   [] pc'[Main] = "evaluatorReset" -> {"repl", "evaluator"}
                   [] pc'[Main] = "replReset" -> {"repl"}
                   [] OTHER -> {})
                \union {x \in Workers \union Tasks : pc'[x] = "spawned"}
  BY <1>3, <1>4 DEF OwnedByMain
<1>6. /\ pc'[Main] # "program" =>
            /\ \A w \in Workers : pc'[w] # "spawned"
            /\ \A t \in Tasks : pc'[t] \in {"none", "ended"}
      /\ \A w \in Workers : pc'[w] \in {"top", "slice", "spawned", "release", "exited"}
      /\ \A t \in Tasks : pc'[t] \notin {"destructor", "joinWorkers"}
  BY <1>2, <1>3, ThreadsAssumption DEF OwnedByMain
<1>7. freed => pc'[Main] # "program" /\ \A w \in Workers : pc'[w] = "exited"
  BY <1>2, <1>3, ThreadsAssumption DEF OwnedByMain
<1>8. QED
  BY <1>3, <1>5, <1>6, <1>7 DEF OwnedByMain

\* With no captured shared_ptr, and every pthread joined, the pool stays in
\* main()'s hands.
LEMMA OwnedByMainStep ==
    ASSUME Orderly', LInv, OwnedByMain, [Next]_vars
    PROVE  OwnedByMain'
<1>1. LifetimeTypeOK /\ PlacesFit
  BY DEF LInv
<1>2. Orderly /\ loose' = {}
  BY OrderlyBefore
<1>a. /\ Workers \subseteq Threads
      /\ Tasks \subseteq Threads
      /\ Main \in Threads
      /\ Main \notin Workers
      /\ Main \notin Tasks
  BY ThreadsAssumption DEF Threads
<1>b. CASE UNCHANGED <<owners, pc, destroyer, freed>>
  BY <1>b DEF OwnedByMain
<1>3. ASSUME NEW t \in Tasks, Submit(t) PROVE OwnedByMain'
  <2>1. t \in Submitted'
    BY <1>1, <1>3, ThreadsAssumption DEF LifetimeTypeOK, Submit, Submitted
  <2>2. t \notin Capturing
    BY <1>3, <2>1 DEF Orderly
  <2>3. QED
    BY <1>b, <1>3, <2>2 DEF Submit
<1>4. ASSUME NEW t \in Tasks, BeginSlice(t) PROVE OwnedByMain'
  BY <1>4, TaskThreadStep, ThreadsAssumption DEF BeginSlice
<1>5. ASSUME NEW th \in Threads, NEW t \in Tasks, SpawnCall(th, t) PROVE FALSE
  <2>1. t \in Submitted'
    BY <1>1, <1>5, SpawnFits, ThreadsAssumption DEF LifetimeTypeOK, SpawnCall, Submitted
  <2>2. QED
    BY <1>5, <2>1 DEF SpawnCall, Orderly
<1>6. ASSUME NEW th \in Threads, NEW t \in Tasks, ExecuteSpawn(th, t) PROVE OwnedByMain'
  <2>1. /\ th \in Workers \union Tasks
        /\ th # t
        /\ pc[t] = "none"
        /\ pc' \in {[pc EXCEPT ![th] = "spawned"],
                    [pc EXCEPT ![th] = "spawned", ![t] = "begin"]}
    BY <1>6, SpawnFits DEF ExecuteSpawn
  <2>2. pc[Main] = "program"
    BY <1>6, <1>a, ThreadsAssumption DEF ExecuteSpawn, OwnedByMain
  <2>3. /\ pc'[th] = "spawned"
        /\ pc'[t] \in {"none", "begin"}
        /\ \A x \in Threads \ {th, t} : pc'[x] = pc[x]
        /\ pc'[Main] = "program"
    BY <1>1, <1>a, <2>1, <2>2 DEF LifetimeTypeOK
  <2>4. {x \in Workers \union Tasks : pc'[x] = "spawned"}
          = {x \in Workers \union Tasks : pc[x] = "spawned"} \union {th}
    BY <1>a, <2>1, <2>3
  <2>5. owners = {"repl", "evaluator", "global"}
                    \union {x \in Workers \union Tasks : pc[x] = "spawned"}
    BY <2>2 DEF OwnedByMain
  <2>6. owners' = owners \union {th} /\ UNCHANGED <<destroyer, freed>>
    BY <1>6 DEF ExecuteSpawn, SubmitFrom
  <2>7. owners' = {"repl", "evaluator", "global"}
                     \union {x \in Workers \union Tasks : pc'[x] = "spawned"}
    BY <2>4, <2>5, <2>6
  <2>8. /\ \A w \in Workers : pc'[w] \in {"top", "slice", "spawned", "release", "exited"}
        /\ \A u \in Tasks : pc'[u] \notin {"destructor", "joinWorkers"}
    BY <1>a, <2>1, <2>3, ThreadsAssumption DEF OwnedByMain
  <2>9. ~freed
    BY <2>2 DEF OwnedByMain
  <2>10. QED
    BY <2>3, <2>6, <2>7, <2>8, <2>9 DEF OwnedByMain
<1>7. ASSUME NEW th \in Threads, NEW t \in Tasks, Join(th, t) PROVE OwnedByMain'
  BY <1>b, <1>7 DEF Join
<1>8. CASE ClearGlobal
  <2>1. /\ \A t \in Tasks : pc[t] \in {"none", "ended"}
        /\ \A w \in Workers : pc[w] # "spawned"
    BY <1>2, <1>8, NoPthreadAtEnd DEF OwnedByMain
  <2>2. pc[Main] = "program" /\ Drop(Main, "global", "evaluatorReset") /\ UNCHANGED freed
    BY <1>8 DEF ClearGlobal
  <2>3. QED
    BY <2>1, <2>2, MainStep
<1>9. CASE ClearEvaluator
  <2>1. /\ pc[Main] = "evaluatorReset"
        /\ Drop(Main, "evaluator", "replReset")
        /\ UNCHANGED freed
    BY <1>9 DEF ClearEvaluator
  <2>2. /\ \A t \in Tasks : pc[t] \in {"none", "ended"}
        /\ \A w \in Workers : pc[w] # "spawned"
    BY <2>1 DEF OwnedByMain
  <2>3. QED
    BY <2>1, <2>2, MainStep
<1>10. CASE ClearRepl
  <2>1. pc[Main] = "replReset" /\ Drop(Main, "repl", "returned") /\ UNCHANGED freed
    BY <1>10 DEF ClearRepl
  <2>2. /\ \A t \in Tasks : pc[t] \in {"none", "ended"}
        /\ \A w \in Workers : pc[w] # "spawned"
    BY <2>1 DEF OwnedByMain
  <2>3. QED
    BY <2>1, <2>2, MainStep
<1>11. ASSUME NEW w \in Workers, PopTask(w) PROVE OwnedByMain'
  BY <1>11, TaskThreadStep, ThreadsAssumption DEF PopTask
<1>12. ASSUME NEW w \in Workers, ExitLoop(w) PROVE OwnedByMain'
  <2>1. /\ pc[w] = "top"
        /\ pc' = [pc EXCEPT ![w] = "exited"]
        /\ UNCHANGED <<owners, destroyer, freed>>
    BY <1>12 DEF ExitLoop
  <2>2. QED
    BY <2>1, TaskThreadStep
<1>13. ASSUME NEW w \in Workers, Requeue(w) PROVE FALSE
  BY <1>13 DEF OwnedByMain, Requeue
<1>14. ASSUME NEW th \in Workers \union Tasks, EndSpawn(th) PROVE OwnedByMain'
  <2>1. pc[th] = "spawned" /\ Drop(th, th, "slice") /\ UNCHANGED freed
    BY <1>14 DEF EndSpawn
  <2>2. pc[Main] = "program"
    BY <2>1 DEF OwnedByMain
  <2>3. owners = {"repl", "evaluator", "global"}
                    \union {x \in Workers \union Tasks : pc[x] = "spawned"}
    BY <2>2 DEF OwnedByMain
  <2>4. /\ owners' = owners \ {th}
        /\ destroyer' = destroyer
        /\ pc' = [pc EXCEPT ![th] = "slice"]
    <3>1. "repl" \in owners /\ "evaluator" \in owners
      BY <2>3
    <3>2. QED
      BY <2>1, <3>1 DEF Drop
  <2>5. /\ pc'[th] = "slice"
        /\ \A x \in Threads \ {th} : pc'[x] = pc[x]
        /\ pc'[Main] = "program"
    BY <1>1, <1>a, <2>2, <2>4 DEF LifetimeTypeOK
  <2>6. {x \in Workers \union Tasks : pc'[x] = "spawned"}
          = {x \in Workers \union Tasks : pc[x] = "spawned"} \ {th}
    BY <1>a, <2>5
  <2>7. owners' = {"repl", "evaluator", "global"}
                     \union {x \in Workers \union Tasks : pc'[x] = "spawned"}
    BY <2>3, <2>4, <2>6, ThreadsAssumption
  <2>8. /\ \A w \in Workers : pc'[w] \in {"top", "slice", "spawned", "release", "exited"}
        /\ \A u \in Tasks : pc'[u] \notin {"destructor", "joinWorkers"}
    BY <1>a, <2>5 DEF OwnedByMain
  <2>9. ~freed
    BY <2>2 DEF OwnedByMain
  <2>10. QED
    BY <2>1, <2>4, <2>5, <2>7, <2>8, <2>9 DEF OwnedByMain
<1>15. ASSUME NEW th \in Workers \union Tasks, Resolve(th) PROVE OwnedByMain'
  BY <1>15, TaskThreadStep DEF Resolve
<1>16. ASSUME NEW th \in Workers \union Tasks, ReplaceSlice(th) PROVE FALSE
  <2>1. Body(th) \in Capturing /\ Body(th) \in Submitted
    BY <1>16, BodyFits DEF ReplaceSlice
  <2>2. QED
    BY <1>2, <2>1 DEF Orderly
<1>17. ASSUME NEW th \in Workers \union Tasks, Release(th) PROVE OwnedByMain'
  <2>1. pc[th] = "release" /\ Body(th) \in Tasks
    BY <1>17, BodyFits DEF Release
  <2>2. pc[Body(th)] # "spawned"
    BY <1>1, <2>1 DEF LInv, PlacesFit, Placed, Body
  <2>3. Body(th) \notin owners
    BY <2>1, <2>2, ThreadsAssumption DEF OwnedByMain
  <2>4. UNCHANGED <<owners, destroyer, freed>>
    BY <1>17, <2>3 DEF Release
  <2>5. CASE th \in Workers
    <3>1. pc' = [pc EXCEPT ![th] = "top"]
      BY <1>17, <2>3, <2>5, ThreadsAssumption DEF Release
    <3>2. QED
      BY <2>1, <2>4, <2>5, <3>1, TaskThreadStep
  <2>6. CASE th \notin Workers
    <3>1. pc' = [pc EXCEPT ![th] = "ended"]
      BY <1>17, <2>3, <2>6 DEF Release
    <3>2. QED
      BY <2>1, <2>4, <2>6, <3>1, TaskThreadStep
  <2>7. QED
    BY <2>5, <2>6
<1>18. ASSUME NEW th \in Threads, SetStop(th) PROVE OwnedByMain'
  <2>1. th = Main /\ pc[Main] = "destructor"
    BY <1>18 DEF OwnedByMain, SetStop, Threads
  <2>2. /\ pc'[Main] = "joinWorkers"
        /\ \A x \in Workers \union Tasks : pc'[x] = pc[x]
    BY <1>1, <1>a, <1>18, <2>1 DEF LifetimeTypeOK, SetStop
  <2>3. {x \in Workers \union Tasks : pc'[x] = "spawned"}
          = {x \in Workers \union Tasks : pc[x] = "spawned"}
    BY <2>2
  <2>4. QED
    BY <1>18, <2>1, <2>2, <2>3 DEF OwnedByMain, SetStop
<1>19. ASSUME NEW th \in Threads, JoinWorkersAndFree(th) PROVE OwnedByMain'
  <2>1. th = Main /\ pc[Main] = "joinWorkers"
    BY <1>19 DEF OwnedByMain, JoinWorkersAndFree, Threads
  <2>2. /\ pc'[Main] = "returned"
        /\ \A x \in Workers \union Tasks : pc'[x] = pc[x]
        /\ \A w \in Workers : pc[w] = "exited"
    BY <1>1, <1>a, <1>19, <2>1 DEF LifetimeTypeOK, JoinWorkersAndFree, AfterDestructor
  <2>3. {x \in Workers \union Tasks : pc'[x] = "spawned"}
          = {x \in Workers \union Tasks : pc[x] = "spawned"}
    BY <2>2
  <2>4. QED
    BY <1>19, <2>1, <2>2, <2>3 DEF OwnedByMain, JoinWorkersAndFree
<1>20. CASE UNCHANGED vars
  BY <1>b, <1>20 DEF vars
<1>21. QED
  BY <1>3, <1>4, <1>5, <1>6, <1>7, <1>8, <1>9, <1>10, <1>11, <1>12, <1>13, <1>14,
     <1>15, <1>16, <1>17, <1>18, <1>19, <1>20 DEF Next

\* The two invariants together, for an orderly VM program.
LEMMA OwnedByMainAlways == Spec => [](LInv /\ (Orderly => OwnedByMain))
<1>1. Init => OwnedByMain
  <2>1. SUFFICES ASSUME Init PROVE OwnedByMain
    OBVIOUS
  <2>2. /\ pc[Main] = "program"
        /\ \A w \in Workers : pc[w] = "top"
        /\ \A t \in Tasks : pc[t] = "none"
    BY <2>1, ThreadsAssumption DEF Init, Threads
  <2>3. {th \in Workers \union Tasks : pc[th] = "spawned"} = {}
    BY <2>2
  <2>4. QED
    BY <2>1, <2>2, <2>3 DEF Init, OwnedByMain
<1>2. LInv /\ (Orderly => OwnedByMain) /\ [Next]_vars
        => LInv' /\ (Orderly => OwnedByMain)'
  BY LInvStep, OrderlyBefore, OwnedByMainStep
<1>3. QED
  BY InitLInv, <1>1, <1>2, PTL DEF Spec

\* ~Repl destroys the pool of an orderly VM program on the interpreter's
\* thread.
THEOREM DestroyedByMainAlways == Spec => []DestroyedByMain
<1>1. (Orderly => OwnedByMain) => DestroyedByMain
  BY DEF OwnedByMain, DestroyedByMain
<1>2. QED
  BY OwnedByMainAlways, <1>1, PTL

\* No worker and no pthread of an orderly VM program touches the pool after its
\* destructor, which waits for the workers only.
THEOREM NoUseAfterFreeAlways == Spec => []NoUseAfterFree
<1>1. (Orderly => OwnedByMain) => NoUseAfterFree
  BY DEF OwnedByMain, NoUseAfterFree
<1>2. QED
  BY OwnedByMainAlways, <1>1, PTL

\* ~Repl returns after the last task of an orderly VM program.
THEOREM NothingRunsAfterReplAlways == Spec => []NothingRunsAfterRepl
<1>1. (Orderly => OwnedByMain) => NothingRunsAfterRepl
  BY DEF OwnedByMain, NothingRunsAfterRepl
<1>2. QED
  BY OwnedByMainAlways, <1>1, PTL
=============================================================================
