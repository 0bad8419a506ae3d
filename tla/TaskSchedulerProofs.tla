------------------------ MODULE TaskSchedulerProofs -------------------------
(***************************************************************************)
(* Proofs about TaskScheduler, for any tasks, workers and quantum budget:   *)
(* what a task goes through and that the pool implements TaskContract, and  *)
(* after it, by counting threads, that no queued task is forgotten.  At the *)
(* end those about StructuredTasks, which chooses among its steps.          *)
(***************************************************************************)
EXTENDS StructuredTasks, TLAPS, FiniteSetTheorems

\* Where a thread has a task in its hands.
Holding == {"popped", "checked", "body", "resumed", "resolve", "joinFuture", "joinThread"}

Joining == {"joinFuture", "joinThread"}

\* Where a thread is inside the spawned call (or the top-level program).
InBody == {"body", "notify", "joinFuture", "joinThread"}

\* Which locations each kind of thread visits, and what it holds there.
Places ==
    /\ pc[Main] \in InBody \union {"stopping", "draining", "destroyed"}
    /\ cur[Main] = NoTask
    /\ \A w \in Workers :
          /\ pc[w] \in Holding \union {"top", "waiting", "notify", "exited"}
          /\ cur[w] # NoTask <=> pc[w] \in Holding
    /\ \A t \in Tasks :
          /\ pc[t] \in Holding \union {"none", "notify", "leaving", "exited"}
          /\ cur[t] = IF pc[t] \in Holding \union {"notify"} THEN t ELSE NoTask
    /\ \A th \in Threads : target[th] # NoTask <=> pc[th] \in Joining

\* What is known of a task from its status alone.
StatusFits ==
    \A t \in Tasks :
        /\ status[t] = "none" =>
              /\ promise[t] = "none"
              /\ taker[t] = NoThread
              /\ pc[t] = "none"
              /\ ~cancelRequested[t]
        /\ status[t] \in {"none", "ready"} => runSlices[t] = 0 /\ ~resumable[t]
        /\ status[t] = "yielded" => runSlices[t] > 0 /\ resumable[t]
        /\ promise[t] # "none" => status[t] \in Final /\ promise[t] = OutcomeOf[status[t]]
        /\ t \in Queued => status[t] \in {"ready", "yielded"}

\* What is known of a task from where its holder is.
HolderFits ==
    \A th \in Threads : cur[th] # NoTask =>
        /\ pc[th] \in {"popped", "checked"} => status[cur[th]] \in {"ready", "yielded"}
        /\ pc[th] \in InBody =>
              /\ status[cur[th]] = "running"
              /\ runSlices[cur[th]] = 1
              /\ ~resumable[cur[th]]
        /\ pc[th] = "resumed" =>
              /\ status[cur[th]] = "running"
              /\ runSlices[cur[th]] > 0
        /\ pc[th] = "resolve" =>
              /\ status[cur[th]] \in Final
              /\ status[cur[th]] = "cancelled" => cancelRequested[cur[th]]
              /\ status[cur[th]] # "cancelled" => runSlices[cur[th]] > 0

\* Joins, and the pthreads of nested tasks.
JoinFits ==
    /\ \A th \in Threads : pc[th] \in Joining => taker[target[th]] = th
    /\ \A th \in Threads : pc[th] = "joinThread" => promise[target[th]] # "none"
    /\ \A t \in Tasks : pc[t] \notin {"none", "exited"} => hasOverflow[t]
    /\ \A t \in Tasks : taker[t] # NoThread /\ target[taker[t]] # t =>
          /\ promise[t] # "none"
          /\ ~hasOverflow[t]

IInv == TypeOK /\ Places /\ OneHolder /\ StatusFits /\ HolderFits /\ JoinFits

-----------------------------------------------------------------------------
(* Proofs                                                                   *)

\* enqueueTask: push adds one element at the end of the queue.
LEMMA AppendElements ==
    ASSUME NEW S, NEW q \in Seq(S), NEW t \in S
    PROVE  /\ Append(q, t) \in Seq(S)
           /\ Elements(Append(q, t)) = Elements(q) \union {t}
           /\ NoRepeats(q) /\ t \notin Elements(q) => NoRepeats(Append(q, t))
<1>1. /\ Append(q, t) \in Seq(S)
      /\ Len(Append(q, t)) = Len(q) + 1
      /\ Len(q) \in Nat
      /\ Append(q, t)[Len(q) + 1] = t
      /\ \A i \in 1..Len(q) : Append(q, t)[i] = q[i]
  OBVIOUS
<1>2. Elements(Append(q, t)) = Elements(q) \union {t}
  BY <1>1 DEF Elements
<1>3. NoRepeats(q) /\ t \notin Elements(q) => NoRepeats(Append(q, t))
  BY <1>1 DEF Elements, NoRepeats
<1>4. QED
  BY <1>1, <1>2, <1>3

\* workerLoop: front and pop take one element out of the queue.
LEMMA TailElements ==
    ASSUME NEW S, NEW q \in Seq(S), q # <<>>, NoRepeats(q)
    PROVE  /\ Tail(q) \in Seq(S)
           /\ Head(q) \in S
           /\ Elements(q) = Elements(Tail(q)) \union {Head(q)}
           /\ Head(q) \notin Elements(Tail(q))
           /\ NoRepeats(Tail(q))
<1>1. /\ Tail(q) \in Seq(S)
      /\ Len(q) \in Nat \ {0}
      /\ Len(Tail(q)) = Len(q) - 1
      /\ Head(q) = q[1]
      /\ q[1] \in S
      /\ \A i \in 1..(Len(q) - 1) : Tail(q)[i] = q[i + 1]
  OBVIOUS
<1>2. Elements(Tail(q)) = {q[i] : i \in 2..Len(q)}
  <2>1. ASSUME NEW i \in 2..Len(q) PROVE i - 1 \in 1..(Len(q) - 1) /\ q[i] = Tail(q)[i - 1]
    BY <1>1
  <2>2. QED
    BY <1>1, <2>1 DEF Elements
<1>3. Elements(q) = Elements(Tail(q)) \union {Head(q)}
  BY <1>1, <1>2 DEF Elements
<1>4. Head(q) \notin Elements(Tail(q))
  BY <1>1, <1>2 DEF NoRepeats
<1>5. NoRepeats(Tail(q))
  BY <1>1 DEF NoRepeats
<1>6. QED
  BY <1>1, <1>3, <1>4, <1>5

\* A step that leaves the queue and every thread's task alone, and opens or
\* closes no promise, keeps every task where it was.
LEMMA SamePlaces ==
    ASSUME OneHolder, cur' = cur, queue' = queue,
           \A u \in Tasks : Pending(u)' <=> Pending(u)
    PROVE  OneHolder'
  BY DEF OneHolder, Queued

\* A thread without a task takes one up, from the queue or a new one.
LEMMA TakeUp ==
    ASSUME TypeOK, OneHolder,
           NEW x \in Threads, NEW t \in Tasks,
           cur[x] = NoTask, cur' = [cur EXCEPT ![x] = t],
           \A a \in Threads : cur[a] # t,
           NoRepeats(queue'), t \notin Queued', Queued' \union {t} = Queued \union {t},
           NoTask \notin Queued',
           \A u \in Tasks : Pending(u)' <=> Pending(u) \/ u = t
    PROVE  OneHolder'
<1>1. \A a \in Threads : cur'[a] = IF a = x THEN t ELSE cur[a]
  BY DEF TypeOK
<1>2. \A a, b \in Threads : cur'[a] = cur'[b] /\ cur'[a] # NoTask => a = b
  BY <1>1 DEF OneHolder
<1>3. \A a \in Threads : cur'[a] \notin Queued'
  BY <1>1 DEF OneHolder
<1>4. ASSUME NEW u \in Tasks
      PROVE  Pending(u)' <=> u \in Queued' \/ \E a \in Threads : cur'[a] = u
  <2>1. CASE u = t
    BY <1>1, <2>1
  <2>2. CASE u # t
    <3>1. (\E a \in Threads : cur'[a] = u) <=> \E a \in Threads : cur[a] = u
      BY <1>1, <2>2, DistinctAssumption
    <3>2. u \in Queued' <=> u \in Queued
      BY <2>2
    <3>3. QED
      BY <2>2, <3>1, <3>2 DEF OneHolder
  <2>3. QED
    BY <2>1, <2>2
<1>5. QED
  BY <1>2, <1>3, <1>4 DEF OneHolder

\* A thread puts its task down: on the queue, or for good.
LEMMA PutDown ==
    ASSUME TypeOK, OneHolder,
           NEW x \in Threads, NEW t \in Tasks,
           cur[x] = t, cur' = [cur EXCEPT ![x] = NoTask],
           NoRepeats(queue'), Queued' \ {t} = Queued \ {t},
           NoTask \notin Queued',
           \A u \in Tasks \ {t} : Pending(u)' <=> Pending(u),
           Pending(t)' <=> t \in Queued'
    PROVE  OneHolder'
<1>1. \A a \in Threads : cur'[a] = IF a = x THEN NoTask ELSE cur[a]
  BY DEF TypeOK
<1>2. \A a, b \in Threads : cur'[a] = cur'[b] /\ cur'[a] # NoTask => a = b
  BY <1>1 DEF OneHolder
<1>3. ASSUME NEW a \in Threads PROVE cur'[a] # t
  <2>1. CASE a = x
    BY <1>1, <2>1, DistinctAssumption
  <2>2. CASE a # x
    BY <1>1, <2>2, DistinctAssumption DEF OneHolder
  <2>3. QED
    BY <2>1, <2>2
<1>4. \A a \in Threads : cur'[a] \notin Queued'
  BY <1>1, <1>3 DEF OneHolder
<1>5. ASSUME NEW u \in Tasks
      PROVE  Pending(u)' <=> u \in Queued' \/ \E a \in Threads : cur'[a] = u
  <2>1. CASE u = t
    BY <1>3, <2>1
  <2>2. CASE u # t
    <3>1. (\E a \in Threads : cur'[a] = u) <=> \E a \in Threads : cur[a] = u
      BY <1>1, <2>2, DistinctAssumption
    <3>2. u \in Queued' <=> u \in Queued
      BY <2>2
    <3>3. QED
      BY <2>2, <3>1, <3>2 DEF OneHolder
  <2>3. QED
    BY <2>1, <2>2
<1>6. QED
  BY <1>2, <1>4, <1>5 DEF OneHolder

\* The queue holds tasks only.
LEMMA QueuedTasks == TypeOK => Queued \subseteq Tasks
<1> SUFFICES ASSUME TypeOK, NEW i \in 1..Len(queue) PROVE queue[i] \in Tasks
  BY DEF Queued, Elements
<1> QED
  BY DEF TypeOK

\* Every step keeps the types; promise needs HolderFits, since a promise is
\* fulfilled according to the status its holder has just stored.
LEMMA TypeOKStep == IInv /\ [Next]_vars => TypeOK'
<1> SUFFICES ASSUME IInv, [Next]_vars PROVE TypeOK'  OBVIOUS
<1> USE DistinctAssumption, BudgetAssumption DEF IInv, Goto, Threads, threadVars, poolVars, handleVars, sliceVars, TypeOK, Locations, Final, Places, Holding, HolderFits, OutcomeOf
<1>1. ASSUME NEW th \in Threads, NEW w \in Workers, NotifyOne(th, w) PROVE TypeOK'
  BY <1>1 DEF NotifyOne, AfterNotify
<1>2. ASSUME NEW th \in Threads, NotifyUnheard(th) PROVE TypeOK'
  BY <1>2 DEF NotifyUnheard, AfterNotify
<1>3. ASSUME NEW th \in Threads, CancelBeforeSlice(th) PROVE TypeOK'
  BY <1>3 DEF CancelBeforeSlice
<1>4. ASSUME NEW th \in Threads, PassCancelCheck(th) PROVE TypeOK'
  BY <1>4 DEF PassCancelCheck
<1>5. ASSUME NEW th \in Threads, BeginSlice(th) PROVE TypeOK'
  <2>1. cur[th] \in Tasks
    BY <1>5 DEF BeginSlice, InBody
  <2>2. /\ (IF resumable[cur[th]] THEN "resumed" ELSE "body") \in Locations
        /\ runSlices[cur[th]] + 1 \in Nat
    BY <2>1
  <2>3. QED
    BY <1>5, <2>1, <2>2 DEF BeginSlice
<1>6. ASSUME NEW th \in Threads, ResolvePromise(th) PROVE TypeOK'
  <2>1. cur[th] \in Tasks /\ status[cur[th]] \in Final
    BY <1>6 DEF ResolvePromise, InBody
  <2>2. /\ OutcomeOf[status[cur[th]]] \in {"none", "value", "error", "cancelled"}
        /\ (IF th \in Workers THEN "top" ELSE "leaving") \in Locations
    BY <2>1
  <2>3. QED
    BY <1>6, <2>1, <2>2 DEF ResolvePromise
<1>7. ASSUME NEW th \in Threads, LeaveThread(th) PROVE TypeOK'
  BY <1>7 DEF LeaveThread
<1>8. ASSUME NEW th \in Threads, FutureGet(th) PROVE TypeOK'
  BY <1>8 DEF FutureGet
<1>9. ASSUME NEW th \in Threads, FutureGetNested(th) PROVE TypeOK'
  BY <1>9 DEF FutureGetNested
<1>10. ASSUME NEW th \in Threads, JoinOverflow(th) PROVE TypeOK'
  BY <1>10 DEF JoinOverflow
<1>11. ASSUME NEW th \in Threads, CheckpointCancel(th) PROVE TypeOK'
  BY <1>11 DEF CheckpointCancel
<1>12. ASSUME NEW th \in Threads, CheckpointSpend(th) PROVE TypeOK'
  BY <1>12 DEF CheckpointSpend
<1>13. ASSUME NEW th \in Threads, BodyThrows(th) PROVE TypeOK'
  BY <1>13 DEF BodyThrows
<1>14. ASSUME NEW th \in Threads, FinishTask(th) PROVE TypeOK'
  BY <1>14 DEF FinishTask, MustYield
<1>15. ASSUME NEW th \in Threads, NEW t \in Tasks, SubmitQueued(th, t) PROVE TypeOK'
  BY <1>15 DEF SubmitQueued
<1>16. ASSUME NEW th \in Threads, NEW t \in Tasks, ClaimJoin(th, t) PROVE TypeOK'
  BY <1>16 DEF ClaimJoin
<1>17. ASSUME NEW th \in Threads, NEW t \in Tasks, TaskCancel(th, t) PROVE TypeOK'
  BY <1>17 DEF TaskCancel
<1>18. ASSUME NEW w \in Workers, WaitForWork(w) PROVE TypeOK'
  BY <1>18 DEF WaitForWork
<1>19. ASSUME NEW w \in Workers, PopTask(w) PROVE TypeOK'
  BY <1>19 DEF PopTask
<1>20. ASSUME NEW w \in Workers, ExitLoop(w) PROVE TypeOK'
  BY <1>20 DEF ExitLoop
<1>21. ASSUME NEW w \in Workers, YieldToQueue(w) PROVE TypeOK'
  BY <1>21 DEF YieldToQueue, MustYield
<1>22. ASSUME NEW w \in Workers, SpuriousWakeup(w) PROVE TypeOK'
  BY <1>22 DEF SpuriousWakeup
<1>23. ASSUME NEW w \in Workers, OverflowStartFails(w) PROVE TypeOK'
  BY <1>23 DEF OverflowStartFails
<1>24. ASSUME NEW w \in Workers, NEW t \in Tasks, SubmitOverflow(w, t) PROVE TypeOK'
  BY <1>24 DEF SubmitOverflow
<1>25. ASSUME NEW t \in Tasks, YieldInPlace(t) PROVE TypeOK'
  BY <1>25 DEF YieldInPlace, MustYield
<1>26. ASSUME SetStop PROVE TypeOK'
  BY <1>26 DEF SetStop
<1>27. ASSUME NotifyAll PROVE TypeOK'
  BY <1>27 DEF NotifyAll
<1>28. ASSUME JoinWorkers PROVE TypeOK'
  BY <1>28 DEF JoinWorkers
<1>29. ASSUME UNCHANGED vars PROVE TypeOK'
  BY <1>29 DEF vars
<1>30. QED
  BY <1>1, <1>2, <1>3, <1>4, <1>5, <1>6, <1>7, <1>8, <1>9, <1>10, <1>11, <1>12, <1>13, <1>14, <1>15, <1>16, <1>17, <1>18, <1>19, <1>20, <1>21, <1>22, <1>23, <1>24, <1>25, <1>26, <1>27, <1>28, <1>29 DEF Next, SystemStep, WorkerStep, ProgramStep, Destructor

\* Every step keeps each thread on its own track.
LEMMA PlacesStep == IInv /\ [Next]_vars => Places'
<1> SUFFICES ASSUME IInv, [Next]_vars PROVE Places'  OBVIOUS
<1> USE DistinctAssumption, BudgetAssumption DEF IInv, Goto, Threads, threadVars, poolVars, handleVars, sliceVars, TypeOK, Places, Holding, Joining, InBody
<1>1. ASSUME NEW th \in Threads, NEW w \in Workers, NotifyOne(th, w) PROVE Places'
  <2>1. /\ \A u \in Threads : pc'[u] = IF u = w THEN "top" ELSE IF u = th THEN AfterNotify(th) ELSE pc[u]
        /\ cur' = cur /\ target' = target
        /\ pc[th] = "notify" /\ pc[w] = "waiting"
    BY <1>1 DEF NotifyOne
  <2>2. /\ th \in Workers => AfterNotify(th) = "top"
        /\ th \notin Workers => AfterNotify(th) = "body"
    BY DEF AfterNotify
  <2>3. \A u \in Workers : /\ pc'[u] \in Holding \union {"top", "waiting", "notify", "exited"}
                           /\ cur'[u] # NoTask <=> pc'[u] \in Holding
    BY <2>1, <2>2
  <2>4. ASSUME NEW u \in Tasks
        PROVE  /\ pc'[u] \in Holding \union {"none", "notify", "leaving", "exited"}
               /\ cur'[u] = IF pc'[u] \in Holding \union {"notify"} THEN u ELSE NoTask
    <3>1. CASE u = th
      BY <2>1, <2>2, <3>1
    <3>2. CASE u # th
      BY <2>1, <3>2
    <3>3. QED
      BY <3>1, <3>2
  <2>5. \A u \in Threads : target'[u] # NoTask <=> pc'[u] \in Joining
    BY <2>1, <2>2
  <2>6. /\ pc'[Main] \in InBody \union {"stopping", "draining", "destroyed"}
        /\ cur'[Main] = NoTask
    BY <2>1, <2>2
  <2>7. QED
    BY <2>3, <2>4, <2>5, <2>6
<1>2. ASSUME NEW th \in Threads, NotifyUnheard(th) PROVE Places'
  <2>1. /\ \A u \in Threads : pc'[u] = IF u = th THEN AfterNotify(th) ELSE pc[u]
        /\ cur' = cur /\ target' = target
        /\ pc[th] = "notify"
    BY <1>2 DEF NotifyUnheard
  <2>2. /\ th \in Workers => AfterNotify(th) = "top"
        /\ th \notin Workers => AfterNotify(th) = "body"
    BY DEF AfterNotify
  <2>3. \A u \in Workers : /\ pc'[u] \in Holding \union {"top", "waiting", "notify", "exited"}
                           /\ cur'[u] # NoTask <=> pc'[u] \in Holding
    BY <2>1, <2>2
  <2>4. ASSUME NEW u \in Tasks
        PROVE  /\ pc'[u] \in Holding \union {"none", "notify", "leaving", "exited"}
               /\ cur'[u] = IF pc'[u] \in Holding \union {"notify"} THEN u ELSE NoTask
    <3>1. CASE u = th
      BY <2>1, <2>2, <3>1
    <3>2. CASE u # th
      BY <2>1, <3>2
    <3>3. QED
      BY <3>1, <3>2
  <2>5. \A u \in Threads : target'[u] # NoTask <=> pc'[u] \in Joining
    BY <2>1, <2>2
  <2>6. /\ pc'[Main] \in InBody \union {"stopping", "draining", "destroyed"}
        /\ cur'[Main] = NoTask
    BY <2>1, <2>2
  <2>7. QED
    BY <2>3, <2>4, <2>5, <2>6
<1>3. ASSUME NEW th \in Threads, CancelBeforeSlice(th) PROVE Places'
  BY <1>3 DEF CancelBeforeSlice
<1>4. ASSUME NEW th \in Threads, PassCancelCheck(th) PROVE Places'
  BY <1>4 DEF PassCancelCheck
<1>5. ASSUME NEW th \in Threads, BeginSlice(th) PROVE Places'
  BY <1>5 DEF BeginSlice
<1>6. ASSUME NEW th \in Threads, ResolvePromise(th) PROVE Places'
  BY <1>6 DEF ResolvePromise
<1>7. ASSUME NEW th \in Threads, LeaveThread(th) PROVE Places'
  BY <1>7 DEF LeaveThread
<1>8. ASSUME NEW th \in Threads, FutureGet(th) PROVE Places'
  BY <1>8 DEF FutureGet
<1>9. ASSUME NEW th \in Threads, FutureGetNested(th) PROVE Places'
  BY <1>9 DEF FutureGetNested
<1>10. ASSUME NEW th \in Threads, JoinOverflow(th) PROVE Places'
  BY <1>10 DEF JoinOverflow
<1>11. ASSUME NEW th \in Threads, CheckpointCancel(th) PROVE Places'
  BY <1>11 DEF CheckpointCancel
<1>12. ASSUME NEW th \in Threads, CheckpointSpend(th) PROVE Places'
  BY <1>12 DEF CheckpointSpend
<1>13. ASSUME NEW th \in Threads, BodyThrows(th) PROVE Places'
  BY <1>13 DEF BodyThrows
<1>14. ASSUME NEW th \in Threads, FinishTask(th) PROVE Places'
  BY <1>14 DEF FinishTask, MustYield
<1>15. ASSUME NEW th \in Threads, NEW t \in Tasks, SubmitQueued(th, t) PROVE Places'
  BY <1>15 DEF SubmitQueued
<1>16. ASSUME NEW th \in Threads, NEW t \in Tasks, ClaimJoin(th, t) PROVE Places'
  BY <1>16 DEF ClaimJoin
<1>17. ASSUME NEW th \in Threads, NEW t \in Tasks, TaskCancel(th, t) PROVE Places'
  BY <1>17 DEF TaskCancel
<1>18. ASSUME NEW w \in Workers, WaitForWork(w) PROVE Places'
  BY <1>18 DEF WaitForWork
<1>19. ASSUME NEW w \in Workers, PopTask(w) PROVE Places'
  <2>1. Head(queue) \in Tasks
    BY <1>19, TailElements DEF PopTask, OneHolder
  <2>2. QED
    BY <1>19, <2>1 DEF PopTask
<1>20. ASSUME NEW w \in Workers, ExitLoop(w) PROVE Places'
  BY <1>20 DEF ExitLoop
<1>21. ASSUME NEW w \in Workers, YieldToQueue(w) PROVE Places'
  BY <1>21 DEF YieldToQueue, MustYield
<1>22. ASSUME NEW w \in Workers, SpuriousWakeup(w) PROVE Places'
  BY <1>22 DEF SpuriousWakeup
<1>23. ASSUME NEW w \in Workers, OverflowStartFails(w) PROVE Places'
  BY <1>23 DEF OverflowStartFails
<1>24. ASSUME NEW w \in Workers, NEW t \in Tasks, SubmitOverflow(w, t) PROVE Places'
  <2>1. pc[t] = "none" /\ t # w
    BY <1>24 DEF SubmitOverflow, StatusFits
  <2>2. QED
    BY <1>24, <2>1 DEF SubmitOverflow
<1>25. ASSUME NEW t \in Tasks, YieldInPlace(t) PROVE Places'
  BY <1>25 DEF YieldInPlace, MustYield
<1>26. ASSUME SetStop PROVE Places'
  BY <1>26 DEF SetStop
<1>27. ASSUME NotifyAll PROVE Places'
  BY <1>27 DEF NotifyAll
<1>28. ASSUME JoinWorkers PROVE Places'
  BY <1>28 DEF JoinWorkers
<1>29. ASSUME UNCHANGED vars PROVE Places'
  BY <1>29 DEF vars
<1>30. QED
  BY <1>1, <1>2, <1>3, <1>4, <1>5, <1>6, <1>7, <1>8, <1>9, <1>10, <1>11, <1>12, <1>13, <1>14, <1>15, <1>16, <1>17, <1>18, <1>19, <1>20, <1>21, <1>22, <1>23, <1>24, <1>25, <1>26, <1>27, <1>28, <1>29 DEF Next, SystemStep, WorkerStep, ProgramStep, Destructor

\* Every step keeps each open task in exactly one place.
LEMMA OneHolderStep == IInv /\ [Next]_vars => OneHolder'
<1> SUFFICES ASSUME IInv, [Next]_vars PROVE OneHolder'  OBVIOUS
<1> USE DistinctAssumption, BudgetAssumption DEF IInv, Goto, Threads, threadVars, poolVars, handleVars, sliceVars, TypeOK, Places, OneHolder, StatusFits, HolderFits, Holding, InBody, Final, Pending, Queued
<1>1. ASSUME NEW th \in Threads, NEW w \in Workers, NotifyOne(th, w) PROVE OneHolder'
  BY <1>1 DEF NotifyOne, AfterNotify
<1>2. ASSUME NEW th \in Threads, NotifyUnheard(th) PROVE OneHolder'
  BY <1>2 DEF NotifyUnheard, AfterNotify
<1>3. ASSUME NEW th \in Threads, CancelBeforeSlice(th) PROVE OneHolder'
  <2>1. cur[th] \in Tasks /\ status[cur[th]] # "none"
    BY <1>3 DEF CancelBeforeSlice
  <2>2. \A u \in Tasks : Pending(u)' <=> Pending(u)
    BY <1>3, <2>1 DEF CancelBeforeSlice
  <2>3. QED
    BY <1>3, <2>2, SamePlaces DEF CancelBeforeSlice
<1>4. ASSUME NEW th \in Threads, PassCancelCheck(th) PROVE OneHolder'
  BY <1>4 DEF PassCancelCheck
<1>5. ASSUME NEW th \in Threads, BeginSlice(th) PROVE OneHolder'
  <2>1. cur[th] \in Tasks /\ status[cur[th]] # "none"
    BY <1>5 DEF BeginSlice
  <2>2. \A u \in Tasks : Pending(u)' <=> Pending(u)
    BY <1>5, <2>1 DEF BeginSlice
  <2>3. QED
    BY <1>5, <2>2, SamePlaces DEF BeginSlice
<1>6. ASSUME NEW th \in Threads, ResolvePromise(th) PROVE OneHolder'
  <2>0. PICK t \in Tasks : cur[th] = t
    BY <1>6 DEF ResolvePromise
  <2>1. t \in Tasks /\ OutcomeOf[status[t]] # "none" /\ t \notin Queued
    BY <1>6, <2>0 DEF ResolvePromise, OutcomeOf
  <2>2. \A u \in Tasks : Pending(u)' <=> Pending(u) /\ u # t
    BY <1>6, <2>0, <2>1 DEF ResolvePromise
  <2>3. queue' = queue /\ Queued' = Queued /\ NoTask \notin Queued
    BY <1>6, <2>0, QueuedTasks DEF ResolvePromise
  <2>4. cur' = [cur EXCEPT ![th] = NoTask] /\ NoRepeats(queue)
    BY <1>6, <2>0 DEF ResolvePromise
  <2>5. /\ \A u \in Tasks \ {t} : Pending(u)' <=> Pending(u)
        /\ Pending(t)' <=> t \in Queued'
    BY <2>1, <2>2, <2>3
  <2>6. TypeOK /\ OneHolder
    OBVIOUS
  <2> HIDE DEF TypeOK, OneHolder, Pending, Queued, Threads
  <2>7. Queued' \ {t} = Queued \ {t} /\ NoTask \notin Queued' /\ NoRepeats(queue')
    BY <2>3, <2>4
  <2>8. QED
    BY <2>0, <2>1, <2>4, <2>5, <2>6, <2>7, PutDown
<1>7. ASSUME NEW th \in Threads, LeaveThread(th) PROVE OneHolder'
  BY <1>7 DEF LeaveThread
<1>8. ASSUME NEW th \in Threads, FutureGet(th) PROVE OneHolder'
  BY <1>8 DEF FutureGet
<1>9. ASSUME NEW th \in Threads, FutureGetNested(th) PROVE OneHolder'
  BY <1>9 DEF FutureGetNested
<1>10. ASSUME NEW th \in Threads, JoinOverflow(th) PROVE OneHolder'
  BY <1>10 DEF JoinOverflow
<1>11. ASSUME NEW th \in Threads, CheckpointCancel(th) PROVE OneHolder'
  <2>1. cur[th] \in Tasks /\ status[cur[th]] # "none"
    BY <1>11 DEF CheckpointCancel
  <2>2. \A u \in Tasks : Pending(u)' <=> Pending(u)
    BY <1>11, <2>1 DEF CheckpointCancel
  <2>3. QED
    BY <1>11, <2>2, SamePlaces DEF CheckpointCancel
<1>12. ASSUME NEW th \in Threads, CheckpointSpend(th) PROVE OneHolder'
  BY <1>12 DEF CheckpointSpend
<1>13. ASSUME NEW th \in Threads, BodyThrows(th) PROVE OneHolder'
  <2>1. cur[th] \in Tasks /\ status[cur[th]] # "none"
    BY <1>13 DEF BodyThrows
  <2>2. \A u \in Tasks : Pending(u)' <=> Pending(u)
    BY <1>13, <2>1 DEF BodyThrows
  <2>3. QED
    BY <1>13, <2>2, SamePlaces DEF BodyThrows
<1>14. ASSUME NEW th \in Threads, FinishTask(th) PROVE OneHolder'
  <2>1. cur[th] \in Tasks /\ status[cur[th]] # "none"
    BY <1>14 DEF FinishTask, MustYield
  <2>2. \A u \in Tasks : Pending(u)' <=> Pending(u)
    BY <1>14, <2>1 DEF FinishTask, MustYield
  <2>3. QED
    BY <1>14, <2>2, SamePlaces DEF FinishTask, MustYield
<1>15. ASSUME NEW th \in Threads, NEW t \in Tasks, SubmitQueued(th, t) PROVE OneHolder'
  <2>1. t \notin Queued /\ \A u \in Threads : cur[u] # t
    BY <1>15 DEF SubmitQueued
  <2>2. /\ Queued' = Queued \union {t}
        /\ NoRepeats(queue')
    BY <1>15, <2>1, AppendElements DEF SubmitQueued
  <2>3. \A u \in Tasks : Pending(u)' <=> Pending(u) \/ u = t
    BY <1>15 DEF SubmitQueued
  <2>4. cur' = cur /\ OneHolder
    BY <1>15 DEF SubmitQueued
  <2> HIDE DEF OneHolder, Pending, Queued
  <2>5. QED
    BY <2>1, <2>2, <2>3, <2>4 DEF OneHolder
<1>16. ASSUME NEW th \in Threads, NEW t \in Tasks, ClaimJoin(th, t) PROVE OneHolder'
  <2>1. \A u \in Tasks : Pending(u)' <=> Pending(u)
    BY <1>16 DEF ClaimJoin
  <2>2. QED
    BY <1>16, <2>1, SamePlaces DEF ClaimJoin
<1>17. ASSUME NEW th \in Threads, NEW t \in Tasks, TaskCancel(th, t) PROVE OneHolder'
  BY <1>17 DEF TaskCancel
<1>18. ASSUME NEW w \in Workers, WaitForWork(w) PROVE OneHolder'
  BY <1>18 DEF WaitForWork
<1>19. ASSUME NEW w \in Workers, PopTask(w) PROVE OneHolder'
  <2>0. PICK t \in Tasks : t = Head(queue)
    BY <1>19, TailElements DEF PopTask
  <2>1. /\ t \in Tasks
        /\ Queued = Queued' \union {t}
        /\ t \notin Queued'
        /\ NoRepeats(queue')
    BY <1>19, <2>0, TailElements DEF PopTask
  <2>2. cur[w] = NoTask /\ (\A u \in Threads : cur[u] # t) /\ NoTask \notin Queued'
    BY <1>19, <2>0, <2>1, QueuedTasks DEF PopTask
  <2>3. \A u \in Tasks : Pending(u)' <=> Pending(u) \/ u = t
    BY <1>19, <2>0, <2>1 DEF PopTask
  <2>4. cur' = [cur EXCEPT ![w] = t] /\ w \in Threads
    BY <1>19, <2>0 DEF PopTask
  <2>5. TypeOK /\ OneHolder
    OBVIOUS
  <2> HIDE DEF TypeOK, OneHolder, Pending, Queued, Threads
  <2>6. Queued' \union {t} = Queued \union {t}
    BY <2>1
  <2>7. QED
    BY <2>1, <2>2, <2>3, <2>4, <2>5, <2>6, TakeUp
<1>20. ASSUME NEW w \in Workers, ExitLoop(w) PROVE OneHolder'
  BY <1>20 DEF ExitLoop
<1>21. ASSUME NEW w \in Workers, YieldToQueue(w) PROVE OneHolder'
  <2>0. PICK t \in Tasks : cur[w] = t
    BY <1>21 DEF YieldToQueue, MustYield
  <2>1. t \in Tasks /\ status[t] # "none" /\ t \notin Queued /\ promise[t] = "none"
    BY <1>21, <2>0 DEF YieldToQueue, MustYield
  <2>2. Queued' = Queued \union {t} /\ NoRepeats(queue')
    BY <1>21, <2>0, <2>1, AppendElements DEF YieldToQueue
  <2>3. \A u \in Tasks : Pending(u)' <=> Pending(u)
    BY <1>21, <2>0, <2>1 DEF YieldToQueue
  <2>4. cur' = [cur EXCEPT ![w] = NoTask] /\ w \in Threads /\ NoTask \notin Queued'
    BY <1>21, <2>0, <2>1, <2>2, QueuedTasks DEF YieldToQueue
  <2>5. /\ \A u \in Tasks \ {t} : Pending(u)' <=> Pending(u)
        /\ Pending(t)' <=> t \in Queued'
    BY <2>1, <2>2, <2>3
  <2>6. TypeOK /\ OneHolder
    OBVIOUS
  <2> HIDE DEF TypeOK, OneHolder, Pending, Queued, Threads
  <2>7. Queued' \ {t} = Queued \ {t}
    BY <2>2
  <2>8. QED
    BY <2>0, <2>1, <2>2, <2>4, <2>5, <2>6, <2>7, PutDown
<1>22. ASSUME NEW w \in Workers, SpuriousWakeup(w) PROVE OneHolder'
  BY <1>22 DEF SpuriousWakeup
<1>23. ASSUME NEW w \in Workers, OverflowStartFails(w) PROVE OneHolder'
  <2>1. cur[w] \in Tasks /\ status[cur[w]] # "none"
    BY <1>23 DEF OverflowStartFails
  <2>2. \A u \in Tasks : Pending(u)' <=> Pending(u)
    BY <1>23, <2>1 DEF OverflowStartFails
  <2>3. QED
    BY <1>23, <2>2, SamePlaces DEF OverflowStartFails
<1>24. ASSUME NEW w \in Workers, NEW t \in Tasks, SubmitOverflow(w, t) PROVE OneHolder'
  <2>1. t \notin Queued /\ (\A u \in Threads : cur[u] # t) /\ cur[t] = NoTask
    BY <1>24 DEF SubmitOverflow
  <2>2. \A u \in Tasks : Pending(u)' <=> Pending(u) \/ u = t
    BY <1>24 DEF SubmitOverflow
  <2>3. queue' = queue /\ Queued' = Queued /\ NoTask \notin Queued
    BY <1>24, QueuedTasks DEF SubmitOverflow
  <2>4. cur' = [cur EXCEPT ![t] = t] /\ t \in Threads /\ NoRepeats(queue)
    BY <1>24 DEF SubmitOverflow
  <2>5. TypeOK /\ OneHolder
    OBVIOUS
  <2> HIDE DEF TypeOK, OneHolder, Pending, Queued, Threads
  <2>6. QED
    BY <2>1, <2>2, <2>3, <2>4, <2>5, TakeUp
<1>25. ASSUME NEW t \in Tasks, YieldInPlace(t) PROVE OneHolder'
  <2>1. cur[t] = t /\ status[t] # "none"
    BY <1>25 DEF YieldInPlace, MustYield
  <2>2. \A u \in Tasks : Pending(u)' <=> Pending(u)
    BY <1>25, <2>1 DEF YieldInPlace, MustYield
  <2>3. QED
    BY <1>25, <2>2, SamePlaces DEF YieldInPlace, MustYield
<1>26. ASSUME SetStop PROVE OneHolder'
  BY <1>26 DEF SetStop
<1>27. ASSUME NotifyAll PROVE OneHolder'
  BY <1>27 DEF NotifyAll
<1>28. ASSUME JoinWorkers PROVE OneHolder'
  BY <1>28 DEF JoinWorkers
<1>29. ASSUME UNCHANGED vars PROVE OneHolder'
  BY <1>29 DEF vars
<1>30. QED
  BY <1>1, <1>2, <1>3, <1>4, <1>5, <1>6, <1>7, <1>8, <1>9, <1>10, <1>11, <1>12, <1>13, <1>14, <1>15, <1>16, <1>17, <1>18, <1>19, <1>20, <1>21, <1>22, <1>23, <1>24, <1>25, <1>26, <1>27, <1>28, <1>29 DEF Next, SystemStep, WorkerStep, ProgramStep, Destructor

\* Every step keeps a task's status in line with its promise and slices.
LEMMA StatusFitsStep == IInv /\ [Next]_vars => StatusFits'
<1> SUFFICES ASSUME IInv, [Next]_vars PROVE StatusFits'  OBVIOUS
<1> USE DistinctAssumption, BudgetAssumption DEF IInv, Goto, Threads, threadVars, poolVars, handleVars, sliceVars, TypeOK, Places, OneHolder, StatusFits, HolderFits, Holding, InBody, Final, Pending, Queued
<1>1. ASSUME NEW th \in Threads, NEW w \in Workers, NotifyOne(th, w) PROVE StatusFits'
  BY <1>1 DEF NotifyOne, AfterNotify
<1>2. ASSUME NEW th \in Threads, NotifyUnheard(th) PROVE StatusFits'
  BY <1>2 DEF NotifyUnheard, AfterNotify
<1>3. ASSUME NEW th \in Threads, CancelBeforeSlice(th) PROVE StatusFits'
  BY <1>3 DEF CancelBeforeSlice
<1>4. ASSUME NEW th \in Threads, PassCancelCheck(th) PROVE StatusFits'
  BY <1>4 DEF PassCancelCheck
<1>5. ASSUME NEW th \in Threads, BeginSlice(th) PROVE StatusFits'
  BY <1>5 DEF BeginSlice
<1>6. ASSUME NEW th \in Threads, ResolvePromise(th) PROVE StatusFits'
  BY <1>6 DEF ResolvePromise
<1>7. ASSUME NEW th \in Threads, LeaveThread(th) PROVE StatusFits'
  BY <1>7 DEF LeaveThread
<1>8. ASSUME NEW th \in Threads, FutureGet(th) PROVE StatusFits'
  BY <1>8 DEF FutureGet
<1>9. ASSUME NEW th \in Threads, FutureGetNested(th) PROVE StatusFits'
  BY <1>9 DEF FutureGetNested
<1>10. ASSUME NEW th \in Threads, JoinOverflow(th) PROVE StatusFits'
  BY <1>10 DEF JoinOverflow
<1>11. ASSUME NEW th \in Threads, CheckpointCancel(th) PROVE StatusFits'
  BY <1>11 DEF CheckpointCancel
<1>12. ASSUME NEW th \in Threads, CheckpointSpend(th) PROVE StatusFits'
  BY <1>12 DEF CheckpointSpend
<1>13. ASSUME NEW th \in Threads, BodyThrows(th) PROVE StatusFits'
  BY <1>13 DEF BodyThrows
<1>14. ASSUME NEW th \in Threads, FinishTask(th) PROVE StatusFits'
  BY <1>14 DEF FinishTask, MustYield
<1>15. ASSUME NEW th \in Threads, NEW t \in Tasks, SubmitQueued(th, t) PROVE StatusFits'
  <2>1. Elements(queue') = Elements(queue) \union {t}
    BY <1>15, AppendElements DEF SubmitQueued
  <2>2. QED
    BY <1>15, <2>1 DEF SubmitQueued
<1>16. ASSUME NEW th \in Threads, NEW t \in Tasks, ClaimJoin(th, t) PROVE StatusFits'
  BY <1>16 DEF ClaimJoin
<1>17. ASSUME NEW th \in Threads, NEW t \in Tasks, TaskCancel(th, t) PROVE StatusFits'
  BY <1>17 DEF TaskCancel
<1>18. ASSUME NEW w \in Workers, WaitForWork(w) PROVE StatusFits'
  BY <1>18 DEF WaitForWork
<1>19. ASSUME NEW w \in Workers, PopTask(w) PROVE StatusFits'
  <2>1. Elements(queue') \subseteq Elements(queue)
    BY <1>19, TailElements DEF PopTask
  <2>2. QED
    BY <1>19, <2>1 DEF PopTask
<1>20. ASSUME NEW w \in Workers, ExitLoop(w) PROVE StatusFits'
  BY <1>20 DEF ExitLoop
<1>21. ASSUME NEW w \in Workers, YieldToQueue(w) PROVE StatusFits'
  <2>1. cur[w] \in Tasks /\ status[cur[w]] = "running" /\ runSlices[cur[w]] = 1
    BY <1>21 DEF YieldToQueue, MustYield
  <2>2. Elements(queue') = Elements(queue) \union {cur[w]}
    BY <1>21, <2>1, AppendElements DEF YieldToQueue
  <2>3. promise[cur[w]] = "none"
    BY <2>1
  <2>4. QED
    BY <1>21, <2>1, <2>2, <2>3 DEF YieldToQueue
<1>22. ASSUME NEW w \in Workers, SpuriousWakeup(w) PROVE StatusFits'
  BY <1>22 DEF SpuriousWakeup
<1>23. ASSUME NEW w \in Workers, OverflowStartFails(w) PROVE StatusFits'
  BY <1>23 DEF OverflowStartFails
<1>24. ASSUME NEW w \in Workers, NEW t \in Tasks, SubmitOverflow(w, t) PROVE StatusFits'
  BY <1>24 DEF SubmitOverflow
<1>25. ASSUME NEW t \in Tasks, YieldInPlace(t) PROVE StatusFits'
  <2>1. cur[t] = t /\ status[t] = "running" /\ runSlices[t] = 1
    BY <1>25 DEF YieldInPlace, MustYield
  <2>2. promise[t] = "none"
    BY <2>1
  <2>3. QED
    BY <1>25, <2>1, <2>2 DEF YieldInPlace
<1>26. ASSUME SetStop PROVE StatusFits'
  BY <1>26 DEF SetStop
<1>27. ASSUME NotifyAll PROVE StatusFits'
  BY <1>27 DEF NotifyAll
<1>28. ASSUME JoinWorkers PROVE StatusFits'
  BY <1>28 DEF JoinWorkers
<1>29. ASSUME UNCHANGED vars PROVE StatusFits'
  BY <1>29 DEF vars
<1>30. QED
  BY <1>1, <1>2, <1>3, <1>4, <1>5, <1>6, <1>7, <1>8, <1>9, <1>10, <1>11, <1>12, <1>13, <1>14, <1>15, <1>16, <1>17, <1>18, <1>19, <1>20, <1>21, <1>22, <1>23, <1>24, <1>25, <1>26, <1>27, <1>28, <1>29 DEF Next, SystemStep, WorkerStep, ProgramStep, Destructor

\* Every step keeps a holder's location in line with its task's status.
LEMMA HolderFitsStep == IInv /\ [Next]_vars => HolderFits'
<1> SUFFICES ASSUME IInv, [Next]_vars PROVE HolderFits'  OBVIOUS
<1> USE DistinctAssumption, BudgetAssumption DEF IInv, Goto, Threads, threadVars, poolVars, handleVars, sliceVars, TypeOK, Places, OneHolder, StatusFits, HolderFits, Holding, InBody, Final, Pending, Queued
<1>1. ASSUME NEW th \in Threads, NEW w \in Workers, NotifyOne(th, w) PROVE HolderFits'
  BY <1>1 DEF NotifyOne, AfterNotify
<1>2. ASSUME NEW th \in Threads, NotifyUnheard(th) PROVE HolderFits'
  BY <1>2 DEF NotifyUnheard, AfterNotify
<1>3. ASSUME NEW th \in Threads, CancelBeforeSlice(th) PROVE HolderFits'
  BY <1>3 DEF CancelBeforeSlice
<1>4. ASSUME NEW th \in Threads, PassCancelCheck(th) PROVE HolderFits'
  BY <1>4 DEF PassCancelCheck
<1>5. ASSUME NEW th \in Threads, BeginSlice(th) PROVE HolderFits'
  BY <1>5 DEF BeginSlice
<1>6. ASSUME NEW th \in Threads, ResolvePromise(th) PROVE HolderFits'
  BY <1>6 DEF ResolvePromise
<1>7. ASSUME NEW th \in Threads, LeaveThread(th) PROVE HolderFits'
  BY <1>7 DEF LeaveThread
<1>8. ASSUME NEW th \in Threads, FutureGet(th) PROVE HolderFits'
  BY <1>8 DEF FutureGet
<1>9. ASSUME NEW th \in Threads, FutureGetNested(th) PROVE HolderFits'
  BY <1>9 DEF FutureGetNested
<1>10. ASSUME NEW th \in Threads, JoinOverflow(th) PROVE HolderFits'
  BY <1>10 DEF JoinOverflow
<1>11. ASSUME NEW th \in Threads, CheckpointCancel(th) PROVE HolderFits'
  BY <1>11 DEF CheckpointCancel
<1>12. ASSUME NEW th \in Threads, CheckpointSpend(th) PROVE HolderFits'
  BY <1>12 DEF CheckpointSpend
<1>13. ASSUME NEW th \in Threads, BodyThrows(th) PROVE HolderFits'
  BY <1>13 DEF BodyThrows
<1>14. ASSUME NEW th \in Threads, FinishTask(th) PROVE HolderFits'
  BY <1>14 DEF FinishTask, MustYield
<1>15. ASSUME NEW th \in Threads, NEW t \in Tasks, SubmitQueued(th, t) PROVE HolderFits'
  BY <1>15 DEF SubmitQueued
<1>16. ASSUME NEW th \in Threads, NEW t \in Tasks, ClaimJoin(th, t) PROVE HolderFits'
  BY <1>16 DEF ClaimJoin
<1>17. ASSUME NEW th \in Threads, NEW t \in Tasks, TaskCancel(th, t) PROVE HolderFits'
  BY <1>17 DEF TaskCancel
<1>18. ASSUME NEW w \in Workers, WaitForWork(w) PROVE HolderFits'
  BY <1>18 DEF WaitForWork
<1>19. ASSUME NEW w \in Workers, PopTask(w) PROVE HolderFits'
  <2>1. Head(queue) \in Tasks /\ Head(queue) \in Elements(queue)
    BY <1>19, TailElements DEF PopTask
  <2>2. status[Head(queue)] \in {"ready", "yielded"}
    BY <2>1
  <2>3. QED
    BY <1>19, <2>1, <2>2 DEF PopTask
<1>20. ASSUME NEW w \in Workers, ExitLoop(w) PROVE HolderFits'
  BY <1>20 DEF ExitLoop
<1>21. ASSUME NEW w \in Workers, YieldToQueue(w) PROVE HolderFits'
  BY <1>21 DEF YieldToQueue, MustYield
<1>22. ASSUME NEW w \in Workers, SpuriousWakeup(w) PROVE HolderFits'
  BY <1>22 DEF SpuriousWakeup
<1>23. ASSUME NEW w \in Workers, OverflowStartFails(w) PROVE HolderFits'
  BY <1>23 DEF OverflowStartFails
<1>24. ASSUME NEW w \in Workers, NEW t \in Tasks, SubmitOverflow(w, t) PROVE HolderFits'
  BY <1>24 DEF SubmitOverflow
<1>25. ASSUME NEW t \in Tasks, YieldInPlace(t) PROVE HolderFits'
  BY <1>25 DEF YieldInPlace, MustYield
<1>26. ASSUME SetStop PROVE HolderFits'
  BY <1>26 DEF SetStop
<1>27. ASSUME NotifyAll PROVE HolderFits'
  BY <1>27 DEF NotifyAll
<1>28. ASSUME JoinWorkers PROVE HolderFits'
  BY <1>28 DEF JoinWorkers
<1>29. ASSUME UNCHANGED vars PROVE HolderFits'
  BY <1>29 DEF vars
<1>30. QED
  BY <1>1, <1>2, <1>3, <1>4, <1>5, <1>6, <1>7, <1>8, <1>9, <1>10, <1>11, <1>12, <1>13, <1>14, <1>15, <1>16, <1>17, <1>18, <1>19, <1>20, <1>21, <1>22, <1>23, <1>24, <1>25, <1>26, <1>27, <1>28, <1>29 DEF Next, SystemStep, WorkerStep, ProgramStep, Destructor

\* Every step keeps the joiners' claims and the pthreads in line.
LEMMA JoinFitsStep == IInv /\ [Next]_vars => JoinFits'
<1> SUFFICES ASSUME IInv, [Next]_vars PROVE JoinFits'  OBVIOUS
<1> USE DistinctAssumption, BudgetAssumption DEF IInv, Goto, Threads, threadVars, poolVars, handleVars, sliceVars, TypeOK, Places, OneHolder, StatusFits, HolderFits, JoinFits, Holding, Joining, InBody, Final, Pending, Queued
<1>1. ASSUME NEW th \in Threads, NEW w \in Workers, NotifyOne(th, w) PROVE JoinFits'
  BY <1>1 DEF NotifyOne, AfterNotify
<1>2. ASSUME NEW th \in Threads, NotifyUnheard(th) PROVE JoinFits'
  BY <1>2 DEF NotifyUnheard, AfterNotify
<1>3. ASSUME NEW th \in Threads, CancelBeforeSlice(th) PROVE JoinFits'
  BY <1>3 DEF CancelBeforeSlice
<1>4. ASSUME NEW th \in Threads, PassCancelCheck(th) PROVE JoinFits'
  BY <1>4 DEF PassCancelCheck
<1>5. ASSUME NEW th \in Threads, BeginSlice(th) PROVE JoinFits'
  BY <1>5 DEF BeginSlice
<1>6. ASSUME NEW th \in Threads, ResolvePromise(th) PROVE JoinFits'
  BY <1>6 DEF ResolvePromise
<1>7. ASSUME NEW th \in Threads, LeaveThread(th) PROVE JoinFits'
  BY <1>7 DEF LeaveThread
<1>8. ASSUME NEW th \in Threads, FutureGet(th) PROVE JoinFits'
  BY <1>8 DEF FutureGet
<1>9. ASSUME NEW th \in Threads, FutureGetNested(th) PROVE JoinFits'
  BY <1>9 DEF FutureGetNested
<1>10. ASSUME NEW th \in Threads, JoinOverflow(th) PROVE JoinFits'
  BY <1>10 DEF JoinOverflow
<1>11. ASSUME NEW th \in Threads, CheckpointCancel(th) PROVE JoinFits'
  BY <1>11 DEF CheckpointCancel
<1>12. ASSUME NEW th \in Threads, CheckpointSpend(th) PROVE JoinFits'
  BY <1>12 DEF CheckpointSpend
<1>13. ASSUME NEW th \in Threads, BodyThrows(th) PROVE JoinFits'
  BY <1>13 DEF BodyThrows
<1>14. ASSUME NEW th \in Threads, FinishTask(th) PROVE JoinFits'
  BY <1>14 DEF FinishTask, MustYield
<1>15. ASSUME NEW th \in Threads, NEW t \in Tasks, SubmitQueued(th, t) PROVE JoinFits'
  BY <1>15 DEF SubmitQueued
<1>16. ASSUME NEW th \in Threads, NEW t \in Tasks, ClaimJoin(th, t) PROVE JoinFits'
  BY <1>16 DEF ClaimJoin
<1>17. ASSUME NEW th \in Threads, NEW t \in Tasks, TaskCancel(th, t) PROVE JoinFits'
  BY <1>17 DEF TaskCancel
<1>18. ASSUME NEW w \in Workers, WaitForWork(w) PROVE JoinFits'
  BY <1>18 DEF WaitForWork
<1>19. ASSUME NEW w \in Workers, PopTask(w) PROVE JoinFits'
  BY <1>19 DEF PopTask
<1>20. ASSUME NEW w \in Workers, ExitLoop(w) PROVE JoinFits'
  BY <1>20 DEF ExitLoop
<1>21. ASSUME NEW w \in Workers, YieldToQueue(w) PROVE JoinFits'
  BY <1>21 DEF YieldToQueue, MustYield
<1>22. ASSUME NEW w \in Workers, SpuriousWakeup(w) PROVE JoinFits'
  BY <1>22 DEF SpuriousWakeup
<1>23. ASSUME NEW w \in Workers, OverflowStartFails(w) PROVE JoinFits'
  BY <1>23 DEF OverflowStartFails
<1>24. ASSUME NEW w \in Workers, NEW t \in Tasks, SubmitOverflow(w, t) PROVE JoinFits'
  BY <1>24 DEF SubmitOverflow
<1>25. ASSUME NEW t \in Tasks, YieldInPlace(t) PROVE JoinFits'
  BY <1>25 DEF YieldInPlace, MustYield
<1>26. ASSUME SetStop PROVE JoinFits'
  BY <1>26 DEF SetStop
<1>27. ASSUME NotifyAll PROVE JoinFits'
  BY <1>27 DEF NotifyAll
<1>28. ASSUME JoinWorkers PROVE JoinFits'
  BY <1>28 DEF JoinWorkers
<1>29. ASSUME UNCHANGED vars PROVE JoinFits'
  BY <1>29 DEF vars
<1>30. QED
  BY <1>1, <1>2, <1>3, <1>4, <1>5, <1>6, <1>7, <1>8, <1>9, <1>10, <1>11, <1>12, <1>13, <1>14, <1>15, <1>16, <1>17, <1>18, <1>19, <1>20, <1>21, <1>22, <1>23, <1>24, <1>25, <1>26, <1>27, <1>28, <1>29 DEF Next, SystemStep, WorkerStep, ProgramStep, Destructor

\* The pool starts in the inductive invariant: no task exists yet.
LEMMA InitIInv == Init => IInv
<1> SUFFICES ASSUME Init PROVE IInv  OBVIOUS
<1> USE DistinctAssumption, BudgetAssumption DEF Init, Threads
<1>1. TypeOK
  <2>1. pc \in [Threads -> Locations]
    BY DEF Locations
  <2>2. Budget \in 1..Budget
    OBVIOUS
  <2>3. queue \in Seq(Tasks)
    OBVIOUS
  <2>4. /\ cur \in [Threads -> Tasks \union {NoTask}]
        /\ target \in [Threads -> Tasks \union {NoTask}]
        /\ taker \in [Tasks -> Threads \union {NoThread}]
    OBVIOUS
  <2>5. QED
    BY <2>1, <2>2, <2>3, <2>4 DEF TypeOK, Final
<1>2. Places
  BY DEF Places, Holding, Joining, InBody
<1>3. Queued = {} /\ NoRepeats(queue)
  BY DEF Queued, Elements, NoRepeats
<1>4. OneHolder
  BY <1>3 DEF OneHolder, Pending
<1>5. StatusFits
  BY <1>3 DEF StatusFits
<1>6. HolderFits
  BY DEF HolderFits
<1>7. JoinFits
  BY DEF JoinFits, Joining
<1>8. QED
  BY <1>1, <1>2, <1>4, <1>5, <1>6, <1>7 DEF IInv

\* The inductive invariant holds in every state the pool can reach.
LEMMA Invariance == Spec => []IInv
<1>1. IInv /\ [Next]_vars => IInv'
  BY TypeOKStep, PlacesStep, OneHolderStep, StatusFitsStep, HolderFitsStep, JoinFitsStep
     DEF IInv
<1>2. QED
  BY InitIInv, <1>1, PTL DEF Spec

\* The scheduler's variables keep their types; in particular a slice never
\* starts or continues with a spent budget.
THEOREM TypeCorrect == Spec => []TypeOK
<1>1. IInv => TypeOK
  BY DEF IInv
<1>2. QED
  BY Invariance, <1>1, PTL

\* No task is lost and none is held twice, for any number of workers, tasks
\* and nested spawns: what makes fulfilling its promise safe.
THEOREM OneHolderAlways == Spec => []OneHolder
<1>1. IInv => OneHolder
  BY DEF IInv
<1>2. QED
  BY Invariance, <1>1, PTL

\* The spawned call is executed in one slice only.
THEOREM BodyRunsOnceAlways == Spec => []BodyRunsOnce
<1>1. IInv => BodyRunsOnce
  BY DEF IInv, HolderFits, BodyRunsOnce, InBody
<1>2. QED
  BY Invariance, <1>1, PTL

\* Whoever sees the promise fulfilled sees the final status that goes with it.
THEOREM StatusBeforePromiseAlways == Spec => []StatusBeforePromise
<1>1. IInv => StatusBeforePromise
  BY DEF IInv, StatusFits, StatusBeforePromise
<1>2. QED
  BY Invariance, <1>1, PTL

\* Single-shot join: one waiter on each future, one pthread_join of each
\* overflow pthread.
THEOREM OneJoinerAlways == Spec => []OneJoiner
<1>1. IInv => OneJoiner
  BY DEF IInv, JoinFits, Joining, OneJoiner
<1>2. QED
  BY Invariance, <1>1, PTL

-----------------------------------------------------------------------------
(* The final status                                                         *)

\* A step that writes a status does so for a task whose status is not final.
LEMMA FinalStatusStep ==
    ASSUME IInv, [Next]_vars, NEW t \in Tasks, status[t] \in Final
    PROVE  status'[t] = status[t]
<1> USE DEF IInv, Places, HolderFits, Holding, InBody, Final, Threads, Goto
<1>1. CASE UNCHANGED vars
  BY <1>1 DEF vars, handleVars
<1>2. ASSUME NEW th \in Threads, NEW u \in Tasks,
             SubmitQueued(th, u) \/ SubmitOverflow(th, u)
      PROVE  status'[t] = status[t]
  BY <1>2 DEF SubmitQueued, SubmitOverflow, TypeOK
<1>3. ASSUME NEW th \in Threads,
             \/ CancelBeforeSlice(th) \/ BeginSlice(th) \/ CheckpointCancel(th)
             \/ BodyThrows(th) \/ FinishTask(th)
      PROVE  status'[t] = status[t]
  <2>1. pc[th] \in {"popped", "checked", "body", "resumed"} /\ cur[th] \in Tasks
    BY <1>3 DEF CancelBeforeSlice, BeginSlice, CheckpointCancel, BodyThrows, FinishTask, TypeOK
  <2>2. status[cur[th]] \notin Final
    BY <2>1, DistinctAssumption
  <2>3. QED
    BY <1>3, <2>2
       DEF CancelBeforeSlice, BeginSlice, CheckpointCancel, BodyThrows, FinishTask, TypeOK
<1>4. ASSUME NEW w \in Workers, YieldToQueue(w) \/ OverflowStartFails(w)
      PROVE  status'[t] = status[t]
  <2>1. status[cur[w]] \notin Final
    BY <1>4 DEF YieldToQueue, OverflowStartFails, MustYield
  <2>2. QED
    BY <1>4, <2>1 DEF YieldToQueue, OverflowStartFails, TypeOK
<1>5. ASSUME NEW u \in Tasks, YieldInPlace(u)
      PROVE  status'[t] = status[t]
  <2>1. status[u] \notin Final
    BY <1>5, DistinctAssumption DEF YieldInPlace, MustYield
  <2>2. QED
    BY <1>5, <2>1 DEF YieldInPlace, TypeOK
<1>6. ASSUME NEW th \in Threads,
             \/ \E w \in Workers : NotifyOne(th, w)
             \/ NotifyUnheard(th) \/ PassCancelCheck(th) \/ ResolvePromise(th)
             \/ LeaveThread(th) \/ FutureGet(th) \/ FutureGetNested(th) \/ JoinOverflow(th)
             \/ CheckpointSpend(th)
             \/ \E u \in Tasks : ClaimJoin(th, u) \/ TaskCancel(th, u)
             \/ WaitForWork(th) \/ PopTask(th) \/ ExitLoop(th) \/ SpuriousWakeup(th)
             \/ Destructor
      PROVE  status'[t] = status[t]
  BY <1>6 DEF NotifyOne, NotifyUnheard, PassCancelCheck, ResolvePromise, LeaveThread,
     FutureGet, FutureGetNested, JoinOverflow, CheckpointSpend, ClaimJoin, TaskCancel,
     WaitForWork, PopTask, ExitLoop, SpuriousWakeup, Destructor, SetStop, NotifyAll,
     JoinWorkers, handleVars
<1>7. Main \in Threads /\ Workers \subseteq Threads
  OBVIOUS
<1>8. CASE Next
  BY <1>2, <1>3, <1>4, <1>5, <1>6, <1>7, <1>8
     DEF Next, SystemStep, WorkerStep, ProgramStep
<1>9. QED
  BY <1>1, <1>8

\* What task_status has once shown as completed, failed or cancelled stays so.
THEOREM FinalStatusStaysAlways == Spec => FinalStatusStays
<1>1. IInv /\ [Next]_vars
        => [\A t \in Tasks : status[t] \in Final => status'[t] = status[t]]_vars
  BY FinalStatusStep
<1>2. QED
  BY Invariance, <1>1, PTL DEF Spec, FinalStatusStays

-----------------------------------------------------------------------------
(* Refinement of TaskContract                                               *)

\* Nothing is submitted at first, neither here nor in the contract.
LEMMA InitImplements == Init => Contract!ContractInit
  BY DEF Init, Contract!ContractInit, TaskPhase, Started, AskedToCancel

\* A step that none of the contract's variables depends on.
LEMMA SilentStep ==
    ASSUME \A t \in Tasks : status[t] = "none" <=> status'[t] = "none",
           promise' = promise, taker' = taker, target' = target,
           Started' = Started, cancelRequested' = cancelRequested
    PROVE  UNCHANGED Contract!contractVars
<1>1. TaskPhase' = TaskPhase
  BY DEF TaskPhase
<1>2. AskedToCancel' = AskedToCancel
  BY DEF AskedToCancel
<1>3. QED
  BY <1>1, <1>2 DEF Contract!contractVars

\* submitPreemptible, on either path, is the contract's Submit.
LEMMA SubmitImplements ==
    ASSUME IInv, NEW th \in Threads, NEW t \in Tasks,
           SubmitQueued(th, t) \/ SubmitOverflow(th, t)
    PROVE  Contract!Submit(t)
<1>1. /\ status[t] = "none"
      /\ status' = [status EXCEPT ![t] = "ready"]
      /\ UNCHANGED <<target, taker, promise, cancelRequested, runSlices>>
  BY DEF SubmitQueued, SubmitOverflow, handleVars, sliceVars
<1>2. promise[t] = "none"
  BY <1>1 DEF IInv, StatusFits
<1>3. TaskPhase' = [TaskPhase EXCEPT ![t] = "pending"]
  BY <1>1, <1>2 DEF TaskPhase, IInv, TypeOK
<1>4. TaskPhase[t] = "new"
  BY <1>1 DEF TaskPhase
<1>5. UNCHANGED <<Started, AskedToCancel, promise>>
  BY <1>1 DEF Started, AskedToCancel
<1>6. QED
  BY <1>3, <1>4, <1>5 DEF Contract!Submit

\* Every thread but the interpreter's holds an open task in these locations.
LEMMA HoldsTask ==
    ASSUME IInv, NEW th \in Threads, pc[th] \in Holding, th # Main
    PROVE  cur[th] \in Tasks /\ Pending(cur[th])
<1>1. cur[th] # NoTask
  <2>1. CASE th \in Workers
    BY <2>1 DEF IInv, Places
  <2>2. CASE th \in Tasks
    BY <2>2, DistinctAssumption DEF IInv, Places
  <2>3. QED
    BY <2>1, <2>2 DEF Threads
<1>2. cur[th] \in Tasks
  BY <1>1 DEF IInv, TypeOK
<1>3. QED
  BY <1>2 DEF IInv, OneHolder

\* A first slice is the contract's Start; a continuation changes nothing there.
LEMMA BeginSliceImplements ==
    ASSUME IInv, NEW th \in Threads, BeginSlice(th)
    PROVE  Contract!Start(cur[th]) \/ UNCHANGED Contract!contractVars
<1> USE DistinctAssumption
<1>1. PICK t \in Tasks : t = cur[th]
  BY HoldsTask DEF BeginSlice, IInv, Places, Holding, InBody
<1>2. /\ status[t] \in {"ready", "yielded"}
      /\ Pending(t)
  BY <1>1 DEF BeginSlice, IInv, HolderFits, OneHolder
<1>3. /\ status' = [status EXCEPT ![t] = "running"]
      /\ runSlices' = [runSlices EXCEPT ![t] = runSlices[t] + 1]
      /\ UNCHANGED <<target, taker, promise, cancelRequested>>
  BY <1>1 DEF BeginSlice
<1>4. runSlices[t] \in Nat /\ \A u \in Tasks : status[u] = "none" <=> status'[u] = "none"
  BY <1>2, <1>3 DEF IInv, TypeOK
<1>5. CASE status[t] = "ready"
  <2>1. runSlices[t] = 0
    BY <1>5 DEF IInv, StatusFits
  <2>2. Started' = Started \union {t} /\ t \notin Started
    BY <1>3, <1>4, <2>1 DEF Started, IInv, TypeOK
  <2>3. TaskPhase' = TaskPhase /\ TaskPhase[t] = "pending" /\ AskedToCancel' = AskedToCancel
    BY <1>2, <1>3, <1>4 DEF TaskPhase, AskedToCancel, Pending
  <2>4. QED
    BY <1>1, <1>3, <2>2, <2>3 DEF Contract!Start
<1>6. CASE status[t] = "yielded"
  <2>1. runSlices[t] > 0
    BY <1>6 DEF IInv, StatusFits
  <2>2. Started' = Started
    BY <1>3, <1>4, <2>1 DEF Started, IInv, TypeOK
  <2>3. QED
    BY <1>3, <1>4, <2>2, SilentStep
<1>7. QED
  BY <1>2, <1>5, <1>6

\* task_cancel is the contract's RequestCancel, and only marks the task.
LEMMA CancelImplements ==
    ASSUME IInv, NEW th \in Threads, NEW t \in Tasks, TaskCancel(th, t)
    PROVE  Contract!RequestCancel(t)
<1>1. /\ status[t] # "none"
      /\ cancelRequested' = [cancelRequested EXCEPT ![t] = TRUE]
      /\ UNCHANGED <<status, target, taker, promise, runSlices>>
  BY DEF TaskCancel, threadVars, sliceVars
<1>2. AskedToCancel' = AskedToCancel \union {t}
  BY <1>1 DEF AskedToCancel, IInv, TypeOK
<1>3. TaskPhase' = TaskPhase /\ TaskPhase[t] # "new" /\ Started' = Started
  BY <1>1 DEF TaskPhase, Started
<1>4. QED
  BY <1>1, <1>2, <1>3 DEF Contract!RequestCancel

\* finishTask and failTask are the contract's Resolve with a fitting outcome.
LEMMA ResolveImplements ==
    ASSUME IInv, NEW th \in Threads, ResolvePromise(th)
    PROVE  \E t \in Tasks, o \in Contract!Outcomes : Contract!Resolve(t, o)
<1> USE DistinctAssumption
<1>1. PICK t \in Tasks : t = cur[th]
  BY HoldsTask DEF ResolvePromise, IInv, Places, Holding, InBody
<1>2. /\ Pending(t)
      /\ status[t] \in Final
      /\ status[t] = "cancelled" => cancelRequested[t]
      /\ status[t] # "cancelled" => runSlices[t] > 0
  BY <1>1 DEF ResolvePromise, IInv, HolderFits, OneHolder
<1>3. PICK o \in Contract!Outcomes : o = OutcomeOf[status[t]]
  BY <1>2 DEF Final, OutcomeOf, Contract!Outcomes
<1>4. /\ promise' = [promise EXCEPT ![t] = o]
      /\ UNCHANGED <<status, target, taker, cancelRequested, runSlices>>
  BY <1>1, <1>3 DEF ResolvePromise, sliceVars
<1>5. o # "none" /\ (taker[t] = NoThread \/ target[taker[t]] = t)
  BY <1>2, <1>3 DEF Contract!Outcomes, Pending, IInv, JoinFits
<1>6. TaskPhase' = [TaskPhase EXCEPT ![t] = "resolved"] /\ TaskPhase[t] = "pending"
  <2>1. \A u \in Tasks : promise'[u] = IF u = t THEN o ELSE promise[u]
    BY <1>4 DEF IInv, TypeOK
  <2>2. \A u \in Tasks : TaskPhase'[u] = IF u = t THEN "resolved" ELSE TaskPhase[u]
    BY <1>2, <1>4, <1>5, <2>1 DEF TaskPhase, Pending
  <2>3. TaskPhase[t] = "pending"
    BY <1>2 DEF TaskPhase, Pending
  <2>4. QED
    BY <2>2, <2>3 DEF TaskPhase
<1>7. UNCHANGED <<Started, AskedToCancel>>
  BY <1>4 DEF Started, AskedToCancel
<1>8. /\ o \in {"value", "error"} => t \in Started
      /\ o = "cancelled" => t \in AskedToCancel
  BY <1>2, <1>3 DEF Final, OutcomeOf, Started, AskedToCancel
<1>9. QED
  BY <1>4, <1>6, <1>7, <1>8 DEF Contract!Resolve

\* The joiner stops waiting: the one moment its task's result changes hands.
LEMMA TakeImplements ==
    ASSUME IInv, NEW th \in Threads, FutureGet(th) \/ JoinOverflow(th)
    PROVE  \E t \in Tasks : Contract!Take(t)
<1> USE DistinctAssumption
<1>1. PICK t \in Tasks : t = target[th]
  BY DEF FutureGet, JoinOverflow, IInv, Places, Joining, TypeOK
<1>2. taker[t] = th /\ promise[t] # "none" /\ status[t] # "none"
  BY <1>1 DEF FutureGet, JoinOverflow, IInv, JoinFits, Joining, StatusFits, Final
<1>3. /\ target' = [target EXCEPT ![th] = NoTask]
      /\ UNCHANGED <<status, taker, promise, cancelRequested, runSlices>>
  BY DEF FutureGet, JoinOverflow, handleVars, sliceVars
<1>4. \A u \in Threads : target'[u] = IF u = th THEN NoTask ELSE target[u]
  BY <1>3 DEF IInv, TypeOK
<1>5. TaskPhase[t] = "resolved"
  BY <1>1, <1>2 DEF TaskPhase
<1>6. ASSUME NEW u \in Tasks
      PROVE  TaskPhase'[u] = IF u = t THEN "taken" ELSE TaskPhase[u]
  <2>1. taker[u] \in Threads \union {NoThread} /\ th # NoThread
    BY DEF IInv, TypeOK, Threads
  <2>2. CASE u = t
    BY <1>2, <1>3, <1>4, <2>2, <2>1 DEF TaskPhase
  <2>3. CASE u # t
    BY <1>1, <1>3, <1>4, <2>1, <2>3 DEF TaskPhase
  <2>4. QED
    BY <2>2, <2>3
<1>7. TaskPhase' = [TaskPhase EXCEPT ![t] = "taken"]
  BY <1>6 DEF TaskPhase
<1>8. UNCHANGED <<Started, AskedToCancel, promise>>
  BY <1>3 DEF Started, AskedToCancel
<1>9. QED
  BY <1>5, <1>7, <1>8 DEF Contract!Take

\* Claiming the join does not yet deliver anything.
LEMMA ClaimIsSilent ==
    ASSUME IInv, NEW th \in Threads, NEW t \in Tasks, ClaimJoin(th, t)
    PROVE  UNCHANGED Contract!contractVars
<1> USE DistinctAssumption
<1>1. /\ pc[th] = "body" /\ taker[t] = NoThread
      /\ taker' = [taker EXCEPT ![t] = th]
      /\ target' = [target EXCEPT ![th] = t]
      /\ UNCHANGED <<status, promise, cancelRequested, runSlices>>
  BY DEF ClaimJoin, sliceVars
<1>2. target[th] = NoTask
  BY <1>1 DEF IInv, Places, Joining
<1>3. /\ \A u \in Threads : target'[u] = IF u = th THEN t ELSE target[u]
      /\ \A u \in Tasks : taker'[u] = IF u = t THEN th ELSE taker[u]
  BY <1>1 DEF IInv, TypeOK
<1>4. ASSUME NEW u \in Tasks PROVE TaskPhase'[u] = TaskPhase[u]
  <2>1. taker[u] \in Threads \union {NoThread} /\ th # NoThread
    BY DEF IInv, TypeOK, Threads
  <2>2. CASE u = t
    BY <1>1, <1>3, <2>1, <2>2 DEF TaskPhase
  <2>3. CASE u # t
    BY <1>1, <1>2, <1>3, <2>1, <2>3 DEF TaskPhase
  <2>4. QED
    BY <2>2, <2>3
<1>5. TaskPhase' = TaskPhase
  BY <1>4 DEF TaskPhase
<1>6. UNCHANGED <<Started, AskedToCancel, promise>>
  BY <1>1 DEF Started, AskedToCancel
<1>7. QED
  BY <1>5, <1>6 DEF Contract!contractVars

\* The remaining steps move threads, the queue and the slices only.
LEMMA OtherStepsAreSilent ==
    ASSUME IInv, NEW th \in Threads,
           \/ \E w \in Workers : NotifyOne(th, w)
           \/ NotifyUnheard(th) \/ CancelBeforeSlice(th) \/ PassCancelCheck(th)
           \/ LeaveThread(th) \/ FutureGetNested(th)
           \/ CheckpointCancel(th) \/ CheckpointSpend(th) \/ BodyThrows(th) \/ FinishTask(th)
           \/ WaitForWork(th) \/ PopTask(th) \/ ExitLoop(th) \/ SpuriousWakeup(th)
           \/ th \in Workers /\ (YieldToQueue(th) \/ OverflowStartFails(th))
           \/ YieldInPlace(th)
           \/ Destructor
    PROVE  UNCHANGED Contract!contractVars
<1> USE DistinctAssumption
    DEF NotifyOne, NotifyUnheard, CancelBeforeSlice, PassCancelCheck, LeaveThread,
        FutureGetNested, CheckpointCancel, CheckpointSpend, BodyThrows, FinishTask,
        WaitForWork, PopTask, ExitLoop, SpuriousWakeup, YieldToQueue, OverflowStartFails,
        YieldInPlace, Destructor, SetStop, NotifyAll, JoinWorkers,
        threadVars, handleVars, sliceVars
<1>1. /\ UNCHANGED <<promise, taker, target, cancelRequested>>
      /\ runSlices' = runSlices
  OBVIOUS
<1>2. \/ status' = status
      \/ /\ pc[th] \in Holding
         /\ th # Main
         /\ \E s \in Final \union {"yielded"} : status' = [status EXCEPT ![cur[th]] = s]
  BY DEF Holding, Final, MustYield, IInv, Places, InBody
<1>3. pc[th] \in Holding /\ th # Main => status[cur[th]] # "none"
  BY HoldsTask DEF Pending
<1>4. \A t \in Tasks : status[t] = "none" <=> status'[t] = "none"
  BY <1>2, <1>3 DEF Final, IInv, TypeOK
<1>5. Started' = Started
  BY <1>1 DEF Started
<1>6. QED
  BY <1>1, <1>4, <1>5, SilentStep

\* A stuttering step of the pool stutters in the contract.
LEMMA StutterIsSilent == UNCHANGED vars => UNCHANGED Contract!contractVars
  BY DEF vars, threadVars, handleVars, sliceVars, Contract!contractVars, TaskPhase,
     Started, AskedToCancel

\* Threads, queue, lock, notifications, overflow pthreads, yields and teardown
\* implement the contract, for every number of tasks and workers.
THEOREM SchedulerImplementsContract == Spec => ImplementsContract
<1>1. ASSUME IInv, Next
      PROVE  Contract!ContractNext \/ UNCHANGED Contract!contractVars
  <2> USE <1>1
  <2>1. Main \in Threads /\ Workers \subseteq Threads /\ Tasks \subseteq Threads
    BY DEF Threads
  <2>2. ASSUME NEW th \in Threads, NEW t \in Tasks,
               SubmitQueued(th, t) \/ SubmitOverflow(th, t)
        PROVE  Contract!ContractNext
    BY <2>2, SubmitImplements DEF Contract!ContractNext
  <2>3. ASSUME NEW th \in Threads, BeginSlice(th)
        PROVE  Contract!ContractNext \/ UNCHANGED Contract!contractVars
    <3>1. cur[th] \in Tasks
      BY <2>3, HoldsTask DEF BeginSlice, IInv, Places, Holding, InBody
    <3>2. QED
      BY <2>3, <3>1, BeginSliceImplements DEF Contract!ContractNext
  <2>4. ASSUME NEW th \in Threads, NEW t \in Tasks, TaskCancel(th, t)
        PROVE  Contract!ContractNext
    BY <2>4, CancelImplements DEF Contract!ContractNext
  <2>5. ASSUME NEW th \in Threads, ResolvePromise(th)
        PROVE  Contract!ContractNext
    BY <2>5, ResolveImplements DEF Contract!ContractNext
  <2>6. ASSUME NEW th \in Threads, FutureGet(th) \/ JoinOverflow(th)
        PROVE  Contract!ContractNext
    BY <2>6, TakeImplements DEF Contract!ContractNext
  <2>7. QED
    BY <2>1, <2>2, <2>3, <2>4, <2>5, <2>6, ClaimIsSilent, OtherStepsAreSilent
       DEF Next, SystemStep, WorkerStep, ProgramStep
<1>2. IInv /\ [Next]_vars => [Contract!ContractNext]_Contract!contractVars
  BY <1>1, StutterIsSilent
<1>3. QED
  BY Invariance, InitImplements, <1>2, PTL
     DEF Spec, ImplementsContract, Contract!ContractSpec

-----------------------------------------------------------------------------
(* The condition variable and the destructor: counting those who are about  *)
(* to look at the queue shows that none of its tasks is forgotten.          *)

(* While somebody sleeps, each queued task has a notify or a worker coming. *)
RoomFits ==
    /\ IsFiniteSet(Notifying)
    /\ Sleeping # {} => Len(queue) <= Cardinality(Notifying) + Cardinality(Awake)

(* stop_ is set by the destructor only; nobody sleeps once it has told the  *)
(* workers, and the last of them leaves an empty queue.                     *)
StopFits ==
    /\ stop <=> pc[Main] \in {"stopping", "draining", "destroyed"}
    /\ pc[Main] \in {"draining", "destroyed"} => Sleeping = {}
    /\ (\E w \in Workers : pc[w] = "exited") => stop
    /\ pc[Main] = "destroyed" => \A w \in Workers : pc[w] = "exited"
    /\ (\A w \in Workers : pc[w] = "exited") /\ (\A t \in Tasks : pc[t] = "none")
           => queue = <<>>

WInv == IInv /\ RoomFits /\ StopFits

------------------------------------------------------------------------------
(* Counting threads.                                                        *)

\* One thread moves: how the three kinds of threads change.
LEMMA Moves ==
    ASSUME TypeOK, NEW th \in Threads, NEW l, pc' = [pc EXCEPT ![th] = l]
    PROVE  /\ pc'[th] = l
           /\ \A a \in Threads \ {th} : pc'[a] = pc[a]
           /\ Notifying' = IF l = "notify" THEN Notifying \union {th} ELSE Notifying \ {th}
           /\ Awake' = IF l = "top" /\ th \in Workers THEN Awake \union {th} ELSE Awake \ {th}
           /\ Sleeping' = IF l = "waiting" /\ th \in Workers
                          THEN Sleeping \union {th} ELSE Sleeping \ {th}
<1>1. pc'[th] = l /\ \A a \in Threads \ {th} : pc'[a] = pc[a]
  BY DEF TypeOK
<1>2. Workers \subseteq Threads
  BY DEF Threads
<1>3. QED
  BY <1>1, <1>2 DEF Notifying, Awake, Sleeping

\* Workers are finitely many, so those that look at the queue can be counted.
LEMMA AwakeFinite == IsFiniteSet(Awake) /\ Cardinality(Awake) \in Nat
<1>1. Awake \in SUBSET Workers
  BY DEF Awake
<1>2. IsFiniteSet(Awake)
  BY <1>1, WorkersAssumption, FS_Subset
<1>3. QED
  BY <1>2, FS_CardinalityType

\* More threads awake and no more tasks: the count still covers the queue.
LEMMA RoomKept ==
    ASSUME TypeOK, RoomFits, Notifying' = Notifying, Awake \subseteq Awake', IsFiniteSet(Awake'),
           Sleeping' \subseteq Sleeping, queue' = queue
    PROVE  RoomFits'
<1>1. Cardinality(Awake) <= Cardinality(Awake')
  BY FS_Subset
<1>2. /\ Cardinality(Notifying) \in Nat /\ Cardinality(Awake) \in Nat
      /\ Cardinality(Awake') \in Nat /\ Len(queue) \in Nat
  BY AwakeFinite, FS_CardinalityType DEF RoomFits, TypeOK
<1>3. QED
  BY <1>1, <1>2 DEF RoomFits

\* A task is queued by a thread that goes on to notify.
LEMMA RoomPushed ==
    ASSUME TypeOK, RoomFits, NEW th \in Threads, NEW t \in Tasks, pc[th] = "body",
           pc' = [pc EXCEPT ![th] = "notify"], queue' = Append(queue, t)
    PROVE  RoomFits'
<1>1. Notifying' = Notifying \union {th} /\ Awake' = Awake /\ Sleeping' = Sleeping
  BY Moves DEF Awake, Sleeping
<1>2. th \notin Notifying
  BY DEF Notifying
<1>3. IsFiniteSet(Notifying') /\ Cardinality(Notifying') = Cardinality(Notifying) + 1
  BY <1>1, <1>2, FS_AddElement DEF RoomFits
<1>4. Len(queue') = Len(queue) + 1 /\ Len(queue) \in Nat
  BY DEF TypeOK
<1>5. QED
  BY <1>1, <1>3, <1>4, AwakeFinite, FS_CardinalityType DEF RoomFits

\* A step between other places than the queue, the condition variable and the
\* destructor.
LEMMA QuietMove ==
    ASSUME WInv, NEW th \in Threads, NEW l \in Locations, pc' = [pc EXCEPT ![th] = l],
           pc[th] \notin {"notify", "top", "waiting"},
           l \notin {"notify", "waiting", "none"},
           th = Main => pc[th] \in InBody /\ l \in InBody,
           th \in Workers => l # "exited" /\ pc[th] # "exited",
           queue' = queue, stop' = stop
    PROVE  RoomFits' /\ StopFits'
<1> USE DEF WInv, IInv
<1>1. /\ pc'[th] = l
      /\ \A a \in Threads \ {th} : pc'[a] = pc[a]
      /\ Notifying' = Notifying /\ Awake \subseteq Awake' /\ Sleeping' = Sleeping
  <2>1. th \notin Notifying /\ th \notin Awake /\ th \notin Sleeping
    BY DEF Notifying, Awake, Sleeping
  <2>2. /\ pc'[th] = l
        /\ \A a \in Threads \ {th} : pc'[a] = pc[a]
        /\ Notifying' = Notifying \ {th}
        /\ Awake' = Awake \union {th} \/ Awake' = Awake \ {th}
        /\ Sleeping' = Sleeping \ {th}
    BY Moves
  <2>3. QED
    BY <2>1, <2>2
<1>2. Main \in Threads /\ Workers \subseteq Threads /\ Tasks \subseteq Threads
  BY DEF Threads
<1>3. IsFiniteSet(Awake')
  <2>1. Awake' \in SUBSET Workers
    BY DEF Awake
  <2>2. QED
    BY <2>1, WorkersAssumption, FS_Subset
<1>4. RoomFits'
  BY <1>1, <1>3, RoomKept
<1>5. stop' <=> pc'[Main] \in {"stopping", "draining", "destroyed"}
  BY <1>1, <1>2 DEF StopFits, InBody
<1>6. pc'[Main] \in {"draining", "destroyed"} => pc[Main] = pc'[Main] /\ Sleeping' = {}
  BY <1>1, <1>2 DEF StopFits, InBody
<1>7. \A w \in Workers : pc'[w] = "exited" <=> pc[w] = "exited"
  BY <1>1, <1>2
<1>8. (\A t \in Tasks : pc'[t] = "none") => \A t \in Tasks : pc[t] = "none"
  BY <1>1, <1>2
<1>9. QED
  BY <1>4, <1>5, <1>6, <1>7, <1>8 DEF StopFits

------------------------------------------------------------------------------
(* The steps that count.                                                    *)

LEMMA SubmitWInv ==
    ASSUME WInv, NEW th \in Threads, NEW t \in Tasks, SubmitQueued(th, t)
    PROVE  RoomFits' /\ StopFits'
<1> USE DEF WInv, IInv, SubmitQueued, Goto
<1>1. RoomFits'
  BY RoomPushed
<1>2. /\ pc'[th] = "notify" /\ Sleeping' = Sleeping
      /\ \A a \in Threads \ {th} : pc'[a] = pc[a]
  BY Moves DEF Sleeping
<1>3. Main \in Threads /\ Workers \subseteq Threads /\ Tasks \subseteq Threads
  BY DEF Threads
<1>4. CASE th = Main
  <2>1. ~stop /\ \E w \in Workers : pc'[w] # "exited"
    BY <1>2, <1>3, <1>4, WorkersAssumption, DistinctAssumption DEF StopFits
  <2>2. QED
    BY <1>1, <1>2, <1>3, <1>4, <2>1 DEF StopFits
<1>5. CASE th # Main
  <2>1. th \in Tasks
    BY <1>5 DEF Threads
  <2>2. QED
    BY <1>1, <1>2, <1>3, <1>5, <2>1 DEF StopFits
<1>6. QED
  BY <1>4, <1>5

LEMMA YieldWInv ==
    ASSUME WInv, NEW w \in Workers, YieldToQueue(w)
    PROVE  RoomFits' /\ StopFits'
<1> USE DEF WInv, IInv, YieldToQueue, Goto, MustYield
<1>1. w \in Threads /\ Main \in Threads /\ Workers \subseteq Threads /\ w # Main
  BY DistinctAssumption DEF Threads
<1>2. cur[w] \in Tasks
  BY <1>1, DistinctAssumption DEF Places, Holding, TypeOK
<1>3. RoomFits'
  BY <1>1, <1>2, RoomPushed
<1>4. /\ pc'[w] = "notify" /\ Sleeping' = Sleeping
      /\ \A a \in Threads \ {w} : pc'[a] = pc[a]
  BY <1>1, Moves DEF Sleeping
<1>5. QED
  BY <1>1, <1>3, <1>4 DEF StopFits

LEMMA NotifyOneWInv ==
    ASSUME WInv, NEW th \in Threads, NEW w \in Workers, NotifyOne(th, w)
    PROVE  RoomFits' /\ StopFits'
<1> USE DEF WInv, IInv, NotifyOne
<1>1. th # w /\ w \in Threads /\ Main \in Threads /\ Workers \subseteq Threads /\ Main \notin Workers
  BY DistinctAssumption DEF Threads
<1>2. /\ pc'[th] = AfterNotify(th) /\ pc'[w] = "top"
      /\ \A a \in Threads \ {th, w} : pc'[a] = pc[a]
  BY <1>1 DEF TypeOK
<1>3. Notifying' = Notifying \ {th}
  <2>1. pc'[th] # "notify" /\ pc'[w] # "notify" /\ pc[w] # "notify"
    BY <1>2 DEF AfterNotify
  <2>2. \A a \in Threads \ {th} : pc'[a] = "notify" <=> pc[a] = "notify"
    BY <1>2, <2>1
  <2>3. QED
    BY <2>1, <2>2 DEF Notifying
<1>4. /\ Awake \union {w} \subseteq Awake'
      /\ Awake' \in SUBSET Workers
      /\ w \notin Awake
  <2>1. th \notin Awake /\ w \notin Awake
    BY DEF Awake
  <2>2. \A a \in Awake : a \in Workers /\ pc'[a] = "top"
    BY <1>1, <1>2, <2>1 DEF Awake
  <2>3. QED
    BY <1>2, <2>1, <2>2 DEF Awake
<1>5. Sleeping' = Sleeping \ {w} /\ w \in Sleeping
  BY <1>1, <1>2 DEF Sleeping, AfterNotify
<1>6. RoomFits'
  <2>0. IsFiniteSet(Notifying) /\ th \in Notifying
    BY DEF RoomFits, Notifying
  <2>1. IsFiniteSet(Notifying') /\ Cardinality(Notifying') = Cardinality(Notifying) - 1
    BY <1>3, <2>0, FS_RemoveElement
  <2>2. IsFiniteSet(Awake')
    BY <1>4, WorkersAssumption, FS_Subset
  <2>3. /\ IsFiniteSet(Awake \union {w})
        /\ Cardinality(Awake \union {w}) = Cardinality(Awake) + 1
    BY <1>4, AwakeFinite, FS_AddElement
  <2>4. Cardinality(Awake \union {w}) <= Cardinality(Awake')
    BY <1>4, <2>2, FS_Subset
  <2>5. /\ Cardinality(Notifying) \in Nat /\ Cardinality(Awake) \in Nat
        /\ Cardinality(Awake') \in Nat /\ Len(queue) \in Nat
    BY <2>2, AwakeFinite, FS_CardinalityType DEF RoomFits, TypeOK
  <2>6. queue' = queue
    BY DEF poolVars
  <2>7. QED
    BY <1>5, <2>1, <2>3, <2>4, <2>5, <2>6 DEF RoomFits
<1>7. /\ pc'[Main] = IF th = Main THEN "body" ELSE pc[Main]
      /\ \A a \in Workers : pc'[a] = "exited" <=> pc[a] = "exited"
      /\ \A t \in Tasks : pc'[t] = "none" => pc[t] = "none"
      /\ stop' = stop /\ queue' = queue
  <2>1. AfterNotify(th) = IF th \in Workers THEN "top" ELSE "body"
    BY DEF AfterNotify
  <2>2. Tasks \subseteq Threads /\ Tasks \intersect Workers = {}
    BY DistinctAssumption DEF Threads
  <2>3. pc[th] = "notify" /\ pc[w] = "waiting"
    OBVIOUS
  <2>4. stop' = stop /\ queue' = queue
    BY DEF poolVars
  <2>5. QED
    BY <1>1, <1>2, <2>1, <2>2, <2>3, <2>4
<1>8. QED
  <2>1. pc'[Main] \in {"stopping", "draining", "destroyed"}
            <=> pc[Main] \in {"stopping", "draining", "destroyed"}
    BY <1>7
  <2>2. QED
    BY <1>5, <1>6, <1>7, <2>1 DEF StopFits

LEMMA NotifyUnheardWInv ==
    ASSUME WInv, NEW th \in Threads, NotifyUnheard(th)
    PROVE  RoomFits' /\ StopFits'
<1> USE DEF WInv, IInv, NotifyUnheard, Goto, AfterNotify, poolVars
<1>1. /\ pc'[th] = AfterNotify(th)
      /\ \A a \in Threads \ {th} : pc'[a] = pc[a]
      /\ Notifying' = Notifying \ {th} /\ Sleeping' = Sleeping /\ Sleeping = {}
  <2>1. AfterNotify(th) \notin {"notify", "waiting"}
    OBVIOUS
  <2>2. Sleeping = {}
    BY DEF Sleeping
  <2>3. pc' = [pc EXCEPT ![th] = AfterNotify(th)] /\ TypeOK
    OBVIOUS
  <2> HIDE DEF AfterNotify, NotifyUnheard, Goto, WInv, IInv
  <2>4. QED
    BY <2>1, <2>2, <2>3, Moves
<1>2. Main \in Threads /\ Workers \subseteq Threads /\ Tasks \subseteq Threads
  BY DEF Threads
<1>3. RoomFits'
  BY <1>1, FS_RemoveElement DEF RoomFits
<1>4. /\ pc'[Main] = IF th = Main THEN "body" ELSE pc[Main]
      /\ \A a \in Workers : pc'[a] = "exited" <=> pc[a] = "exited"
      /\ \A t \in Tasks : pc'[t] = "none" => pc[t] = "none"
      /\ stop' = stop /\ queue' = queue
  BY <1>1, <1>2, DistinctAssumption
<1>5. pc'[Main] \in {"stopping", "draining", "destroyed"}
          <=> pc[Main] \in {"stopping", "draining", "destroyed"}
  BY <1>4
<1>6. QED
  BY <1>1, <1>3, <1>4, <1>5 DEF StopFits

LEMMA WorkerWInv ==
    ASSUME WInv, NEW w \in Workers,
           WaitForWork(w) \/ PopTask(w) \/ ExitLoop(w) \/ SpuriousWakeup(w)
    PROVE  RoomFits' /\ StopFits'
<1> USE DEF WInv, IInv, Goto, poolVars
<1>1. w \in Threads /\ Main \in Threads /\ Workers \subseteq Threads /\ w # Main
  BY DistinctAssumption DEF Threads
<1>2. Len(queue) \in Nat /\ Cardinality(Notifying) \in Nat /\ Cardinality(Awake) \in Nat
  BY AwakeFinite, FS_CardinalityType DEF TypeOK, RoomFits
<1>3. Cardinality(Awake') \in Nat /\ IsFiniteSet(Awake')
  <2>1. Awake' \in SUBSET Workers
    BY DEF Awake
  <2>2. QED
    BY <2>1, WorkersAssumption, FS_Subset, FS_CardinalityType
<1>4. CASE WaitForWork(w)
  <2>1. Notifying' = Notifying /\ queue' = queue /\ queue = <<>> /\ stop' = stop /\ ~stop
    BY <1>1, <1>4, Moves DEF WaitForWork, Notifying
  <2>2. RoomFits'
    BY <2>1, <1>2, <1>3 DEF RoomFits
  <2>3. pc'[w] = "waiting" /\ \A a \in Threads \ {w} : pc'[a] = pc[a]
    BY <1>1, <1>4, Moves DEF WaitForWork
  <2>4. QED
    BY <1>1, <2>1, <2>2, <2>3 DEF StopFits
<1>5. CASE PopTask(w)
  <2>1. /\ Notifying' = Notifying /\ Awake' = Awake \ {w} /\ w \in Awake /\ Sleeping' = Sleeping
        /\ pc'[w] = "popped" /\ \A a \in Threads \ {w} : pc'[a] = pc[a]
    BY <1>1, <1>5, Moves DEF PopTask, Notifying, Awake, Sleeping
  <2>2. Cardinality(Awake') = Cardinality(Awake) - 1
    BY <2>1, AwakeFinite, FS_RemoveElement
  <2>3. Len(queue') = Len(queue) - 1
    BY <1>5 DEF PopTask, TypeOK
  <2>4. RoomFits'
    BY <2>1, <2>2, <2>3, <1>2, <1>3 DEF RoomFits
  <2>5. QED
    BY <1>1, <1>5, <2>1, <2>4 DEF StopFits, PopTask
<1>6. CASE ExitLoop(w)
  <2>1. /\ Notifying' = Notifying /\ Sleeping' = Sleeping
        /\ pc'[w] = "exited" /\ \A a \in Threads \ {w} : pc'[a] = pc[a]
        /\ queue = <<>> /\ queue' = queue /\ stop /\ stop' = stop
    BY <1>1, <1>6, Moves DEF ExitLoop, Notifying, Sleeping
  <2>2. RoomFits'
    BY <2>1, <1>2, <1>3 DEF RoomFits
  <2>3. QED
    BY <1>1, <2>1, <2>2 DEF StopFits
<1>7. CASE SpuriousWakeup(w)
  <2>1. /\ Notifying' = Notifying /\ Awake \subseteq Awake' /\ Sleeping' \subseteq Sleeping
        /\ pc'[w] = "top" /\ \A a \in Threads \ {w} : pc'[a] = pc[a]
        /\ queue' = queue /\ stop' = stop
    BY <1>1, <1>7, Moves DEF SpuriousWakeup, Notifying, Awake, Sleeping
  <2>2. RoomFits'
    BY <2>1, <1>3, RoomKept
  <2>3. QED
    BY <1>1, <1>7, <2>1, <2>2 DEF StopFits, SpuriousWakeup
<1>8. QED
  BY <1>4, <1>5, <1>6, <1>7

LEMMA DestructorWInv ==
    ASSUME WInv, Destructor PROVE RoomFits' /\ StopFits'
<1> USE DEF WInv, IInv, Goto, poolVars
<1>1. /\ Main \in Threads /\ Workers \subseteq Threads /\ Tasks \subseteq Threads
      /\ Main \notin Workers /\ Main \notin Tasks
  BY DistinctAssumption DEF Threads
<1>2. CASE SetStop
  <2>1. /\ Notifying' = Notifying /\ Awake' = Awake /\ Sleeping' = Sleeping
        /\ pc'[Main] = "stopping" /\ \A a \in Threads \ {Main} : pc'[a] = pc[a]
    BY <1>1, <1>2, Moves DEF SetStop, Notifying, Awake, Sleeping
  <2>2. QED
    BY <1>1, <1>2, <2>1 DEF StopFits, RoomFits, SetStop
<1>3. CASE NotifyAll
  <2>1. \A a \in Threads : pc'[a] = IF a = Main THEN "draining"
                                    ELSE IF pc[a] = "waiting" THEN "top" ELSE pc[a]
    BY <1>3 DEF NotifyAll
  <2>2. Notifying' = Notifying /\ Sleeping' = {} /\ pc'[Main] = "draining"
    BY <1>1, <1>3, <2>1 DEF NotifyAll, Notifying, Sleeping
  <2>3. QED
    BY <1>1, <1>3, <2>1, <2>2 DEF StopFits, RoomFits, NotifyAll
<1>4. CASE JoinWorkers
  <2>1. /\ Notifying' = Notifying /\ Awake' = Awake /\ Sleeping' = Sleeping
        /\ pc'[Main] = "destroyed" /\ \A a \in Threads \ {Main} : pc'[a] = pc[a]
    BY <1>1, <1>4, Moves DEF JoinWorkers, Notifying, Awake, Sleeping
  <2>2. QED
    BY <1>1, <1>4, <2>1 DEF StopFits, RoomFits, JoinWorkers
<1>5. QED
  BY <1>2, <1>3, <1>4 DEF Destructor

------------------------------------------------------------------------------
(* All steps.                                                               *)

LEMMA InitWInv == Init => WInv
<1>1. SUFFICES ASSUME Init PROVE RoomFits /\ StopFits
  BY InitIInv DEF WInv
<1>2. /\ pc[Main] = "body"
      /\ \A w \in Workers : pc[w] = "top"
      /\ \A t \in Tasks : pc[t] = "none"
      /\ queue = <<>> /\ stop = FALSE
  BY <1>1, DistinctAssumption DEF Init, Threads
<1>3. Notifying = {} /\ Sleeping = {}
  BY <1>2 DEF Notifying, Sleeping, Threads
<1>4. QED
  BY <1>2, <1>3, FS_EmptySet, WorkersAssumption DEF RoomFits, StopFits

LEMMA QuietSteps ==
    ASSUME WInv, NEW th \in Threads,
           \/ SystemStep(th) /\ ~NotifyUnheard(th) /\ ~(\E w \in Workers : NotifyOne(th, w))
           \/ CheckpointCancel(th) \/ BodyThrows(th) \/ FinishTask(th)
           \/ \E t \in Tasks : ClaimJoin(th, t)
           \/ th \in Workers /\ OverflowStartFails(th)
           \/ th \in Tasks /\ YieldInPlace(th)
    PROVE  RoomFits' /\ StopFits'
<1> USE DEF WInv, IInv, Goto, poolVars, Places, Holding, InBody, Locations
<1>1. th = Main \/ th \in Workers \/ th \in Tasks
  BY DEF Threads
<1>2. CASE CancelBeforeSlice(th)
  BY <1>1, <1>2, QuietMove DEF CancelBeforeSlice
<1>3. CASE PassCancelCheck(th)
  BY <1>1, <1>3, QuietMove DEF PassCancelCheck
<1>4. CASE BeginSlice(th)
  BY <1>1, <1>4, QuietMove DEF BeginSlice
<1>5. CASE ResolvePromise(th)
  BY <1>1, <1>5, QuietMove DEF ResolvePromise
<1>6. CASE LeaveThread(th)
  BY <1>1, <1>6, QuietMove, DistinctAssumption DEF LeaveThread
<1>7. CASE FutureGet(th)
  BY <1>1, <1>7, QuietMove DEF FutureGet
<1>8. CASE FutureGetNested(th)
  BY <1>1, <1>8, QuietMove DEF FutureGetNested
<1>9. CASE JoinOverflow(th)
  BY <1>1, <1>9, QuietMove DEF JoinOverflow
<1>10. CASE CheckpointCancel(th)
  BY <1>1, <1>10, QuietMove DEF CheckpointCancel
<1>11. CASE BodyThrows(th)
  BY <1>1, <1>11, QuietMove DEF BodyThrows
<1>12. CASE FinishTask(th)
  BY <1>1, <1>12, QuietMove DEF FinishTask
<1>13. ASSUME NEW t \in Tasks, ClaimJoin(th, t) PROVE RoomFits' /\ StopFits'
  BY <1>1, <1>13, QuietMove DEF ClaimJoin
<1>14. CASE th \in Workers /\ OverflowStartFails(th)
  BY <1>14, QuietMove, DistinctAssumption DEF OverflowStartFails
<1>15. CASE th \in Tasks /\ YieldInPlace(th)
  BY <1>15, QuietMove, DistinctAssumption DEF YieldInPlace, MustYield
<1>16. QED
  BY <1>2, <1>3, <1>4, <1>5, <1>6, <1>7, <1>8, <1>9, <1>10, <1>11, <1>12, <1>13, <1>14, <1>15
     DEF SystemStep

LEMMA OverflowWInv ==
    ASSUME WInv, NEW w \in Workers, NEW t \in Tasks, SubmitOverflow(w, t)
    PROVE  RoomFits' /\ StopFits'
<1>1. t \in Threads /\ t # Main /\ t \notin Workers /\ pc[t] = "none"
  BY DistinctAssumption DEF WInv, IInv, StatusFits, SubmitOverflow, Threads
<1>2. QED
  BY <1>1, QuietMove DEF SubmitOverflow, poolVars, Locations

\* The steps that move nobody.
LEMMA StillWInv ==
    ASSUME WInv, UNCHANGED <<pc, queue, stop>>
    PROVE  RoomFits' /\ StopFits'
BY DEF WInv, RoomFits, StopFits, Notifying, Sleeping, Awake

LEMMA NextWInv == WInv /\ [Next]_vars => WInv'
<1>1. SUFFICES ASSUME WInv, [Next]_vars PROVE WInv'
  OBVIOUS
<1>2. IInv'
  BY <1>1, TypeOKStep, PlacesStep, OneHolderStep, StatusFitsStep, HolderFitsStep, JoinFitsStep
     DEF WInv, IInv
<1>3. ASSUME NEW th \in Threads, NEW t \in Tasks, TaskCancel(th, t) PROVE RoomFits' /\ StopFits'
  BY <1>1, <1>3, StillWInv DEF TaskCancel, threadVars, poolVars
<1>4. ASSUME NEW th \in Threads, CheckpointSpend(th) PROVE RoomFits' /\ StopFits'
  BY <1>1, <1>4, StillWInv DEF CheckpointSpend, threadVars, poolVars
<1>5. CASE UNCHANGED vars
  BY <1>1, <1>5, <1>2, StillWInv DEF vars, threadVars, poolVars, WInv
<1>6. ASSUME NEW th \in Threads, SystemStep(th) \/ ProgramStep(th) PROVE RoomFits' /\ StopFits'
  BY <1>1, <1>3, <1>4, <1>6, SubmitWInv, NotifyOneWInv, NotifyUnheardWInv, QuietSteps
     DEF ProgramStep
<1>7. ASSUME NEW w \in Workers, WorkerStep(w) \/ SpuriousWakeup(w) PROVE RoomFits' /\ StopFits'
  BY <1>1, <1>7, WorkerWInv, YieldWInv DEF WorkerStep
<1>8. ASSUME NEW w \in Workers, OverflowStartFails(w) PROVE RoomFits' /\ StopFits'
  BY <1>1, <1>8, QuietSteps DEF Threads
<1>9. ASSUME NEW t \in Tasks, YieldInPlace(t) PROVE RoomFits' /\ StopFits'
  BY <1>1, <1>9, QuietSteps DEF Threads
<1>10. CASE Next
  BY <1>1, <1>2, <1>6, <1>7, <1>8, <1>9, <1>10, OverflowWInv, DestructorWInv DEF Next, WInv
<1>11. QED
  BY <1>1, <1>5, <1>10

THEOREM WInvAlways == Spec => []WInv
BY InitWInv, NextWInv, PTL DEF Spec

------------------------------------------------------------------------------
\* No wakeup is lost, though notify_one comes after the unlock: while a worker
\* sleeps every queued task has somebody who is about to see to it.
THEOREM NoLostWakeupAlways == Spec => []NoLostWakeup
<1>1. WInv => NoLostWakeup
  BY DEF WInv, RoomFits, StopFits, NoLostWakeup
<1>2. QED
  BY <1>1, WInvAlways, PTL

\* A destructor that has joined all workers leaves no promise open, unless a
\* worker has started threads for nested tasks.
THEOREM DestructorDrainsAlways == Spec => []DestructorDrains
<1>1. WInv => DestructorDrains
  <2>1. SUFFICES ASSUME WInv, pc[Main] = "destroyed", \A t \in Tasks : pc[t] = "none",
                        NEW t \in Tasks, Pending(t)
                 PROVE  FALSE
    BY DEF DestructorDrains
  <2>2. \A w \in Workers : pc[w] = "exited"
    BY <2>1 DEF WInv, StopFits
  <2>3. queue = <<>>
    BY <2>1, <2>2 DEF WInv, StopFits
  <2>4. t \notin Queued
    BY <2>3 DEF Queued, Elements
  <2>5. PICK a \in Threads : cur[a] = t
    BY <2>1, <2>4 DEF WInv, IInv, OneHolder
  <2>6. QED
    BY <2>1, <2>2, <2>5, DistinctAssumption DEF WInv, IInv, Places, Threads, Holding
<1>2. QED
  BY <1>1, WInvAlways, PTL

------------------------------------------------------------------------------
(* StructuredTasks, for every spawn tree: a program that joins what it      *)
(* spawns leaves nothing behind.                                            *)

\* The join of a task has returned.
Joined(t) == taker[t] # NoThread /\ target[taker[t]] # t

Children(p) == {t \in Tasks : Parent[t] = p}

\* Nobody cancels or throws.
NoTrouble ==
    \A t \in Tasks : ~cancelRequested[t] /\ status[t] \notin {"failed", "cancelled"}

\* Whoever has come to the end of its body has joined its children; after a
\* yield, the end is all that is left of it.
EndsJoined ==
    /\ \A t \in Tasks : status[t] = "completed" \/ resumable[t] =>
           \A c \in Children(t) : Joined(c)
    /\ pc[Main] \notin InBody => \A c \in Children(Main) : Joined(c)
    /\ \A th \in Threads : pc[th] = "resumed" => resumable[cur[th]]

SInv == IInv /\ NoTrouble /\ EndsJoined

------------------------------------------------------------------------------
\* StructuredTasks chooses among the steps of TaskScheduler.
LEMMA StructuredIsNext == [StructuredNext]_vars => [Next]_vars
<1>1. SUFFICES ASSUME StructuredNext PROVE [Next]_vars
  OBVIOUS
<1>2. Workers \subseteq Threads /\ Tasks \subseteq Threads
  BY DEF Threads
<1>3. ASSUME NEW th \in Threads, ThreadStep(th) \/ CheckpointSpend(th) PROVE Next
  <2>1. CASE SystemStep(th)
    BY <2>1 DEF Next
  <2>2. CASE Spawn(th)
    <3>1. PICK t \in Tasks : SubmitQueued(th, t) \/ SubmitOverflow(th, t)
      BY <2>2 DEF Spawn
    <3>2. CASE SubmitQueued(th, t)
      BY <3>2 DEF Next, ProgramStep
    <3>3. CASE SubmitOverflow(th, t)
      <4>1. th \in Workers
        BY <3>3 DEF SubmitOverflow
      <4>2. QED
        BY <3>3, <4>1 DEF Next
    <3>4. QED
      BY <3>1, <3>2, <3>3
  <2>3. CASE JoinChild(th)
    BY <2>3 DEF JoinChild, Next, ProgramStep
  <2>4. CASE Return(th)
    BY <2>4 DEF Return, Next, ProgramStep
  <2>5. CASE CheckpointSpend(th)
    BY <2>5 DEF Next, ProgramStep
  <2>6. QED
    BY <1>3, <2>1, <2>2, <2>3, <2>4, <2>5 DEF ThreadStep
<1>4. ASSUME NEW w \in Workers, PoolStep(w) \/ SpuriousWakeup(w) \/ YieldToQueue(w) PROVE Next
  BY <1>4 DEF PoolStep, WorkerStep, Next
<1>5. ASSUME NEW t \in Tasks, YieldInPlace(t) PROVE Next
  BY <1>5 DEF Next
<1>6. CASE EndOfProgram \/ NotifyAll \/ JoinWorkers
  BY <1>6 DEF EndOfProgram, Destructor, Next
<1>7. QED
  BY <1>1, <1>3, <1>4, <1>5, <1>6 DEF StructuredNext

\* A task that has been joined stays so.
LEMMA JoinedStays ==
    ASSUME IInv, [Next]_vars, NEW c \in Tasks, Joined(c)
    PROVE  Joined(c)'
<1> USE DEF Joined, IInv, TypeOK, threadVars, poolVars, handleVars, sliceVars
<1>1. taker[c] \in Threads /\ c # NoTask
  BY DistinctAssumption
<1>2. CASE UNCHANGED <<taker, target>>
  BY <1>2
<1>3. ASSUME NEW th \in Threads, NEW t \in Tasks, ClaimJoin(th, t) PROVE Joined(c)'
  <2>1. t # c /\ taker'[c] = taker[c]
    BY <1>3 DEF ClaimJoin
  <2>2. target'[taker[c]] # c
    BY <1>1, <1>3, <2>1 DEF ClaimJoin
  <2>3. QED
    BY <2>1, <2>2
<1>4. ASSUME NEW th \in Threads, FutureGet(th) \/ JoinOverflow(th) PROVE Joined(c)'
  BY <1>1, <1>4 DEF FutureGet, JoinOverflow
<1>5. ASSUME NEW th \in Threads, SystemStep(th), ~FutureGet(th), ~JoinOverflow(th)
      PROVE  UNCHANGED <<taker, target>>
  BY <1>5 DEF SystemStep, NotifyOne, NotifyUnheard, CancelBeforeSlice, PassCancelCheck,
              BeginSlice, ResolvePromise, LeaveThread, FutureGetNested
<1>6. ASSUME NEW th \in Threads, ProgramStep(th), \A t \in Tasks : ~ClaimJoin(th, t)
      PROVE  UNCHANGED <<taker, target>>
  BY <1>6 DEF ProgramStep, SubmitQueued, TaskCancel, CheckpointCancel, CheckpointSpend,
              BodyThrows, FinishTask
<1>7. ASSUME NEW w \in Workers, WorkerStep(w) \/ SpuriousWakeup(w) \/ OverflowStartFails(w)
      PROVE  UNCHANGED <<taker, target>>
  BY <1>7 DEF WorkerStep, WaitForWork, PopTask, ExitLoop, YieldToQueue, SpuriousWakeup,
              OverflowStartFails
<1>8. ASSUME NEW w \in Workers, NEW t \in Tasks, SubmitOverflow(w, t)
      PROVE  UNCHANGED <<taker, target>>
  BY <1>8 DEF SubmitOverflow
<1>9. ASSUME NEW t \in Tasks, YieldInPlace(t) PROVE UNCHANGED <<taker, target>>
  BY <1>9 DEF YieldInPlace
<1>10. CASE Destructor
  BY <1>2, <1>10 DEF Destructor, SetStop, NotifyAll, JoinWorkers
<1>11. CASE UNCHANGED vars
  BY <1>2, <1>11 DEF vars
<1>12. QED
  BY <1>2, <1>3, <1>4, <1>5, <1>6, <1>7, <1>8, <1>9, <1>10, <1>11 DEF Next
------------------------------------------------------------------------------
\* What a step does that neither ends nor yields.
Quiet ==
    /\ \A t \in Tasks :
          /\ status'[t] = "completed" => status[t] = "completed"
          /\ resumable'[t] => resumable[t]
          /\ ~cancelRequested'[t] /\ status'[t] \notin {"failed", "cancelled"}
    /\ pc'[Main] \notin InBody => pc[Main] \notin InBody
    /\ \A th \in Threads : pc'[th] = "resumed" => resumable'[cur'[th]]

\* The steps of one thread that neither end nor yield its task.
LEMMA ThreadQuiet ==
    ASSUME SInv, NEW th \in Threads,
           \/ SystemStep(th)
           \/ \E t \in Tasks : SubmitQueued(th, t) \/ ClaimJoin(th, t)
           \/ CheckpointSpend(th)
    PROVE  Quiet
<1> USE DistinctAssumption DEF SInv, IInv, TypeOK, Threads, Places, Holding, InBody, NoTrouble,
        EndsJoined, Goto, Final, threadVars, poolVars, handleVars, sliceVars, Quiet
<1>1. /\ Main \notin Workers /\ Main \notin Tasks
      /\ \A a \in Threads : pc[a] \in Holding => cur[a] \in Tasks \/ a = Main
  OBVIOUS
<1>2. ASSUME NEW w \in Workers, NotifyOne(th, w) PROVE Quiet
  BY <1>1, <1>2 DEF NotifyOne, AfterNotify
<1>3. ASSUME NotifyUnheard(th) PROVE Quiet
  BY <1>1, <1>3 DEF NotifyUnheard, AfterNotify
<1>4. ASSUME CancelBeforeSlice(th) PROVE Quiet
  BY <1>1, <1>4 DEF CancelBeforeSlice
<1>5. ASSUME PassCancelCheck(th) PROVE Quiet
  BY <1>1, <1>5 DEF PassCancelCheck
<1>6. ASSUME BeginSlice(th) PROVE Quiet
  BY <1>1, <1>6 DEF BeginSlice
<1>7. ASSUME ResolvePromise(th) PROVE Quiet
  BY <1>1, <1>7 DEF ResolvePromise
<1>8. ASSUME LeaveThread(th) PROVE Quiet
  BY <1>1, <1>8 DEF LeaveThread
<1>9. ASSUME FutureGet(th) PROVE Quiet
  BY <1>1, <1>9 DEF FutureGet
<1>10. ASSUME FutureGetNested(th) PROVE Quiet
  BY <1>1, <1>10 DEF FutureGetNested
<1>11. ASSUME JoinOverflow(th) PROVE Quiet
  BY <1>1, <1>11 DEF JoinOverflow
<1>12. ASSUME NEW t \in Tasks, SubmitQueued(th, t) PROVE Quiet
  BY <1>1, <1>12 DEF SubmitQueued
<1>13. ASSUME NEW t \in Tasks, ClaimJoin(th, t) PROVE Quiet
  BY <1>1, <1>13 DEF ClaimJoin
<1>14. ASSUME CheckpointSpend(th) PROVE Quiet
  BY <1>1, <1>14 DEF CheckpointSpend
<1>15. QED
  BY <1>2, <1>3, <1>4, <1>5, <1>6, <1>7, <1>8, <1>9, <1>10, <1>11, <1>12, <1>13, <1>14 DEF SystemStep

\* The steps of the pool, of the destructor and of a worker that spawns.
LEMMA PoolQuiet ==
    ASSUME SInv,
           \/ \E w \in Workers : PoolStep(w) \/ SpuriousWakeup(w)
           \/ \E w \in Workers, t \in Tasks : SubmitOverflow(w, t)
           \/ NotifyAll \/ JoinWorkers \/ UNCHANGED vars
    PROVE  Quiet
<1> USE DistinctAssumption DEF SInv, IInv, TypeOK, Threads, Places, Holding, InBody, NoTrouble,
        EndsJoined, Goto, Final, threadVars, poolVars, handleVars, sliceVars, Quiet
<1>1. Main \notin Workers /\ Main \notin Tasks
  OBVIOUS
<1>2. ASSUME NEW w \in Workers, WaitForWork(w) PROVE Quiet
  BY <1>1, <1>2 DEF WaitForWork
<1>3. ASSUME NEW w \in Workers, PopTask(w) PROVE Quiet
  BY <1>1, <1>3 DEF PopTask
<1>4. ASSUME NEW w \in Workers, ExitLoop(w) PROVE Quiet
  BY <1>1, <1>4 DEF ExitLoop
<1>5. ASSUME NEW w \in Workers, SpuriousWakeup(w) PROVE Quiet
  BY <1>1, <1>5 DEF SpuriousWakeup
<1>6. ASSUME NEW w \in Workers, NEW t \in Tasks, SubmitOverflow(w, t) PROVE Quiet
  BY <1>1, <1>6 DEF SubmitOverflow
<1>7. CASE NotifyAll
  BY <1>1, <1>7 DEF NotifyAll
<1>8. CASE JoinWorkers
  BY <1>1, <1>8 DEF JoinWorkers
<1>9. CASE UNCHANGED vars
  BY <1>1, <1>9 DEF vars
<1>10. QED
  BY <1>2, <1>3, <1>4, <1>5, <1>6, <1>7, <1>8, <1>9 DEF PoolStep

\* A quiet step keeps what was joined.
LEMMA QuietKeeps ==
    ASSUME SInv, [Next]_vars, Quiet
    PROVE  NoTrouble' /\ EndsJoined'
<1>1. \A c \in Tasks : Joined(c) => Joined(c)'
  BY JoinedStays DEF SInv
<1>2. NoTrouble'
  BY DEF Quiet, NoTrouble
<1>3. QED
  BY <1>1, <1>2 DEF Quiet, SInv, EndsJoined, Children

\* A body that has joined its children may be left.
LEMMA BodyJoined ==
    ASSUME SInv, NEW th \in Threads, pc[th] = "body", ChildrenJoined(th)
    PROVE  \A c \in Children(Doing(th)) : Joined(c)
BY DistinctAssumption DEF ChildrenJoined, ChildOf, Children, Joined, Threads

\* The task of thread th comes to its end, or has nothing left but that.
LEMMA EndKeeps ==
    ASSUME SInv, [Next]_vars, NEW th \in Threads, cur[th] \in Tasks,
           \A c \in Children(cur[th]) : Joined(c),
           \A t \in Tasks \ {cur[th]} : status'[t] = status[t] /\ resumable'[t] = resumable[t],
           status'[cur[th]] \notin {"failed", "cancelled"},
           cancelRequested' = cancelRequested,
           pc'[Main] = pc[Main],
           \A a \in Threads : pc'[a] = "resumed" => pc[a] = "resumed" /\ cur'[a] = cur[a],
           \A t \in Tasks : resumable[t] => resumable'[t]
    PROVE  NoTrouble' /\ EndsJoined'
<1>1. \A c \in Tasks : Joined(c) => Joined(c)'
  BY JoinedStays DEF SInv
<1>2. NoTrouble'
  BY DEF SInv, NoTrouble
<1>3. ASSUME NEW t \in Tasks, status'[t] = "completed" \/ resumable'[t], NEW c \in Children(t)
      PROVE  Joined(c)'
  <2>1. c \in Tasks
    BY DEF Children
  <2>2. Joined(c)
    BY <1>3 DEF SInv, EndsJoined
  <2>3. QED
    BY <2>1, <2>2, <1>1
<1>4. pc'[Main] \notin InBody => \A c \in Children(Main) : Joined(c)'
  BY <1>1 DEF SInv, EndsJoined, Children
<1>5. \A a \in Threads : pc'[a] = "resumed" => cur[a] \in Tasks
  BY DistinctAssumption DEF SInv, IInv, Places, Threads, Holding, InBody, TypeOK
<1>6. \A a \in Threads : pc'[a] = "resumed" => resumable'[cur'[a]]
  BY <1>5 DEF SInv, EndsJoined
<1>7. QED
  BY <1>2, <1>3, <1>4, <1>6 DEF EndsJoined, Children, Joined

LEMMA ReturnKeeps ==
    ASSUME SInv, [Next]_vars, NEW th \in Threads, Return(th)
    PROVE  NoTrouble' /\ EndsJoined'
<1> USE DEF Return, FinishTask, Goto, SInv, IInv, TypeOK
<1>1. cur[th] \in Tasks /\ th # Main /\ Main \in Threads
  BY DistinctAssumption DEF Places, Threads
<1>2. \A c \in Children(cur[th]) : Joined(c)
  <2>1. CASE pc[th] = "body"
    BY <2>1, <1>1, BodyJoined DEF Doing
  <2>2. CASE pc[th] = "resumed"
    BY <2>2, <1>1 DEF EndsJoined
  <2>3. QED
    BY <2>1, <2>2
<1>3. /\ pc'[Main] = pc[Main]
      /\ \A a \in Threads : pc'[a] = "resumed" => pc[a] = "resumed" /\ cur'[a] = cur[a]
      /\ \A t \in Tasks \ {cur[th]} : status'[t] = status[t] /\ resumable'[t] = resumable[t]
      /\ status'[cur[th]] = "completed"
      /\ cancelRequested' = cancelRequested /\ resumable' = resumable
  BY <1>1 DEF sliceVars
<1>4. QED
  BY <1>1, <1>2, <1>3, EndKeeps

LEMMA YieldKeeps ==
    ASSUME SInv, [Next]_vars, NEW th \in Threads,
           \/ th \in Workers /\ ChildrenJoined(th) /\ YieldToQueue(th)
           \/ th \in Tasks /\ ChildrenJoined(th) /\ YieldInPlace(th)
    PROVE  NoTrouble' /\ EndsJoined'
<1> USE DEF MustYield, Goto, SInv, IInv, TypeOK
<1>1. /\ cur[th] \in Tasks /\ th # Main /\ Main \in Threads /\ pc[th] = "body"
      /\ Doing(th) = cur[th] /\ ChildrenJoined(th)
  BY DistinctAssumption DEF Places, Threads, Holding, YieldToQueue, YieldInPlace, Doing
<1>2. \A c \in Children(cur[th]) : Joined(c)
  BY <1>1, BodyJoined
<1>3. /\ pc'[Main] = pc[Main]
      /\ \A a \in Threads : pc'[a] = "resumed" => pc[a] = "resumed" /\ cur'[a] = cur[a]
      /\ \A t \in Tasks \ {cur[th]} : status'[t] = status[t] /\ resumable'[t] = resumable[t]
      /\ status'[cur[th]] = "yielded" /\ resumable'[cur[th]]
      /\ cancelRequested' = cancelRequested
  <2>1. CASE th \in Workers /\ YieldToQueue(th)
    BY <1>1, <2>1 DEF YieldToQueue
  <2>2. CASE th \in Tasks /\ YieldInPlace(th)
    BY <1>1, <2>2 DEF YieldInPlace, Places, Holding
  <2>3. QED
    BY <2>1, <2>2
<1>4. \A t \in Tasks : resumable[t] => resumable'[t]
  BY <1>3
<1>5. QED
  BY <1>1, <1>2, <1>3, <1>4, EndKeeps

LEMMA EndOfProgramKeeps ==
    ASSUME SInv, [Next]_vars, EndOfProgram
    PROVE  NoTrouble' /\ EndsJoined'
<1> USE DEF EndOfProgram, SetStop, Goto, SInv, IInv, TypeOK, handleVars, sliceVars
<1>1. \A c \in Tasks : Joined(c) => Joined(c)'
  BY JoinedStays
<1>2. \A c \in Children(Main) : Joined(c)
  BY BodyJoined DEF Doing, Threads
<1>3. \A a \in Threads : pc'[a] = "resumed" => pc[a] = "resumed" /\ cur'[a] = cur[a]
  OBVIOUS
<1>4. QED
  BY <1>1, <1>2, <1>3 DEF NoTrouble, EndsJoined, Children

LEMMA InitSInv == Init => SInv
<1>1. SUFFICES ASSUME Init PROVE NoTrouble /\ EndsJoined
  BY InitIInv DEF SInv
<1>2. QED
  BY <1>1, DistinctAssumption DEF Init, NoTrouble, EndsJoined, Threads, InBody

LEMMA NextSInv == SInv /\ [StructuredNext]_vars => SInv'
<1>1. SUFFICES ASSUME SInv, [StructuredNext]_vars PROVE SInv'
  OBVIOUS
<1>2. [Next]_vars
  BY <1>1, StructuredIsNext
<1>3. IInv'
  BY <1>1, <1>2, TypeOKStep, PlacesStep, OneHolderStep, StatusFitsStep, HolderFitsStep,
     JoinFitsStep DEF SInv, IInv
<1>4. Workers \subseteq Threads /\ Tasks \subseteq Threads
  BY DEF Threads
<1>5. ASSUME NEW th \in Threads, ThreadStep(th) \/ CheckpointSpend(th)
      PROVE  NoTrouble' /\ EndsJoined'
  <2>1. CASE Return(th)
    BY <1>1, <1>2, <2>1, ReturnKeeps
  <2>2. ASSUME NEW t \in Tasks, SubmitOverflow(th, t) PROVE NoTrouble' /\ EndsJoined'
    BY <1>1, <1>2, <2>2, PoolQuiet, QuietKeeps DEF SubmitOverflow
  <2>3. CASE \/ SystemStep(th)
             \/ \E t \in Tasks : SubmitQueued(th, t) \/ ClaimJoin(th, t)
             \/ CheckpointSpend(th)
    BY <1>1, <1>2, <2>3, ThreadQuiet, QuietKeeps
  <2>4. QED
    BY <1>5, <2>1, <2>2, <2>3 DEF ThreadStep, Spawn, JoinChild
<1>6. ASSUME NEW w \in Workers,
             PoolStep(w) \/ SpuriousWakeup(w) \/ (ChildrenJoined(w) /\ YieldToQueue(w))
      PROVE  NoTrouble' /\ EndsJoined'
  BY <1>1, <1>2, <1>4, <1>6, PoolQuiet, QuietKeeps, YieldKeeps
<1>7. ASSUME NEW t \in Tasks, ChildrenJoined(t) /\ YieldInPlace(t)
      PROVE  NoTrouble' /\ EndsJoined'
  BY <1>1, <1>2, <1>4, <1>7, YieldKeeps
<1>8. ASSUME NotifyAll \/ JoinWorkers \/ UNCHANGED vars
      PROVE  NoTrouble' /\ EndsJoined'
  BY <1>1, <1>2, <1>8, PoolQuiet, QuietKeeps
<1>9. QED
  BY <1>1, <1>2, <1>3, <1>5, <1>6, <1>7, <1>8, EndOfProgramKeeps DEF StructuredNext, SInv

LEMMA SInvAlways == StructuredSpec => []SInv
BY InitSInv, NextSInv, PTL DEF StructuredSpec

------------------------------------------------------------------------------
\* At the end of the program all that it, or a task of it, spawned is joined.
LEMMA AllJoinedAtEnd ==
    ASSUME SInv, pc[Main] \notin InBody
    PROVE  \A t \in Tasks : Joined(t) /\ promise[t] = "value"
<1> DEFINE S == {t \in Tasks : Joined(t)}
<1>1. \A t \in S : promise[t] # "none"
  BY DEF SInv, IInv, JoinFits, Joined
<1>2. \A t \in S : status[t] = "completed" /\ promise[t] = "value"
  BY <1>1 DEF SInv, IInv, StatusFits, NoTrouble, Final, OutcomeOf
<1>3. ASSUME NEW t \in Tasks, Parent[t] \in S \union {Main} PROVE t \in S
  <2>1. CASE Parent[t] = Main
    BY <2>1 DEF SInv, EndsJoined, Children
  <2>2. CASE Parent[t] \in S
    BY <2>2, <1>2 DEF SInv, EndsJoined, Children
  <2>3. QED
    BY <1>3, <2>1, <2>2
<1> HIDE DEF S
<1>4. S \in SUBSET Tasks
  BY DEF S
<1>5. S = Tasks
  BY <1>3, <1>4, RootedAssumption
<1>6. QED
  BY <1>2, <1>5 DEF S

\* When the scheduler of a program that joins whatever it spawns is gone, every
\* task of the spawn tree has a value and no pthread is left.
THEOREM NothingLeftBehindAlways == StructuredSpec => []NothingLeftBehind
<1>1. SInv => NothingLeftBehind
  <2>1. SUFFICES ASSUME SInv, pc[Main] = "destroyed", NEW t \in Tasks
                 PROVE  promise[t] = "value" /\ pc[t] \in {"none", "exited"} /\ ~hasOverflow[t]
    BY DEF NothingLeftBehind
  <2>2. Joined(t) /\ promise[t] = "value"
    BY <2>1, AllJoinedAtEnd DEF InBody
  <2>3. QED
    BY <2>1, <2>2 DEF SInv, IInv, JoinFits, Joined
<1>2. QED
  BY <1>1, SInvAlways, PTL

------------------------------------------------------------------------------
(* Whoever waits, waits for something that goes on.                         *)

\* A thread is executing the program's code or the body of a task.
InCall(th) == pc[th] \in InBody /\ (th = Main \/ cur[th] \in Tasks)

Spawned == {t \in Tasks : status[t] # "none"}

\* A task is spawned, claimed and joined from its parent's body only; what a
\* worker spawns has a thread of its own from then on.
ChildrenFit ==
    /\ \A th \in Threads : target[th] # NoTask => Parent[target[th]] = Doing(th)
    /\ \A c \in Spawned : Parent[c] # Main => runSlices[Parent[c]] > 0
    /\ \A th \in Threads, c \in Tasks :
          InCall(th) /\ Parent[c] = Doing(th) => taker[c] \in {th, NoThread}
    /\ \A w \in Workers, c \in Spawned :
          InCall(w) /\ Parent[c] = cur[w] => pc[c] # "none"
    /\ IsFiniteSet(Spawned)

\* A pthread is left once its task is resolved, and there is one to join
\* whenever somebody is about to.
PthreadsFit ==
    /\ \A t \in Tasks : pc[t] \in {"leaving", "exited"} => promise[t] # "none"
    /\ \A t \in Tasks : hasOverflow[t] => pc[t] # "none"
    /\ \A th \in Threads : pc[th] = "joinThread" => hasOverflow[target[th]]

PInv == SInv /\ WInv /\ ChildrenFit /\ PthreadsFit

\* What a step of a structured program may do to the threads and tasks that
\* ChildrenFit and PthreadsFit speak of.
Orderly ==
    /\ \A th \in Threads : target'[th] # NoTask =>
          /\ cur'[th] = cur[th]
          /\ target'[th] = target[th] \/ Parent[target'[th]] = Doing(th)
    /\ \A t \in Tasks : runSlices[t] > 0 => runSlices'[t] > 0
    /\ \A c \in Tasks : status[c] = "none" /\ status'[c] # "none" =>
          \E th \in Threads : /\ pc[th] = "body" /\ Parent[c] = Doing(th)
                              /\ th \in Workers => pc'[c] # "none"
    /\ \A c \in Tasks : taker'[c] = taker[c] \/
          \E th \in Threads : /\ pc[th] = "body" /\ Parent[c] = Doing(th)
                              /\ taker'[c] = th
    /\ \A th \in Threads : InCall(th)' =>
          \/ InCall(th) /\ cur'[th] = cur[th]
          \/ /\ cur'[th] \in Tasks /\ runSlices[cur'[th]] = 0
             /\ Spawned' = Spawned /\ taker' = taker
    /\ \A t \in Tasks : pc[t] # "none" => pc'[t] # "none"
    /\ \E x \in Tasks \union {NoTask} : Spawned' \subseteq Spawned \union {x}
    /\ \A t \in Tasks : pc'[t] \in {"leaving", "exited"} =>
          pc[t] \in {"leaving", "exited"} \/ promise'[t] # "none"
    /\ \A t \in Tasks : promise[t] # "none" => promise'[t] # "none"
    /\ \A t \in Tasks : hasOverflow'[t] => hasOverflow[t] \/ pc'[t] # "none"
    /\ \A th \in Threads : pc'[th] = "joinThread" =>
          \/ pc[th] = "joinThread" /\ target'[th] = target[th]
             /\ (hasOverflow[target[th]] => hasOverflow'[target[th]])
          \/ hasOverflow'[target'[th]]

\* A task's body is in one thread's hands.
LEMMA OneCaller ==
    ASSUME IInv, NEW a \in Threads, NEW b \in Threads, InCall(a), InCall(b), Doing(a) = Doing(b)
    PROVE  a = b
BY DistinctAssumption DEF IInv, OneHolder, InCall, Doing, Places

LEMMA OrderlyKeeps ==
    ASSUME PInv, [Next]_vars, IInv', Orderly
    PROVE  ChildrenFit' /\ PthreadsFit'
<1> USE DEF PInv, SInv, Orderly
<1>0. Main \notin Tasks /\ Main \in Threads
  BY DistinctAssumption DEF Threads
<1>1. ASSUME NEW th \in Threads, target'[th] # NoTask
      PROVE  Parent[target'[th]] = Doing(th)'
  BY <1>1 DEF ChildrenFit, Doing
<1>2. ASSUME NEW th \in Threads, pc[th] = "body"
      PROVE  /\ InCall(th)
             /\ th # Main => /\ Doing(th) \in Tasks /\ Doing(th) = cur[th]
                             /\ runSlices[cur[th]] = 1
  BY <1>0, <1>2, DistinctAssumption
     DEF InCall, InBody, Holding, IInv, TypeOK, Places, HolderFits, Threads, Doing
<1>3. ASSUME NEW c \in Spawned', Parent[c] # Main PROVE runSlices'[Parent[c]] > 0
  <2>1. c \in Tasks /\ status'[c] # "none" /\ Parent[c] \in Tasks
    BY <1>3, ParentAssumption DEF Spawned
  <2>2. CASE c \in Spawned
    BY <1>3, <2>1, <2>2 DEF ChildrenFit
  <2>3. CASE c \notin Spawned
    <3>1. PICK th \in Threads : pc[th] = "body" /\ Parent[c] = Doing(th)
      BY <2>1, <2>3 DEF Spawned
    <3>2. runSlices[Parent[c]] = 1
      BY <1>2, <1>3, <3>1 DEF Doing
    <3>3. QED
      BY <2>1, <3>2
  <2>4. QED
    BY <2>2, <2>3
<1>4. ASSUME NEW th \in Threads, NEW c \in Tasks, InCall(th)', Parent[c] = Doing(th)'
      PROVE  taker'[c] \in {th, NoThread}
  <2>1. CASE InCall(th) /\ cur'[th] = cur[th]
    <3>1. Parent[c] = Doing(th)
      BY <1>4, <2>1 DEF Doing
    <3>2. taker[c] \in {th, NoThread}
      BY <2>1, <3>1 DEF ChildrenFit
    <3>3. ASSUME NEW b \in Threads, pc[b] = "body", Parent[c] = Doing(b) PROVE b = th
      <4>1. InCall(b) /\ InCall(th) /\ Doing(b) = Doing(th)
        BY <1>2, <2>1, <3>1, <3>3
      <4>2. QED
        BY <4>1, OneCaller
    <3>4. QED
      BY <3>2, <3>3
  <2>2. CASE cur'[th] \in Tasks /\ runSlices[cur'[th]] = 0 /\ Spawned' = Spawned /\ taker' = taker
    <3>1. th # Main
      BY <2>2, <1>0, DistinctAssumption DEF IInv, Places
    <3>2. Parent[c] = cur'[th] /\ Parent[c] # Main
      BY <1>0, <1>4, <2>2, <3>1 DEF Doing
    <3>3. c \notin Spawned
      BY <2>2, <3>2 DEF ChildrenFit
    <3>4. QED
      BY <2>2, <3>3 DEF Spawned, IInv, StatusFits
  <2>3. QED
    BY <1>4, <2>1, <2>2
<1>5. ASSUME NEW w \in Workers, NEW c \in Spawned', InCall(w)', Parent[c] = cur'[w]
      PROVE  pc'[c] # "none"
  <2>0. c \in Tasks /\ w \in Threads /\ w # Main /\ status'[c] # "none"
    BY DistinctAssumption DEF Spawned, Threads
  <2>1. CASE InCall(w) /\ cur'[w] = cur[w]
    <3>1. CASE c \in Spawned
      BY <1>5, <2>0, <2>1, <3>1 DEF ChildrenFit
    <3>2. CASE c \notin Spawned
      <4>1. PICK b \in Threads : /\ pc[b] = "body" /\ Parent[c] = Doing(b)
                                 /\ b \in Workers => pc'[c] # "none"
        BY <2>0, <3>2 DEF Spawned
      <4>2. Doing(b) = Doing(w)
        BY <1>5, <2>0, <2>1, <4>1 DEF Doing
      <4>3. b = w
        BY <1>2, <2>0, <2>1, <4>1, <4>2, OneCaller
      <4>4. QED
        BY <4>1, <4>3
    <3>3. QED
      BY <3>1, <3>2
  <2>2. CASE cur'[w] \in Tasks /\ runSlices[cur'[w]] = 0 /\ Spawned' = Spawned
    <3>1. c \in Spawned /\ Parent[c] # Main
      BY <1>0, <1>5, <2>2
    <3>2. QED
      BY <1>5, <2>2, <3>1 DEF ChildrenFit
  <2>3. QED
    BY <1>5, <2>0, <2>1, <2>2
<1>6. IsFiniteSet(Spawned')
  <2>1. PICK x \in Tasks \union {NoTask} : Spawned' \subseteq Spawned \union {x}
    OBVIOUS
  <2>2. IsFiniteSet(Spawned \union {x})
    BY FS_AddElement DEF ChildrenFit
  <2>3. QED
    BY <2>1, <2>2, FS_Subset
<1>7. ChildrenFit'
  BY <1>1, <1>3, <1>4, <1>5, <1>6 DEF ChildrenFit
<1>8. PthreadsFit'
  BY DEF PthreadsFit
<1>9. QED
  BY <1>7, <1>8

\* Every step of a structured program is orderly: first those of one thread.
LEMMA ThreadOrderly ==
    ASSUME PInv, NEW th \in Threads,
           SystemStep(th) \/ CheckpointSpend(th) \/ FinishTask(th)
    PROVE  Orderly
<1> USE DistinctAssumption DEF PInv, SInv, IInv, TypeOK, Threads, Places, Holding, Joining, InBody,
        InCall, Doing, Spawned, Goto, Final, threadVars, poolVars, handleVars, sliceVars, Orderly
<1>1. Main \notin Workers /\ Main \notin Tasks
  OBVIOUS
<1>2. ASSUME NEW w \in Workers, NotifyOne(th, w) PROVE Orderly
  BY <1>1, <1>2 DEF NotifyOne, AfterNotify
<1>3. ASSUME NotifyUnheard(th) PROVE Orderly
  BY <1>1, <1>3 DEF NotifyUnheard, AfterNotify
<1>4. ASSUME CancelBeforeSlice(th) PROVE Orderly
  <2>1. cur[th] \in Tasks /\ status[cur[th]] \in {"ready", "yielded"} /\ th # Main
    BY <1>1, <1>4 DEF CancelBeforeSlice, HolderFits
  <2>2. Spawned' = Spawned
    BY <1>4, <2>1 DEF CancelBeforeSlice
  <2>3. QED
    BY <1>1, <1>4, <2>1, <2>2 DEF CancelBeforeSlice
<1>5. ASSUME PassCancelCheck(th) PROVE Orderly
  BY <1>1, <1>5 DEF PassCancelCheck
<1>6. ASSUME BeginSlice(th) PROVE Orderly
  BY <1>1, <1>6 DEF BeginSlice, HolderFits, StatusFits
<1>7. ASSUME ResolvePromise(th) PROVE Orderly
  <2>1. cur[th] \in Tasks /\ status[cur[th]] \in Final /\ th # Main
    BY <1>1, <1>7 DEF ResolvePromise, HolderFits
  <2>2. promise'[cur[th]] # "none"
    BY <1>7, <2>1 DEF ResolvePromise, OutcomeOf
  <2>3. \A t \in Tasks : cur[t] = t \/ cur[t] = NoTask
    BY <1>1
  <2>4. QED
    BY <1>1, <1>7, <2>1, <2>2, <2>3 DEF ResolvePromise
<1>8. ASSUME LeaveThread(th) PROVE Orderly
  BY <1>1, <1>8 DEF LeaveThread
<1>9. ASSUME FutureGet(th) PROVE Orderly
  BY <1>1, <1>9 DEF FutureGet
<1>10. ASSUME FutureGetNested(th) PROVE Orderly
  BY <1>1, <1>10 DEF FutureGetNested
<1>11. ASSUME JoinOverflow(th) PROVE Orderly
  BY <1>1, <1>11 DEF JoinOverflow, JoinFits
<1>12. ASSUME CheckpointSpend(th) PROVE Orderly
  BY <1>1, <1>12 DEF CheckpointSpend
<1>13. ASSUME FinishTask(th) PROVE Orderly
  BY <1>1, <1>13 DEF FinishTask, HolderFits
<1>14. QED
  BY <1>2, <1>3, <1>4, <1>5, <1>6, <1>7, <1>8, <1>9, <1>10, <1>11, <1>12, <1>13 DEF SystemStep

\* A body spawns or joins a child of its task, or gives its worker back.
LEMMA BodyOrderly ==
    ASSUME PInv, NEW th \in Threads, Spawn(th) \/ JoinChild(th) \/ YieldToQueue(th) \/ YieldInPlace(th)
    PROVE  Orderly
<1> USE DistinctAssumption DEF PInv, SInv, IInv, TypeOK, Threads, Places, Holding, Joining, InBody,
        InCall, Doing, Spawned, Goto, Final, threadVars, poolVars, handleVars, sliceVars, Orderly
<1>1. Main \notin Workers /\ Main \notin Tasks
  OBVIOUS
<1>2. ASSUME NEW t \in Tasks, ChildOf(th, t), SubmitQueued(th, t) PROVE Orderly
  BY <1>1, <1>2 DEF SubmitQueued, ChildOf
<1>3. ASSUME NEW t \in Tasks, ChildOf(th, t), SubmitOverflow(th, t) PROVE Orderly
  BY <1>1, <1>3 DEF SubmitOverflow, ChildOf, StatusFits
<1>4. ASSUME NEW t \in Tasks, ChildOf(th, t), ClaimJoin(th, t) PROVE Orderly
  BY <1>1, <1>4 DEF ClaimJoin, ChildOf
<1>5. ASSUME YieldToQueue(th) PROVE Orderly
  BY <1>1, <1>5 DEF YieldToQueue, MustYield, HolderFits
<1>6. ASSUME YieldInPlace(th) PROVE Orderly
  <2>1. th \in Tasks /\ cur[th] = th /\ status[th] = "running"
    <3>1. th \in Tasks /\ pc[th] = "body"
      BY <1>6 DEF YieldInPlace, MustYield
    <3>2. cur[th] = th /\ cur[th] # NoTask
      BY <3>1
    <3>3. QED
      BY <3>1, <3>2 DEF HolderFits
  <2>2. Spawned' = Spawned
    BY <1>6, <2>1 DEF YieldInPlace
  <2>3. QED
    BY <1>1, <1>6, <2>1, <2>2 DEF YieldInPlace, MustYield
<1>7. QED
  BY <1>2, <1>3, <1>4, <1>5, <1>6 DEF Spawn, JoinChild

\* The pool's steps and the destructor's.
LEMMA PoolOrderly ==
    ASSUME PInv,
           \/ \E w \in Workers : PoolStep(w) \/ SpuriousWakeup(w)
           \/ SetStop \/ NotifyAll \/ JoinWorkers \/ UNCHANGED vars
    PROVE  Orderly
<1> USE DistinctAssumption DEF PInv, SInv, IInv, TypeOK, Threads, Places, Holding, Joining, InBody,
        InCall, Doing, Spawned, Goto, Final, threadVars, poolVars, handleVars, sliceVars, Orderly
<1>1. Main \notin Workers /\ Main \notin Tasks
  OBVIOUS
<1>2. ASSUME NEW w \in Workers, WaitForWork(w) PROVE Orderly
  BY <1>1, <1>2 DEF WaitForWork
<1>3. ASSUME NEW w \in Workers, PopTask(w) PROVE Orderly
  BY <1>1, <1>3 DEF PopTask
<1>4. ASSUME NEW w \in Workers, ExitLoop(w) PROVE Orderly
  BY <1>1, <1>4 DEF ExitLoop
<1>5. ASSUME NEW w \in Workers, SpuriousWakeup(w) PROVE Orderly
  BY <1>1, <1>5 DEF SpuriousWakeup
<1>6. CASE SetStop
  BY <1>1, <1>6 DEF SetStop
<1>7. CASE NotifyAll
  BY <1>1, <1>7 DEF NotifyAll
<1>8. CASE JoinWorkers
  BY <1>1, <1>8 DEF JoinWorkers
<1>9. CASE UNCHANGED vars
  BY <1>1, <1>9 DEF vars
<1>10. QED
  BY <1>2, <1>3, <1>4, <1>5, <1>6, <1>7, <1>8, <1>9 DEF PoolStep

LEMMA InitPInv == Init => PInv
<1>1. SUFFICES ASSUME Init PROVE ChildrenFit /\ PthreadsFit
  BY InitSInv, InitWInv DEF PInv
<1>2. Spawned = {} /\ IsFiniteSet({})
  BY <1>1, FS_EmptySet DEF Init, Spawned
<1>3. QED
  BY <1>1, <1>2, DistinctAssumption DEF Init, ChildrenFit, PthreadsFit, Threads

LEMMA NextPInv == PInv /\ [StructuredNext]_vars => PInv'
<1>1. SUFFICES ASSUME PInv, [StructuredNext]_vars PROVE PInv'
  OBVIOUS
<1>2. [Next]_vars
  BY <1>1, StructuredIsNext
<1>3. SInv' /\ WInv'
  BY <1>1, <1>2, NextSInv, NextWInv DEF PInv
<1>4. Workers \subseteq Threads /\ Tasks \subseteq Threads
  BY DEF Threads
<1>5. Orderly
  <2>1. ASSUME NEW th \in Threads, ThreadStep(th) \/ CheckpointSpend(th) PROVE Orderly
    BY <1>1, <2>1, ThreadOrderly, BodyOrderly DEF ThreadStep, Return
  <2>2. ASSUME NEW w \in Workers, PoolStep(w) \/ SpuriousWakeup(w) \/ YieldToQueue(w)
        PROVE  Orderly
    BY <1>1, <1>4, <2>2, PoolOrderly, BodyOrderly
  <2>3. ASSUME NEW t \in Tasks, YieldInPlace(t) PROVE Orderly
    BY <1>1, <1>4, <2>3, BodyOrderly
  <2>4. CASE EndOfProgram \/ NotifyAll \/ JoinWorkers \/ UNCHANGED vars
    BY <1>1, <2>4, PoolOrderly DEF EndOfProgram
  <2>5. QED
    BY <1>1, <2>1, <2>2, <2>3, <2>4 DEF StructuredNext
<1>6. QED
  BY <1>1, <1>2, <1>3, <1>5, OrderlyKeeps DEF PInv, SInv

LEMMA PInvAlways == StructuredSpec => []PInv
BY InitPInv, NextPInv, PTL DEF StructuredSpec

------------------------------------------------------------------------------
(* From a state where everybody waits to a contradiction.                   *)

\* A body can always go on: to a child that it has not spawned or not joined,
\* or to its end.
LEMMA BodyGoesOn ==
    ASSUME PInv, NEW th \in Threads, pc[th] = "body"
    PROVE  CanGoOn(th)
<1>1. SUFFICES ASSUME \A t \in Tasks : ChildOf(th, t) => status[t] # "none" /\ taker[t] # NoThread
               PROVE  ChildrenJoined(th)
  BY DEF CanGoOn
<1>2. InCall(th) /\ target[th] = NoTask
  BY DistinctAssumption
     DEF PInv, SInv, IInv, TypeOK, Places, Threads, Holding, Joining, InCall, InBody
<1>3. \A t \in Tasks : ChildOf(th, t) => taker[t] = th /\ t # NoTask
  BY <1>1, <1>2, DistinctAssumption DEF PInv, ChildrenFit, ChildOf
<1>4. QED
  BY <1>2, <1>3 DEF ChildrenJoined

\* The pthread of a resolved task ends without anybody's help.
LEMMA PthreadGoesOn ==
    ASSUME PInv, NEW th \in Threads, pc[th] = "joinThread"
    PROVE  CanGoOn(th) \/ CanGoOn(target[th])
<1> USE DEF PInv, SInv, IInv, Places
<1>1. target[th] \in Tasks /\ promise[target[th]] # "none" /\ pc[target[th]] # "none"
  BY DEF TypeOK, Joining, JoinFits, PthreadsFit
<1>2. cur[target[th]] # target[th]
  BY <1>1 DEF OneHolder, Pending, Threads
<1>3. pc[target[th]] \in {"leaving", "exited"}
  BY <1>1, <1>2
<1>4. QED
  BY <1>3 DEF CanGoOn

\* If nobody goes on, whoever holds a task waits for a child of it.
LEMMA HolderWaits ==
    ASSUME PInv, \A th \in Threads : ~CanGoOn(th), NEW a \in Threads,
           cur[a] # NoTask \/ (a = Main /\ pc[a] \in InBody)
    PROVE  \E c \in Tasks : Parent[c] = Doing(a) /\ Pending(c)
<1> USE DEF PInv, SInv, IInv, Places
<1>1. pc[a] \in Holding \union {"notify"}
  BY DistinctAssumption DEF Threads, InBody, Holding
<1>2. pc[a] \notin {"popped", "checked", "resumed", "resolve", "notify"}
  BY DEF CanGoOn
<1>3. pc[a] # "body"
  BY BodyGoesOn
<1>4. pc[a] # "joinThread"
  <2>1. SUFFICES ASSUME pc[a] = "joinThread" PROVE FALSE
    OBVIOUS
  <2>2. target[a] \in Threads
    BY <2>1 DEF Joining, TypeOK, Threads
  <2>3. QED
    BY <2>1, <2>2, PthreadGoesOn
<1>5. pc[a] = "joinFuture"
  BY <1>1, <1>2, <1>3, <1>4 DEF Holding
<1>6. target[a] \in Tasks /\ Parent[target[a]] = Doing(a) /\ taker[target[a]] = a
  BY <1>5 DEF Joining, TypeOK, ChildrenFit, JoinFits
<1>7. promise[target[a]] = "none"
  BY <1>5 DEF CanGoOn
<1>8. status[target[a]] # "none"
  BY <1>6, DistinctAssumption DEF StatusFits, Threads
<1>9. QED
  BY <1>6, <1>7, <1>8 DEF Pending

\* The tasks with a child that spawns.
Grandparents == {t \in Tasks : \E c, g \in Tasks : Parent[c] = t /\ Parent[g] = c}

EnoughWorkers == IsFiniteSet(Grandparents) /\ Cardinality(Grandparents) < Cardinality(Workers)

\* If nobody goes on and the program waits, no task is left in the queue: a
\* worker that does not take it sleeps, though no wakeup is lost, or holds a task
\* whose child waits for a child in its turn.
LEMMA QueueEmpty ==
    ASSUME PInv, EnoughWorkers, \A th \in Threads : ~CanGoOn(th), pc[Main] \in InBody
    PROVE  Queued = {}
<1> USE DEF PInv, SInv, IInv, WInv
<1>1. Workers \subseteq Threads /\ Tasks \subseteq Threads /\ Main \notin Tasks \union Workers
  BY DistinctAssumption DEF Threads
<1>2. \A w \in Workers : pc[w] \notin {"top", "notify", "exited"}
  BY <1>1 DEF StopFits, CanGoOn, InBody
<1>3. CASE \E w \in Workers : pc[w] = "waiting"
  <2>1. Sleeping # {} /\ Awake = {} /\ Notifying = {}
    BY <1>1, <1>2, <1>3 DEF Sleeping, Awake, Notifying, CanGoOn
  <2>2. Len(queue) <= 0 /\ Len(queue) \in Nat
    BY <2>1, FS_EmptySet DEF RoomFits, TypeOK
  <2>3. QED
    BY <2>2 DEF Queued, Elements
<1>4. CASE \A w \in Workers : pc[w] # "waiting"
  <2>1. ASSUME NEW w \in Workers PROVE cur[w] \in Grandparents
    <3>1. cur[w] \in Tasks /\ Doing(w) = cur[w]
      BY <1>1, <1>2, <1>4 DEF Places, TypeOK, Doing
    <3>2. PICK c \in Tasks : Parent[c] = cur[w] /\ Pending(c)
      BY <1>1, <3>1, HolderWaits, DistinctAssumption
    <3>3. InCall(w)
      <4>1. pc[w] \notin {"popped", "checked", "resumed", "resolve"}
        BY <1>1 DEF CanGoOn
      <4>2. QED
        BY <1>1, <1>2, <1>4, <3>1, <4>1 DEF Places, InCall, InBody, Holding
    <3>4. pc[c] # "none"
      BY <3>2, <3>3 DEF ChildrenFit, Spawned, Pending
    <3>5. cur[c] = c
      BY <3>2, <3>4 DEF PthreadsFit, Pending, Places
    <3>6. PICK g \in Tasks : Parent[g] = c /\ Pending(g)
      BY <1>1, <3>5, HolderWaits, DistinctAssumption DEF Doing
    <3>7. QED
      BY <3>1, <3>2, <3>6 DEF Grandparents
  <2> DEFINE held == [w \in Workers |-> cur[w]]
  <2>2. held \in [Workers -> Grandparents]
    BY <2>1
  <2>3. \A w \in Workers : held[w] = cur[w]
    OBVIOUS
  <2> HIDE DEF held
  <2>4. PICK v, w \in Workers : v # w /\ held[v] = held[w]
    <3>1. /\ IsFiniteSet(Workers) /\ IsFiniteSet(Grandparents)
          /\ Cardinality(Grandparents) < Cardinality(Workers)
      BY WorkersAssumption DEF EnoughWorkers
    <3>2. QED
      BY ONLY <2>2, <3>1, FS_PigeonHole
  <2>5. cur[v] = cur[w] /\ cur[v] # NoTask
    BY <2>1, <2>3, <2>4, DistinctAssumption DEF Grandparents
  <2>6. QED
    BY <1>1, <2>4, <2>5 DEF OneHolder
<1>5. QED
  BY <1>3, <1>4

\* In a finite set of tasks each of which has a child in it everybody's parent
\* is in it too; no such set hangs from the program.
LEMMA NoEndlessWaiting ==
    ASSUME NEW P \in SUBSET Tasks, IsFiniteSet(P),
           \A t \in P : \E c \in P : Parent[c] = t
    PROVE  P = {}
<1> DEFINE D == {c \in P : Parent[c] \in P}
           child == [t \in P |-> CHOOSE c \in P : Parent[c] = t]
<1>1. \A t \in P : child[t] \in P /\ Parent[child[t]] = t
  OBVIOUS
<1>2. child \in [P -> D]
  BY <1>1
<1>3. IsFiniteSet(D) /\ Cardinality(D) <= Cardinality(P) /\ (Cardinality(P) = Cardinality(D) => P = D)
  BY FS_Subset
<1>4. Cardinality(D) \in Nat /\ Cardinality(P) \in Nat
  BY <1>3, FS_CardinalityType
<1>5. ~(Cardinality(D) < Cardinality(P))
  <2>1. SUFFICES ASSUME Cardinality(D) < Cardinality(P) PROVE FALSE
    OBVIOUS
  <2> HIDE DEF D, child
  <2>2. PICK x, y \in P : x # y /\ child[x] = child[y]
    BY <1>2, <1>3, <2>1, FS_PigeonHole
  <2>3. QED
    BY <1>1, <2>2
<1>6. P = D
  BY <1>3, <1>4, <1>5
<1>7. \A t \in Tasks : Parent[t] \in (Tasks \ P) \union {Main} => t \in Tasks \ P
  BY <1>6, DistinctAssumption
<1>8. QED
  BY <1>7, RootedAssumption

\* While there are more workers than tasks with grandchildren, no program of
\* tasks that join their children comes to a state where everybody waits.
THEOREM NeverStuckAlways == ASSUME EnoughWorkers PROVE StructuredSpec => []NeverStuck
<1>1. ASSUME PInv, pc[Main] # "destroyed", \A th \in Threads : ~CanGoOn(th)
      PROVE  FALSE
  <2>0. /\ Main \in Threads /\ Main \notin Tasks /\ Workers \subseteq Threads
        /\ SInv /\ TypeOK /\ Places /\ OneHolder /\ StopFits /\ IsFiniteSet(Spawned)
    BY <1>1, DistinctAssumption DEF Threads, PInv, SInv, IInv, WInv, ChildrenFit
  <2>1. CASE pc[Main] \in InBody
    <3> DEFINE P == {t \in Tasks : Pending(t)}
    <3>1. IsFiniteSet(P)
      <4>1. P \in SUBSET Spawned
        BY DEF Spawned, Pending
      <4>2. QED
        BY ONLY <2>0, <4>1, FS_Subset
    <3>2. ASSUME NEW t \in P PROVE \E c \in P : Parent[c] = t
      <4>1. t \notin Queued
        BY <1>1, <2>1, QueueEmpty
      <4>2. PICK a \in Threads : cur[a] = t
        BY <2>0, <4>1 DEF OneHolder
      <4>3. Doing(a) = t /\ cur[a] # NoTask
        BY <2>0, <4>2, DistinctAssumption DEF Doing, Places
      <4>4. QED
        BY <1>1, <4>3, HolderWaits
    <3>3. P = {}
      BY <3>1, <3>2, NoEndlessWaiting
    <3>4. QED
      BY <1>1, <2>0, <2>1, <3>3, HolderWaits
  <2>2. CASE pc[Main] \notin InBody
    <3>1. pc[Main] = "draining"
      BY <1>1, <2>0, <2>2 DEF Places, CanGoOn
    <3>2. PICK w \in Workers : pc[w] # "exited"
      BY <1>1, <2>0, <3>1 DEF CanGoOn
    <3>3. pc[w] \notin {"waiting", "top", "notify"}
      BY <1>1, <2>0, <3>1 DEF StopFits, Sleeping, CanGoOn
    <3>4. cur[w] \in Tasks
      BY <2>0, <3>2, <3>3 DEF Places, TypeOK
    <3>5. Pending(cur[w])
      BY <2>0, <3>4 DEF OneHolder
    <3>6. QED
      BY <2>0, <2>2, <3>4, <3>5, AllJoinedAtEnd DEF Pending
  <2>3. QED
    BY <2>1, <2>2
<1>2. PInv => NeverStuck
  BY <1>1 DEF NeverStuck
<1>3. QED
  BY <1>2, PInvAlways, PTL
==============================================================================
