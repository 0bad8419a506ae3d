--------------------------- MODULE TaskScheduler ----------------------------
(***************************************************************************)
(* The worker pool of cpp-v3/task_scheduler.cpp: a FIFO queue under one     *)
(* mutex and one condition variable, workers that pop and run task slices,  *)
(* overflow pthreads for tasks spawned from a worker, single-shot join on a *)
(* promise, cooperative cancellation at checkpoints, quantum yields, and    *)
(* the destructor that stops and joins the workers.                         *)
(*                                                                         *)
(* Everything between a lock and its unlock is one action; everything else  *)
(* another thread can observe (an atomic store, a promise, the notify that  *)
(* follows the unlock) is an action of its own.                             *)
(***************************************************************************)
EXTENDS Naturals, Sequences, FiniteSets

CONSTANTS Tasks,     \* the tasks a program may create
          Workers,   \* the pool's threads (workers_)
          Main,      \* the interpreter's thread, which owns the scheduler
          NoTask,    \* an empty shared_ptr to a task or a handle
          NoThread,  \* nobody
          Budget     \* quantum_budget_: checkpoints a slice may pass

ASSUME BudgetAssumption == Budget \in Nat \ {0}

ASSUME WorkersAssumption == IsFiniteSet(Workers) /\ Workers # {}

ASSUME DistinctAssumption ==
    /\ Tasks \intersect Workers = {}
    /\ Main \notin Tasks \union Workers
    /\ NoTask \notin Tasks
    /\ NoThread \notin Tasks \union Workers \union {Main}

\* An overflow pthread runs one task, so it goes by that task's name.
Threads == {Main} \union Workers \union Tasks

VARIABLES
    pc,               \* where each thread is
    cur,              \* the task each thread executes
    target,           \* the handle each thread is joining
    queue,            \* queue_
    stop,             \* stop_
    status,           \* AdTaskHandle::status, "none" before submission
    cancelRequested,  \* AdTaskHandle::cancel_requested
    taker,            \* the thread that won joined.exchange(true)
    hasOverflow,      \* AdTaskHandle::has_overflow_pthread
    promise,          \* AdScheduledTask::promise
    resumable,        \* run_slice has been replaced by the continuation
    runSlices,        \* metrics.run_slices
    remaining,        \* AdTaskExecutionContext::remaining_budget
    yieldRequested    \* AdTaskExecutionContext::yield_requested

threadVars == <<pc, cur, target>>
poolVars   == <<queue, stop>>
handleVars == <<status, cancelRequested, taker, hasOverflow, promise>>
sliceVars  == <<resumable, runSlices, remaining, yieldRequested>>
vars == <<threadVars, poolVars, handleVars, sliceVars>>

Locations == {"none", "top", "waiting", "popped", "checked", "body", "resumed",
              "notify", "resolve", "joinFuture", "joinThread",
              "leaving", "stopping", "draining", "exited", "destroyed"}

Final == {"completed", "failed", "cancelled"}

\* What the promise is given for each final status.
OutcomeOf == [completed |-> "value", failed |-> "error", cancelled |-> "cancelled"]

Init ==
    /\ pc = [th \in Threads |->
                IF th = Main THEN "body" ELSE IF th \in Workers THEN "top" ELSE "none"]
    /\ cur = [th \in Threads |-> NoTask]
    /\ target = [th \in Threads |-> NoTask]
    /\ queue = <<>>
    /\ stop = FALSE
    /\ status = [t \in Tasks |-> "none"]
    /\ cancelRequested = [t \in Tasks |-> FALSE]
    /\ taker = [t \in Tasks |-> NoThread]
    /\ hasOverflow = [t \in Tasks |-> FALSE]
    /\ promise = [t \in Tasks |-> "none"]
    /\ resumable = [t \in Tasks |-> FALSE]
    /\ runSlices = [t \in Tasks |-> 0]
    /\ remaining = [t \in Tasks |-> Budget]
    /\ yieldRequested = [t \in Tasks |-> FALSE]

Goto(th, l) == pc' = [pc EXCEPT ![th] = l]

-----------------------------------------------------------------------------
(* submitPreemptible and enqueueTask                                        *)

\* A thread that is not a pool worker pushes the new task on the queue; the
\* notify comes after the unlock.
SubmitQueued(th, t) ==
    /\ pc[th] = "body"
    /\ th \notin Workers
    /\ pc[Main] # "destroyed"
    /\ status[t] = "none"
    /\ status' = [status EXCEPT ![t] = "ready"]
    /\ queue' = Append(queue, t)
    /\ Goto(th, "notify")
    /\ UNCHANGED <<cur, target, stop, cancelRequested, taker, hasOverflow,
                   promise, sliceVars>>

\* Broken on purpose: a pool worker queues its nested tasks, too.
SubmitToQueue(w, t) ==
    /\ pc[w] = "body"
    /\ w \in Workers
    /\ status[t] = "none"
    /\ status' = [status EXCEPT ![t] = "ready"]
    /\ queue' = Append(queue, t)
    /\ UNCHANGED <<threadVars, stop, cancelRequested, taker, hasOverflow, promise, sliceVars>>

\* A pool worker starts a pthread for the task instead.
SubmitOverflow(w, t) ==
    /\ pc[w] = "body"
    /\ w \in Workers
    /\ status[t] = "none"
    /\ status' = [status EXCEPT ![t] = "ready"]
    /\ hasOverflow' = [hasOverflow EXCEPT ![t] = TRUE]
    /\ pc' = [pc EXCEPT ![t] = "popped"]
    /\ cur' = [cur EXCEPT ![t] = t]
    /\ UNCHANGED <<target, poolVars, cancelRequested, taker, promise, sliceVars>>

\* pthread_create failed: the exception leaves the body of the caller's task.
OverflowStartFails(w) ==
    /\ pc[w] = "body"
    /\ w \in Workers
    /\ status' = [status EXCEPT ![cur[w]] = "failed"]
    /\ Goto(w, "resolve")
    /\ UNCHANGED <<cur, target, poolVars, cancelRequested, taker, hasOverflow,
                   promise, sliceVars>>

\* cv_.notify_one().  A worker reaches this point from workerLoop, the other
\* threads from a submission.
AfterNotify(th) == IF th \in Workers THEN "top" ELSE "body"

\* Broken on purpose: the notify is forgotten.
NotifyNobody(th, w) ==
    /\ pc[th] = "notify"
    /\ pc[w] = "waiting"
    /\ Goto(th, AfterNotify(th))
    /\ UNCHANGED <<cur, target, poolVars, handleVars, sliceVars>>

NotifyOne(th, w) ==
    /\ pc[th] = "notify"
    /\ pc[w] = "waiting"
    /\ pc' = [pc EXCEPT ![th] = AfterNotify(th), ![w] = "top"]
    /\ UNCHANGED <<cur, target, poolVars, handleVars, sliceVars>>

NotifyUnheard(th) ==
    /\ pc[th] = "notify"
    /\ \A w \in Workers : pc[w] # "waiting"
    /\ Goto(th, AfterNotify(th))
    /\ UNCHANGED <<cur, target, poolVars, handleVars, sliceVars>>

-----------------------------------------------------------------------------
(* workerLoop: the part under the mutex                                     *)

WaitForWork(w) ==
    /\ pc[w] = "top"
    /\ ~stop
    /\ queue = <<>>
    /\ Goto(w, "waiting")
    /\ UNCHANGED <<cur, target, poolVars, handleVars, sliceVars>>

SpuriousWakeup(w) ==
    /\ pc[w] = "waiting"
    /\ Goto(w, "top")
    /\ UNCHANGED <<cur, target, poolVars, handleVars, sliceVars>>

\* Broken on purpose: front() without pop().
PeekTask(w) ==
    /\ pc[w] = "top"
    /\ queue # <<>>
    /\ cur' = [cur EXCEPT ![w] = Head(queue)]
    /\ Goto(w, "popped")
    /\ UNCHANGED <<target, poolVars, handleVars, sliceVars>>

PopTask(w) ==
    /\ pc[w] = "top"
    /\ queue # <<>>
    /\ cur' = [cur EXCEPT ![w] = Head(queue)]
    /\ queue' = Tail(queue)
    /\ Goto(w, "popped")
    /\ UNCHANGED <<target, stop, handleVars, sliceVars>>

\* Broken on purpose: stop_ alone ends the loop.
ExitLoopAtOnce(w) ==
    /\ pc[w] = "top"
    /\ stop
    /\ Goto(w, "exited")
    /\ UNCHANGED <<cur, target, poolVars, handleVars, sliceVars>>

ExitLoop(w) ==
    /\ pc[w] = "top"
    /\ stop
    /\ queue = <<>>
    /\ Goto(w, "exited")
    /\ UNCHANGED <<cur, target, poolVars, handleVars, sliceVars>>

-----------------------------------------------------------------------------
(* Running a slice: the same steps on a worker and on an overflow pthread   *)

\* cancel_requested is read once, before the slice.
CancelBeforeSlice(th) ==
    /\ pc[th] = "popped"
    /\ cancelRequested[cur[th]]
    /\ status' = [status EXCEPT ![cur[th]] = "cancelled"]
    /\ Goto(th, "resolve")
    /\ UNCHANGED <<cur, target, poolVars, cancelRequested, taker, hasOverflow,
                   promise, sliceVars>>

PassCancelCheck(th) ==
    /\ pc[th] = "popped"
    /\ ~cancelRequested[cur[th]]
    /\ Goto(th, "checked")
    /\ UNCHANGED <<cur, target, poolVars, handleVars, sliceVars>>

\* The first slice runs the spawned call; a continuation only hands back the
\* value that slice computed.
BeginSlice(th) ==
    /\ pc[th] = "checked"
    /\ LET t == cur[th]
       IN  /\ status' = [status EXCEPT ![t] = "running"]
           /\ runSlices' = [runSlices EXCEPT ![t] = @ + 1]
           /\ remaining' = [remaining EXCEPT ![t] = Budget]
           /\ yieldRequested' = [yieldRequested EXCEPT ![t] = FALSE]
           /\ Goto(th, IF resumable[t] THEN "resumed" ELSE "body")
    /\ UNCHANGED <<cur, target, poolVars, cancelRequested, taker, hasOverflow,
                   promise, resumable>>

\* ad_task_checkpoint, called from the evaluator's loops and from sleep.
CheckpointCancel(th) ==
    /\ pc[th] = "body"
    /\ cur[th] # NoTask
    /\ cancelRequested[cur[th]]
    /\ status' = [status EXCEPT ![cur[th]] = "failed"]
    /\ Goto(th, "resolve")
    /\ UNCHANGED <<cur, target, poolVars, cancelRequested, taker, hasOverflow,
                   promise, sliceVars>>

\* Broken on purpose: the budget is tested before it is spent.
CheckpointOverspend(th) ==
    /\ pc[th] = "body"
    /\ cur[th] # NoTask
    /\ LET t == cur[th]
       IN  /\ ~cancelRequested[t]
           /\ remaining' = [remaining EXCEPT ![t] = IF @ = 0 THEN Budget ELSE @ - 1]
           /\ yieldRequested' = [yieldRequested EXCEPT ![t] = @ \/ remaining[t] = 0]
    /\ UNCHANGED <<threadVars, poolVars, handleVars, resumable, runSlices>>

CheckpointSpend(th) ==
    /\ pc[th] = "body"
    /\ cur[th] # NoTask
    /\ LET t == cur[th]
       IN  /\ ~cancelRequested[t]
           /\ remaining' = [remaining EXCEPT ![t] = IF @ = 1 THEN Budget ELSE @ - 1]
           /\ yieldRequested' = [yieldRequested EXCEPT ![t] = @ \/ remaining[t] = 1]
    /\ UNCHANGED <<threadVars, poolVars, handleVars, resumable, runSlices>>

\* Broken on purpose: every exception is taken for a cancellation.
BodyThrowsCancelled(th) ==
    /\ pc[th] = "body"
    /\ cur[th] # NoTask
    /\ status' = [status EXCEPT ![cur[th]] = "cancelled"]
    /\ Goto(th, "resolve")
    /\ UNCHANGED <<cur, target, poolVars, cancelRequested, taker, hasOverflow,
                   promise, sliceVars>>

\* Any other C++ exception that escapes the spawned call.
BodyThrows(th) ==
    /\ pc[th] = "body"
    /\ cur[th] # NoTask
    /\ status' = [status EXCEPT ![cur[th]] = "failed"]
    /\ Goto(th, "resolve")
    /\ UNCHANGED <<cur, target, poolVars, cancelRequested, taker, hasOverflow,
                   promise, sliceVars>>

MustYield(th) == pc[th] = "body" /\ yieldRequested[cur[th]]

\* The slice returned Completed: finishTask stores the status first.
FinishTask(th) ==
    /\ pc[th] \in {"body", "resumed"}
    /\ cur[th] # NoTask
    /\ ~MustYield(th)
    /\ status' = [status EXCEPT ![cur[th]] = "completed"]
    /\ Goto(th, "resolve")
    /\ UNCHANGED <<cur, target, poolVars, cancelRequested, taker, hasOverflow,
                   promise, sliceVars>>

\* Broken on purpose: the continuation is dropped, the old slice queued again.
YieldAndRestart(w) ==
    /\ w \in Workers
    /\ MustYield(w)
    /\ status' = [status EXCEPT ![cur[w]] = "yielded"]
    /\ queue' = Append(queue, cur[w])
    /\ cur' = [cur EXCEPT ![w] = NoTask]
    /\ Goto(w, "notify")
    /\ UNCHANGED <<target, stop, cancelRequested, taker, hasOverflow, promise, sliceVars>>

\* The slice returned Yielded: a worker stores the continuation and queues
\* the task again, an overflow pthread goes round its own loop.
YieldToQueue(w) ==
    /\ w \in Workers
    /\ MustYield(w)
    /\ status' = [status EXCEPT ![cur[w]] = "yielded"]
    /\ resumable' = [resumable EXCEPT ![cur[w]] = TRUE]
    /\ queue' = Append(queue, cur[w])
    /\ cur' = [cur EXCEPT ![w] = NoTask]
    /\ Goto(w, "notify")
    /\ UNCHANGED <<target, stop, cancelRequested, taker, hasOverflow, promise,
                   runSlices, remaining, yieldRequested>>

YieldInPlace(t) ==
    /\ t \in Tasks
    /\ MustYield(t)
    /\ status' = [status EXCEPT ![t] = "yielded"]
    /\ resumable' = [resumable EXCEPT ![t] = TRUE]
    /\ Goto(t, "popped")
    /\ UNCHANGED <<cur, target, poolVars, cancelRequested, taker, hasOverflow,
                   promise, runSlices, remaining, yieldRequested>>

\* Broken on purpose: set_value on every path.
ResolveWithValue(th) ==
    /\ pc[th] = "resolve"
    /\ promise' = [promise EXCEPT ![cur[th]] = "value"]
    /\ cur' = [cur EXCEPT ![th] = NoTask]
    /\ Goto(th, IF th \in Workers THEN "top" ELSE "leaving")
    /\ UNCHANGED <<target, poolVars, status, cancelRequested, taker, hasOverflow,
                   sliceVars>>

\* set_value or set_exception; then the task leaves the thread's hands.
ResolvePromise(th) ==
    /\ pc[th] = "resolve"
    /\ promise' = [promise EXCEPT ![cur[th]] = OutcomeOf[status[cur[th]]]]
    /\ cur' = [cur EXCEPT ![th] = NoTask]
    /\ Goto(th, IF th \in Workers THEN "top" ELSE "leaving")
    /\ UNCHANGED <<target, poolVars, status, cancelRequested, taker, hasOverflow,
                   sliceVars>>

\* run_std_function_void frees the closure and returns.
LeaveThread(t) ==
    /\ pc[t] = "leaving"
    /\ Goto(t, "exited")
    /\ UNCHANGED <<cur, target, poolVars, handleVars, sliceVars>>

-----------------------------------------------------------------------------
(* ad_task_join_handle and task_cancel                                      *)

\* Broken on purpose: joined is stored without looking at its old value.
ClaimJoinAgain(th, t) ==
    /\ pc[th] = "body"
    /\ status[t] # "none"
    /\ taker' = [taker EXCEPT ![t] = th]
    /\ target' = [target EXCEPT ![th] = t]
    /\ Goto(th, "joinFuture")
    /\ UNCHANGED <<cur, poolVars, status, cancelRequested, hasOverflow, promise,
                   sliceVars>>

\* A second join finds joined already set, throws and changes nothing.
ClaimJoin(th, t) ==
    /\ pc[th] = "body"
    /\ status[t] # "none"
    /\ taker[t] = NoThread
    /\ taker' = [taker EXCEPT ![t] = th]
    /\ target' = [target EXCEPT ![th] = t]
    /\ Goto(th, "joinFuture")
    /\ UNCHANGED <<cur, poolVars, status, cancelRequested, hasOverflow, promise,
                   sliceVars>>

\* Broken on purpose: the pthread of a nested task is never joined.
FutureGetOnly(th) ==
    /\ pc[th] = "joinFuture"
    /\ promise[target[th]] # "none"
    /\ target' = [target EXCEPT ![th] = NoTask]
    /\ Goto(th, "body")
    /\ UNCHANGED <<cur, poolVars, handleVars, sliceVars>>

\* future.get() returns, or rethrows the task's error.
FutureGet(th) ==
    /\ pc[th] = "joinFuture"
    /\ promise[target[th]] # "none"
    /\ ~hasOverflow[target[th]]
    /\ target' = [target EXCEPT ![th] = NoTask]
    /\ Goto(th, "body")
    /\ UNCHANGED <<cur, poolVars, handleVars, sliceVars>>

FutureGetNested(th) ==
    /\ pc[th] = "joinFuture"
    /\ promise[target[th]] # "none"
    /\ hasOverflow[target[th]]
    /\ Goto(th, "joinThread")
    /\ UNCHANGED <<cur, target, poolVars, handleVars, sliceVars>>

\* pthread_join of the overflow pthread.
JoinOverflow(th) ==
    /\ pc[th] = "joinThread"
    /\ pc[target[th]] = "exited"
    /\ hasOverflow' = [hasOverflow EXCEPT ![target[th]] = FALSE]
    /\ target' = [target EXCEPT ![th] = NoTask]
    /\ Goto(th, "body")
    /\ UNCHANGED <<cur, poolVars, status, cancelRequested, taker, promise, sliceVars>>

\* Broken on purpose: task_cancel writes the status itself.
TaskCancelAtOnce(th, t) ==
    /\ pc[th] = "body"
    /\ status[t] # "none"
    /\ cancelRequested' = [cancelRequested EXCEPT ![t] = TRUE]
    /\ status' = [status EXCEPT ![t] = "cancelled"]
    /\ UNCHANGED <<threadVars, poolVars, taker, hasOverflow, promise, sliceVars>>

TaskCancel(th, t) ==
    /\ pc[th] = "body"
    /\ status[t] # "none"
    /\ cancelRequested' = [cancelRequested EXCEPT ![t] = TRUE]
    /\ UNCHANGED <<threadVars, poolVars, status, taker, hasOverflow, promise, sliceVars>>

-----------------------------------------------------------------------------
(* ~TaskScheduler, run by the interpreter's thread                          *)

SetStop ==
    /\ pc[Main] = "body"
    /\ stop' = TRUE
    /\ Goto(Main, "stopping")
    /\ UNCHANGED <<cur, target, queue, handleVars, sliceVars>>

\* Broken on purpose: stop_ is set and nobody is told.
NotifyNone ==
    /\ pc[Main] = "stopping"
    /\ Goto(Main, "draining")
    /\ UNCHANGED <<cur, target, poolVars, handleVars, sliceVars>>

NotifyAll ==
    /\ pc[Main] = "stopping"
    /\ pc' = [th \in Threads |->
                IF th = Main THEN "draining"
                ELSE IF pc[th] = "waiting" THEN "top" ELSE pc[th]]
    /\ UNCHANGED <<cur, target, poolVars, handleVars, sliceVars>>

JoinWorkers ==
    /\ pc[Main] = "draining"
    /\ \A w \in Workers : pc[w] = "exited"
    /\ Goto(Main, "destroyed")
    /\ UNCHANGED <<cur, target, poolVars, handleVars, sliceVars>>

-----------------------------------------------------------------------------
\* Steps the code takes on its own once it is there.
SystemStep(th) ==
    \/ \E w \in Workers : NotifyOne(th, w)
    \/ NotifyUnheard(th)
    \/ CancelBeforeSlice(th)
    \/ PassCancelCheck(th)
    \/ BeginSlice(th)
    \/ ResolvePromise(th)
    \/ LeaveThread(th)
    \/ FutureGet(th)
    \/ FutureGetNested(th)
    \/ JoinOverflow(th)

WorkerStep(w) ==
    \/ WaitForWork(w)
    \/ PopTask(w)
    \/ ExitLoop(w)
    \/ YieldToQueue(w)

\* Steps the adlang program chooses.
ProgramStep(th) ==
    \/ \E t \in Tasks :
          SubmitQueued(th, t) \/ ClaimJoin(th, t) \/ TaskCancel(th, t)
    \/ CheckpointCancel(th)
    \/ CheckpointSpend(th)
    \/ BodyThrows(th)
    \/ FinishTask(th)

Destructor == SetStop \/ NotifyAll \/ JoinWorkers

Next ==
    \/ \E th \in Threads : SystemStep(th) \/ ProgramStep(th)
    \/ \E w \in Workers :
          \/ WorkerStep(w)
          \/ SpuriousWakeup(w)
          \/ OverflowStartFails(w)
          \/ \E t \in Tasks : SubmitOverflow(w, t)
    \/ \E t \in Tasks : YieldInPlace(t)
    \/ Destructor

Spec == Init /\ [][Next]_vars

-----------------------------------------------------------------------------
(* Properties                                                               *)

TypeOK ==
    /\ pc \in [Threads -> Locations]
    /\ cur \in [Threads -> Tasks \union {NoTask}]
    /\ target \in [Threads -> Tasks \union {NoTask}]
    /\ queue \in Seq(Tasks)
    /\ stop \in BOOLEAN
    /\ status \in [Tasks -> Final \union {"none", "ready", "running", "yielded"}]
    /\ cancelRequested \in [Tasks -> BOOLEAN]
    /\ taker \in [Tasks -> Threads \union {NoThread}]
    /\ hasOverflow \in [Tasks -> BOOLEAN]
    /\ promise \in [Tasks -> {"none", "value", "error", "cancelled"}]
    /\ resumable \in [Tasks -> BOOLEAN]
    /\ runSlices \in [Tasks -> Nat]
    /\ remaining \in [Tasks -> 1..Budget]
    /\ yieldRequested \in [Tasks -> BOOLEAN]

Elements(q) == {q[i] : i \in 1..Len(q)}

NoRepeats(q) == \A i, j \in 1..Len(q) : q[i] = q[j] => i = j

Queued == Elements(queue)

Pending(t) == status[t] # "none" /\ promise[t] = "none"

\* A submitted task whose promise is still open is in exactly one place: once
\* in the queue, or in the hands of one thread.  Two holders would fulfil the
\* promise twice (an uncaught future_error); no holder would block the joiner
\* for ever.
OneHolder ==
    /\ NoRepeats(queue)
    /\ \A a, b \in Threads : cur[a] = cur[b] /\ cur[a] # NoTask => a = b
    /\ \A a \in Threads : cur[a] \notin Queued
    /\ \A t \in Tasks : Pending(t) <=> t \in Queued \/ \E a \in Threads : cur[a] = t

\* The spawned call runs in the first slice and never again, however often
\* the task yields, is queued again or changes threads.
BodyRunsOnce ==
    \A th \in Threads :
        pc[th] \in {"body", "notify", "joinFuture", "joinThread"} /\ cur[th] # NoTask
            => runSlices[cur[th]] = 1

\* When join returns, task_status already shows the status that goes with
\* the promise; before that the status is not yet believed final by anybody
\* who joined.
StatusBeforePromise ==
    \A t \in Tasks :
        promise[t] # "none" => status[t] \in Final /\ promise[t] = OutcomeOf[status[t]]

\* A final status is never overwritten, by a late slice, a yield or a cancel.
FinalStatusStays ==
    [][\A t \in Tasks : status[t] \in Final => status'[t] = status[t]]_vars

\* A joiner's thread is named by the handle for as long as it waits, so no two
\* threads wait on one future, and the pthread of a nested task is joined once.
OneJoiner ==
    /\ \A th \in Threads :
           pc[th] \in {"joinFuture", "joinThread"} => taker[target[th]] = th
    /\ \A t \in Tasks :
           taker[t] # NoThread /\ target[taker[t]] # t
               => promise[t] # "none" /\ ~hasOverflow[t] /\ pc[t] \in {"none", "exited"}

Sleeping == {w \in Workers : pc[w] = "waiting"}

Awake == {w \in Workers : pc[w] = "top"}

Notifying == {th \in Threads : pc[th] = "notify"}

\* No wakeup is lost although notify_one follows the unlock: while a worker
\* sleeps, every queued task has a notify on its way or a worker that will
\* look at the queue again.
NoLostWakeup ==
    Sleeping # {} =>
        /\ Len(queue) <= Cardinality(Notifying) + Cardinality(Awake)
        /\ stop => pc[Main] = "stopping"

\* Without nested tasks the destructor leaves nothing behind: every task the
\* program submitted, joined or not, has run or been cancelled.
DestructorDrains ==
    pc[Main] = "destroyed" /\ (\A t \in Tasks : pc[t] = "none")
        => \A t \in Tasks : ~Pending(t)

\* Where each task stands for the programmer.  Its result is taken once the
\* joiner has stopped waiting.
TaskPhase ==
    [t \in Tasks |->
        IF status[t] = "none" THEN "new"
        ELSE IF promise[t] = "none" THEN "pending"
        ELSE IF taker[t] = NoThread \/ target[taker[t]] = t THEN "resolved"
        ELSE "taken"]

Started == {t \in Tasks : runSlices[t] > 0}

AskedToCancel == {t \in Tasks : cancelRequested[t]}

Contract == INSTANCE TaskContract WITH
    phase <- TaskPhase, started <- Started, asked <- AskedToCancel, outcome <- promise

\* The scheduler keeps the promises of TaskContract: at most one execution,
\* one outcome and one delivery for each task, and a cancelled outcome only
\* for a task that somebody asked to cancel.
ImplementsContract == Contract!ContractSpec
=============================================================================
