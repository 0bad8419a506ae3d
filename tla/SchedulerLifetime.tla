------------------------- MODULE SchedulerLifetime --------------------------
(***************************************************************************)
(* Who keeps the TaskScheduler of a Repl alive, and which thread runs its   *)
(* destructor.  The Repl, its evaluator and the global hold a shared_ptr;   *)
(* so does the run_slice of every task the evaluator spawns (Capturing),    *)
(* until the slice is replaced by a continuation or the task is dropped.    *)
(* A task the VM spawns captures no scheduler, but the call of spawn holds  *)
(* a copy of the global while it submits.  What a pool's worker spawns runs *)
(* on a pthread of its own, which the destructor does not wait for.         *)
(*                                                                         *)
(* TaskScheduler.tla shows what the pool does while it lives; here a task's *)
(* body does nothing but spawn and join, and what counts is which memory    *)
(* each thread touches next.                                               *)
(***************************************************************************)
EXTENDS Naturals, Sequences, FiniteSets

CONSTANTS Tasks,      \* the tasks a program may spawn
          Capturing,  \* those whose run_slice holds a shared_ptr: evaluator's
          Workers,    \* the pool's threads
          Main,       \* the thread that runs main()
          NoTask,     \* no task in a worker's local variable
          NoThread    \* nobody has destroyed the scheduler, or spawned the task

ASSUME CapturingAssumption == Capturing \subseteq Tasks

ASSUME ThreadsAssumption ==
    /\ Main \notin Workers \union Tasks
    /\ NoThread \notin Workers \union Tasks \union {Main}
    /\ NoTask \notin Tasks
    /\ Tasks \intersect Workers = {}
    /\ (Tasks \union Workers) \intersect {"repl", "evaluator", "global"} = {}

VARIABLES
    owners,     \* who holds a shared_ptr to the scheduler
    pc,         \* where each thread is
    cur,        \* workerLoop's local variable task
    queue,      \* queue_
    stop,       \* stop_
    freed,      \* the scheduler's memory has been released
    destroyer,  \* the thread whose reset() ran the destructor
    parent,     \* the task, or main(), that spawned each task
    fresh,      \* tasks that still have their first run_slice
    resolved,   \* tasks whose promise has been fulfilled
    joined,     \* tasks that whoever spawned them has joined
    loose       \* auxiliary: tasks that a task spawned and left unjoined at
                \* its own end or at the program's

vars == <<owners, pc, cur, queue, stop, freed, destroyer, parent, fresh, resolved, joined,
          loose>>

\* An overflow pthread has the name of its task.
Threads == Workers \union Tasks \union {Main}

Init ==
    /\ owners = {"repl", "evaluator", "global"}
    /\ pc = [th \in Threads |->
                IF th = Main THEN "program" ELSE IF th \in Workers THEN "top" ELSE "none"]
    /\ cur = [w \in Workers |-> NoTask]
    /\ queue = <<>>
    /\ stop = FALSE
    /\ freed = FALSE
    /\ destroyer = NoThread
    /\ parent = [t \in Tasks |-> NoThread]
    /\ fresh = Tasks
    /\ resolved = {}
    /\ joined = {}
    /\ loose = {}

Submitted == {t \in Tasks : parent[t] # NoThread}

\* What a thread runs, and the tasks that a task or main() has to join.
Body(th) == IF th \in Workers THEN cur[th] ELSE th
Unjoined(body) == {t \in Tasks : parent[t] = body} \ joined

\* The program's own code runs on th.  An evaluator's slice yields only when
\* its body has ended.
Runs(th) ==
    IF th = Main THEN pc[Main] = "program" ELSE pc[th] = "slice" /\ Body(th) \in fresh

\* A shared_ptr goes away.  If it was the last one, its thread goes on in the
\* destructor instead of at place l.
Drop(th, owner, l) ==
    /\ owners' = owners \ {owner}
    /\ IF owners = {owner}
       THEN /\ destroyer' = th
            /\ pc' = [pc EXCEPT ![th] = "destructor"]
       ELSE /\ destroyer' = destroyer
            /\ pc' = [pc EXCEPT ![th] = l]

-----------------------------------------------------------------------------
(* spawn and join                                                           *)

\* Broken on purpose: the spawned slice captures the evaluator alone.
SubmitUnowned(t) ==
    /\ pc[Main] = "program"
    /\ t \notin Submitted
    /\ parent' = [parent EXCEPT ![t] = Main]
    /\ queue' = Append(queue, t)
    /\ UNCHANGED <<owners, pc, cur, stop, freed, destroyer, fresh, resolved, joined, loose>>

\* Broken on purpose: the VM's slice captures the scheduler too.
SubmitOwned(t) ==
    /\ pc[Main] = "program"
    /\ t \notin Submitted
    /\ parent' = [parent EXCEPT ![t] = Main]
    /\ queue' = Append(queue, t)
    /\ owners' = owners \union {t}
    /\ UNCHANGED <<pc, cur, stop, freed, destroyer, fresh, resolved, joined, loose>>

\* The top-level program spawns, on either engine.
Submit(t) ==
    /\ pc[Main] = "program"
    /\ t \notin Submitted
    /\ parent' = [parent EXCEPT ![t] = Main]
    /\ queue' = Append(queue, t)
    /\ owners' = IF t \in Capturing THEN owners \union {t} ELSE owners
    /\ UNCHANGED <<pc, cur, stop, freed, destroyer, fresh, resolved, joined, loose>>

\* A worker gives the task t a pthread, any other thread queues it; the body
\* goes on at place l.
SubmitFrom(th, t, l) ==
    /\ th # Main
    /\ Runs(th)
    /\ t \notin Submitted
    /\ parent' = [parent EXCEPT ![t] = Body(th)]
    /\ IF th \in Workers
       THEN pc' = [pc EXCEPT ![th] = l, ![t] = "begin"] /\ queue' = queue
       ELSE pc' = [pc EXCEPT ![th] = l] /\ queue' = Append(queue, t)
    /\ UNCHANGED <<cur, stop, freed, destroyer, fresh, resolved, joined, loose>>

\* An evaluator's body spawns through the shared_ptr that its slice captured.
SpawnCall(th, t) ==
    /\ Body(th) \in Capturing \intersect owners
    /\ t \in Capturing
    /\ SubmitFrom(th, t, "slice")
    /\ owners' = owners \union {t}

\* A VM's body spawns through a copy of the global.  (When that is null it
\* starts a thread that has nothing to do with the scheduler.)
ExecuteSpawn(th, t) ==
    /\ "global" \in owners
    /\ Body(th) \notin Capturing
    /\ t \notin Capturing
    /\ SubmitFrom(th, t, "spawned")
    /\ owners' = owners \union {th}

EndSpawn(th) ==
    /\ pc[th] = "spawned"
    /\ Drop(th, th, "slice")
    /\ UNCHANGED <<cur, queue, stop, freed, parent, fresh, resolved, joined, loose>>

\* Broken on purpose: join does not wait for the promise.
JoinAtOnce(th, t) ==
    /\ Runs(th)
    /\ t \in Unjoined(Body(th))
    /\ joined' = joined \union {t}
    /\ UNCHANGED <<owners, pc, cur, queue, stop, freed, destroyer, parent, fresh, resolved, loose>>

\* join waits for the promise and for the pthread, if there is one.
Join(th, t) ==
    /\ Runs(th)
    /\ t \in Unjoined(Body(th))
    /\ t \in resolved
    /\ pc[t] \in {"none", "ended"}
    /\ joined' = joined \union {t}
    /\ UNCHANGED <<owners, pc, cur, queue, stop, freed, destroyer, parent, fresh, resolved, loose>>

-----------------------------------------------------------------------------
(* ~Repl                                                                    *)

\* What tasks have spawned and not joined, or are just spawning, is loose.
ClearGlobal ==
    /\ pc[Main] = "program"
    /\ Drop(Main, "global", "evaluatorReset")
    /\ loose' = loose \union (UNION {Unjoined(t) : t \in Tasks})
                     \union {t \in Tasks : \E th \in Threads : pc[th] = "spawned" /\ Body(th) = t}
    /\ UNCHANGED <<cur, queue, stop, freed, parent, fresh, resolved, joined>>

ClearEvaluator ==
    /\ pc[Main] = "evaluatorReset"
    /\ Drop(Main, "evaluator", "replReset")
    /\ UNCHANGED <<cur, queue, stop, freed, parent, fresh, resolved, joined, loose>>

ClearRepl ==
    /\ pc[Main] = "replReset"
    /\ Drop(Main, "repl", "returned")
    /\ UNCHANGED <<cur, queue, stop, freed, parent, fresh, resolved, joined, loose>>

-----------------------------------------------------------------------------
(* workerLoop, and the loop of an overflow pthread                          *)

PopTask(w) ==
    /\ pc[w] = "top"
    /\ queue # <<>>
    /\ cur' = [cur EXCEPT ![w] = Head(queue)]
    /\ queue' = Tail(queue)
    /\ pc' = [pc EXCEPT ![w] = "slice"]
    /\ UNCHANGED <<owners, stop, freed, destroyer, parent, fresh, resolved, joined, loose>>

ExitLoop(w) ==
    /\ pc[w] = "top"
    /\ stop
    /\ queue = <<>>
    /\ pc' = [pc EXCEPT ![w] = "exited"]
    /\ UNCHANGED <<owners, cur, queue, stop, freed, destroyer, parent, fresh, resolved, joined,
                   loose>>

\* A pthread reads quantum_budget_ of the scheduler and calls run_slice.
BeginSlice(t) ==
    /\ pc[t] = "begin"
    /\ pc' = [pc EXCEPT ![t] = "slice"]
    /\ UNCHANGED <<owners, cur, queue, stop, freed, destroyer, parent, fresh, resolved, joined,
                   loose>>

\* The slice ends, or the task is cancelled before it, and the promise is
\* fulfilled; the task is still held, by the local variable or the pthread's
\* lambda.
Resolve(th) ==
    /\ pc[th] \in {"begin", "slice"}
    /\ resolved' = resolved \union {Body(th)}
    /\ loose' = loose \union Unjoined(Body(th))
    /\ pc' = [pc EXCEPT ![th] = "release"]
    /\ UNCHANGED <<owners, cur, queue, stop, freed, destroyer, parent, fresh, joined>>

\* The slice yields: run_slice is overwritten, and with it goes its
\* shared_ptr.  Only the evaluator's slices yield, when the body is done.
ReplaceSlice(th) ==
    /\ pc[th] = "slice"
    /\ Body(th) \in Capturing \intersect fresh
    /\ fresh' = fresh \ {Body(th)}
    /\ loose' = loose \union Unjoined(Body(th))
    /\ Drop(th, Body(th), IF th \in Workers THEN "requeue" ELSE "begin")
    /\ UNCHANGED <<cur, queue, stop, freed, parent, resolved, joined>>

Requeue(w) ==
    /\ pc[w] = "requeue"
    /\ queue' = Append(queue, cur[w])
    /\ cur' = [cur EXCEPT ![w] = NoTask]
    /\ pc' = [pc EXCEPT ![w] = "top"]
    /\ UNCHANGED <<owners, stop, freed, destroyer, parent, fresh, resolved, joined, loose>>

\* The local variable goes out of scope at the end of the loop's body; the
\* pthread's lambda is deleted.
Release(th) ==
    /\ pc[th] = "release"
    /\ cur' = [w \in Workers |-> IF w = th THEN NoTask ELSE cur[w]]
    /\ LET l == IF th \in Workers THEN "top" ELSE "ended"
       IN  IF Body(th) \in owners
           THEN Drop(th, Body(th), l)
           ELSE pc' = [pc EXCEPT ![th] = l] /\ UNCHANGED <<owners, destroyer>>
    /\ UNCHANGED <<queue, stop, freed, parent, fresh, resolved, joined, loose>>

-----------------------------------------------------------------------------
(* ~TaskScheduler, on whichever thread dropped the last shared_ptr          *)

SetStop(th) ==
    /\ pc[th] = "destructor"
    /\ stop' = TRUE
    /\ pc' = [pc EXCEPT ![th] = "joinWorkers"]
    /\ UNCHANGED <<owners, cur, queue, freed, destroyer, parent, fresh, resolved, joined, loose>>

\* Where a thread goes on after the destructor: main() returns; the others
\* have let a task go, or are in a spawn of its body, or in the code that
\* replaced its slice.
AfterDestructor(th) ==
    CASE th = Main -> "returned"
      [] th \in Workers ->
            IF cur[th] = NoTask THEN "top" ELSE IF cur[th] \in fresh THEN "slice" ELSE "requeue"
      [] OTHER ->
            IF th \in resolved THEN "ended" ELSE IF th \in fresh THEN "slice" ELSE "begin"

\* Broken on purpose: the workers are not joined.
FreeAtOnce(th) ==
    /\ pc[th] = "joinWorkers"
    /\ freed' = TRUE
    /\ pc' = [pc EXCEPT ![th] = AfterDestructor(th)]
    /\ UNCHANGED <<owners, cur, queue, stop, destroyer, parent, fresh, resolved, joined, loose>>

\* pthread_join of the calling thread itself fails at once (EDEADLK) and the
\* code does not look at the result; the other workers are waited for.
JoinWorkersAndFree(th) ==
    /\ pc[th] = "joinWorkers"
    /\ \A w \in Workers \ {th} : pc[w] = "exited"
    /\ freed' = TRUE
    /\ pc' = [pc EXCEPT ![th] = AfterDestructor(th)]
    /\ UNCHANGED <<owners, cur, queue, stop, destroyer, parent, fresh, resolved, joined, loose>>

-----------------------------------------------------------------------------
Next ==
    \/ \E t \in Tasks : Submit(t) \/ BeginSlice(t)
    \/ \E th \in Threads, t \in Tasks : SpawnCall(th, t) \/ ExecuteSpawn(th, t) \/ Join(th, t)
    \/ ClearGlobal
    \/ ClearEvaluator
    \/ ClearRepl
    \/ \E w \in Workers : PopTask(w) \/ ExitLoop(w) \/ Requeue(w)
    \/ \E th \in Workers \union Tasks :
          EndSpawn(th) \/ Resolve(th) \/ ReplaceSlice(th) \/ Release(th)
    \/ \E th \in Threads : SetStop(th) \/ JoinWorkersAndFree(th)

Spec == Init /\ [][Next]_vars

-----------------------------------------------------------------------------
(* Properties                                                               *)

Unfinished == Submitted \ resolved

\* The variables' types.  Who has joined a task has its result, and its pthread
\* is over; loose is what its name says.
LifetimeTypeOK ==
    /\ owners \subseteq {"repl", "evaluator", "global"} \union Tasks \union Workers
    /\ pc \in [Threads -> {"program", "evaluatorReset", "replReset", "returned", "none", "top",
                           "begin", "slice", "spawned", "release", "requeue", "exited", "ended",
                           "destructor", "joinWorkers"}]
    /\ cur \in [Workers -> Tasks \union {NoTask}]
    /\ queue \in Seq(Tasks)
    /\ stop \in BOOLEAN
    /\ freed \in BOOLEAN
    /\ destroyer \in Threads \union {NoThread}
    /\ parent \in [Tasks -> Tasks \union {Main, NoThread}]
    /\ fresh \subseteq Tasks
    /\ resolved \subseteq Tasks
    /\ joined \subseteq resolved
    /\ loose \subseteq Tasks
    /\ \A t \in joined : pc[t] \in {"none", "ended"}

\* A task of the evaluator that has not had its first slice keeps the whole
\* pool alive: the destructor never finds one in the queue, or on a pthread.
FirstSlicesKeepPool ==
    destroyer # NoThread => Capturing \intersect fresh \intersect Unfinished = {}

\* The program has spawned tasks of the VM only, or none, and whatever a task
\* spawned it joined before it ended and before the program did.
Orderly == Submitted \intersect Capturing = {} /\ loose = {}

\* A pool that ran an orderly VM program is destroyed on the interpreter's
\* thread, as ~Repl expects when it resets its shared_ptr.
DestroyedByMain == Orderly => destroyer \in {NoThread, Main}

\* At least a program that joined every task it spawned has its pool torn down
\* by ~Repl.
JoinedThenDestroyedByMain == Submitted \subseteq joined => destroyer \in {NoThread, Main}

\* With an orderly VM program no thread is about to lock mu_, to push on queue_
\* or to read quantum_budget_ of a scheduler that is gone, the pthreads that the
\* destructor does not join included.
NoUseAfterFree ==
    Orderly /\ freed =>
        \A th \in Workers \union Tasks :
            pc[th] \notin {"top", "requeue", "release", "begin", "spawned"}

\* Once main() has returned from ~Repl no task of an orderly VM program is
\* running, on the pool or on a pthread.
NothingRunsAfterRepl ==
    Orderly /\ pc[Main] = "returned" => \A th \in Workers \union Tasks : pc[th] # "slice"
=============================================================================
