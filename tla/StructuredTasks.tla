-------------------------- MODULE StructuredTasks ---------------------------
(***************************************************************************)
(* TaskScheduler running programs of the shape the repository's tests use   *)
(* (parallel_delay_nested_spawn.ad): every task spawns its children, joins  *)
(* each of them in any order and returns.  Parent is the program's spawn    *)
(* tree.  For such a program every join should return and teardown should   *)
(* end; whether it does depends on who runs the nested tasks.               *)
(***************************************************************************)
EXTENDS TaskScheduler

CONSTANTS Parent,    \* the task, or Main, whose body spawns each task
          Looping    \* the tasks whose bodies reach checkpoints

ASSUME ParentAssumption == Parent \in [Tasks -> Tasks \union {Main}]

\* Every task is spawned by the program or by a task that is.
ASSUME RootedAssumption ==
    \A S \in SUBSET Tasks :
        (\A t \in Tasks : Parent[t] \in S \union {Main} => t \in S) => S = Tasks

ASSUME LoopingAssumption == Looping \subseteq Tasks

\* The code a thread is executing: the top-level program, or a task's body.
Doing(th) == IF th = Main THEN Main ELSE cur[th]

ChildOf(th, t) == Parent[t] = Doing(th) /\ pc[th] = "body"

ChildrenJoined(th) ==
    \A t \in Tasks : ChildOf(th, t) => taker[t] = th /\ target[th] # t

Spawn(th) ==
    \E t \in Tasks :
        ChildOf(th, t) /\ (SubmitQueued(th, t) \/ SubmitOverflow(th, t))

SpawnedAll(th) == \A t \in Tasks : ChildOf(th, t) => status[t] # "none"

JoinChild(th) ==
    /\ SpawnedAll(th)
    /\ \E t \in Tasks : ChildOf(th, t) /\ ClaimJoin(th, t)

Return(th) == ChildrenJoined(th) /\ FinishTask(th)

EndOfProgram == ChildrenJoined(Main) /\ SetStop

ThreadStep(th) ==
    \/ SystemStep(th)
    \/ Spawn(th)
    \/ JoinChild(th)
    \/ Return(th)

PoolStep(w) == WaitForWork(w) \/ PopTask(w) \/ ExitLoop(w)

StructuredNext ==
    \/ \E th \in Threads : ThreadStep(th) \/ (cur[th] \in Looping /\ CheckpointSpend(th))
    \/ \E w \in Workers :
          PoolStep(w) \/ SpuriousWakeup(w) \/ (ChildrenJoined(w) /\ YieldToQueue(w))
    \/ \E t \in Tasks : ChildrenJoined(t) /\ YieldInPlace(t)
    \/ EndOfProgram \/ NotifyAll \/ JoinWorkers

(* The operating system runs every thread that can run, and a task's body   *)
(* goes on to its next spawn, join or return.  Nothing is assumed of        *)
(* checkpoints or of spurious wakeups.                                      *)
Fairness ==
    /\ \A th \in Threads : WF_vars(ThreadStep(th))
    /\ \A w \in Workers : WF_vars(PoolStep(w))
    /\ \A w \in Workers : WF_vars(ChildrenJoined(w) /\ YieldToQueue(w))
    /\ \A t \in Tasks : WF_vars(ChildrenJoined(t) /\ YieldInPlace(t))
    /\ WF_vars(EndOfProgram \/ NotifyAll \/ JoinWorkers)

StructuredSpec == Init /\ [][StructuredNext]_vars /\ Fairness

-----------------------------------------------------------------------------
\* The program reaches its end, and the destructor gets all workers back.
ProgramEnds == <>(pc[Main] = "destroyed")

\* Whether a thread has a step to take without anybody's doing: it is at no
\* wait, what it waits for is there, or its body has a child to spawn or to
\* join, or an end that it may come to.
CanGoOn(th) ==
    \/ pc[th] \in {"top", "popped", "checked", "resumed", "notify", "resolve", "leaving", "stopping"}
    \/ pc[th] = "body" /\ \E t \in Tasks : ChildOf(th, t) /\ status[t] = "none"
    \/ pc[th] = "body" /\ \E t \in Tasks : ChildOf(th, t) /\ status[t] # "none" /\ taker[t] = NoThread
    \/ pc[th] = "body" /\ ChildrenJoined(th)
    \/ pc[th] = "joinFuture" /\ promise[target[th]] # "none"
    \/ pc[th] = "joinThread" /\ pc[target[th]] = "exited"
    \/ pc[th] = "draining" /\ \A w \in Workers : pc[w] = "exited"

\* Before its end the program never comes to a state where every thread waits
\* for another one, asleep in the pool or in a join.
NeverStuck == pc[Main] = "destroyed" \/ \E th \in Threads : CanGoOn(th)

\* What teardown of a structured program leaves: every task has a value,
\* every pthread of a nested task has been joined.
NothingLeftBehind ==
    pc[Main] = "destroyed" =>
        \A t \in Tasks : promise[t] = "value" /\ pc[t] \in {"none", "exited"} /\ ~hasOverflow[t]
=============================================================================
