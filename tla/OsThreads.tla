----------------------------- MODULE OsThreads ------------------------------
(***************************************************************************)
(* The __thread objects of cpp-v3 (thread_utils.cpp, thread_workers.cpp)    *)
(* and the end of ExecuteFile / ExecuteFileVM in repl.cpp, where threadPool *)
(* is joined and the heap is freed.  One interpreter thread runs the files  *)
(* named on the command line one after the other; every runAsync and        *)
(* runBlocking starts a std::thread, which runs the callback and then       *)
(* stores its result in the thread object.                                  *)
(*                                                                         *)
(* A program calls execute on a thread object before it runs it and runs it *)
(* before it awaits it: the constructor leaves internal_gc and              *)
(* internal_thread uninitialised.                                           *)
(***************************************************************************)
EXTENDS Naturals, Sequences

CONSTANTS Objects,   \* thread objects the files may create
          Runs,      \* std::threads that may be started
          NoObject,  \* a std::thread that was never started
          NoRun,     \* internal_thread before runAsync
          Files      \* how many files are executed

ASSUME ConstantsAssumption ==
    /\ Files \in Nat \ {0}
    /\ NoObject \notin Objects
    /\ NoRun \notin Runs

VARIABLES
    onVM,       \* the -vm flag: ExecuteFileVM rather than ExecuteFile
    at,         \* where the interpreter's thread is; "undefined" once it has
                \* used freed memory, after which nothing is said
    awaited,    \* the run it waits for
    file,       \* which file it executes
    entry,      \* the entry of threadPool it tears down
    alive,      \* thread objects on the heap
    internalGc, \* internal_gc of each thread object
    thread,     \* internal_thread of each thread object
    result,     \* the run whose result each thread object holds
    owner,      \* the thread object of each run
    life,       \* what each run does
    joinable,   \* runs whose std::thread has not been joined
    threadPool

heapVars == <<alive, internalGc, thread, result>>
runVars == <<owner, life, joinable>>
vars == <<onVM, at, awaited, file, entry, heapVars, runVars, threadPool>>

Init ==
    /\ onVM \in BOOLEAN
    /\ at = "program"
    /\ awaited = NoRun
    /\ file = 1
    /\ entry = 1
    /\ alive = {}
    /\ internalGc = [o \in Objects |-> "none"]
    /\ thread = [o \in Objects |-> NoRun]
    /\ result = [o \in Objects |-> NoRun]
    /\ owner = [r \in Runs |-> NoObject]
    /\ life = [r \in Runs |-> "none"]
    /\ joinable = {}
    /\ threadPool = <<>>

-----------------------------------------------------------------------------
(* The program                                                              *)

\* th = __thread(...); th.execute(f, ...): the callback's arguments are copied
\* into a collector of the object's own.
CreateAndExecute(o) ==
    /\ at = "program"
    /\ o \notin alive
    /\ internalGc[o] = "none"
    /\ alive' = alive \union {o}
    /\ internalGc' = [internalGc EXCEPT ![o] = "live"]
    /\ UNCHANGED <<onVM, at, awaited, file, entry, thread, result, runVars, threadPool>>

Start(o, r) ==
    /\ at = "program"
    /\ o \in alive
    /\ life[r] = "none"
    /\ owner' = [owner EXCEPT ![r] = o]
    /\ life' = [life EXCEPT ![r] = "running"]
    /\ joinable' = joinable \union {r}
    /\ thread' = [thread EXCEPT ![o] = r]

\* Broken on purpose: a started thread is not remembered in threadPool.
RunAsyncUnpooled(o, r) ==
    /\ Start(o, r)
    /\ UNCHANGED <<onVM, at, awaited, file, entry, alive, internalGc, result, threadPool>>

RunAsync(o, r) ==
    /\ Start(o, r)
    /\ threadPool' = Append(threadPool, o)
    /\ UNCHANGED <<onVM, at, awaited, file, entry, alive, internalGc, result>>

\* Started and joined in one call; the object goes to threadPool all the same.
RunBlocking(o, r) ==
    /\ Start(o, r)
    /\ threadPool' = Append(threadPool, o)
    /\ at' = "join"
    /\ awaited' = r
    /\ UNCHANGED <<onVM, file, entry, alive, internalGc, result>>

Await(o) ==
    /\ at = "program"
    /\ o \in alive
    /\ thread[o] \in joinable
    /\ at' = "join"
    /\ awaited' = thread[o]
    /\ UNCHANGED <<onVM, file, entry, heapVars, runVars, threadPool>>

\* Broken on purpose: the interpreter still waits for a thread it has joined.
JoinedStale ==
    /\ at = "join"
    /\ life[awaited] = "ended"
    /\ at' = "program"
    /\ joinable' = joinable \ {awaited}
    /\ UNCHANGED <<onVM, awaited, file, entry, heapVars, owner, life, threadPool>>

\* std::thread::join returns when the thread has ended.
Joined ==
    /\ at = "join"
    /\ life[awaited] = "ended"
    /\ at' = "program"
    /\ awaited' = NoRun
    /\ joinable' = joinable \ {awaited}
    /\ UNCHANGED <<onVM, file, entry, heapVars, owner, life, threadPool>>

-----------------------------------------------------------------------------
(* ad_worker_async and ad_worker_blocking                                   *)

\* Broken on purpose: the thread ends and forgets its callback's value.
EndWithoutResult(r) ==
    /\ life[r] = "running"
    /\ life' = [life EXCEPT ![r] = "ended"]
    /\ UNCHANGED <<onVM, at, awaited, file, entry, heapVars, owner, joinable, threadPool>>

\* The callback returns, its value is stored and the thread ends.
StoreResult(r) ==
    /\ life[r] = "running"
    /\ result' = [result EXCEPT ![owner[r]] = r]
    /\ life' = [life EXCEPT ![r] = "ended"]
    /\ UNCHANGED <<onVM, at, awaited, file, entry, alive, internalGc, thread, owner,
                   joinable, threadPool>>

-----------------------------------------------------------------------------
(* The end of ExecuteFile and ExecuteFileVM                                 *)

EndOfProgram ==
    /\ at = "program"
    /\ at' = "teardown"
    /\ entry' = 1
    /\ UNCHANGED <<onVM, awaited, file, heapVars, runVars, threadPool>>

\* The loop can read this entry: the object is there, and so is what its two
\* pointers lead to.  The VM looks at the pointers before it uses them.
Readable(o) == onVM \/ (o \in alive /\ internalGc[o] # "freed")


\* One entry of threadPool: its thread is joined, its collector freed.  The VM
\* clears both pointers, and passes over an entry it has cleared before.
TearDownEntry ==
    /\ at = "teardown"
    /\ entry <= Len(threadPool)
    /\ Readable(threadPool[entry])
    /\ LET o == threadPool[entry]
       IN  /\ thread[o] \in joinable => life[thread[o]] = "ended"
           /\ joinable' = joinable \ {thread[o]}
           /\ internalGc' = [internalGc EXCEPT ![o] = "freed"]
           /\ thread' = IF onVM THEN [thread EXCEPT ![o] = NoRun] ELSE thread
    /\ entry' = entry + 1
    /\ UNCHANGED <<onVM, at, awaited, file, alive, result, owner, life, threadPool>>

\* The evaluator's loop checks neither pointer and leaves threadPool as it is:
\* it uses and deletes what an earlier file, or an earlier entry of the same
\* object, has deleted.
TearDownFreed ==
    /\ at = "teardown"
    /\ entry <= Len(threadPool)
    /\ ~Readable(threadPool[entry])
    /\ at' = "undefined"
    /\ UNCHANGED <<onVM, awaited, file, entry, heapVars, runVars, threadPool>>

\* Broken on purpose: the VM does not clear threadPool either.
SweepHeapOnly ==
    /\ at = "teardown"
    /\ entry > Len(threadPool)
    /\ alive' = {}
    /\ at' = "swept"
    /\ UNCHANGED <<onVM, awaited, file, entry, internalGc, thread, result, runVars, threadPool>>

\* forceFreeObjects; the VM has cleared threadPool before it.
SweepHeap ==
    /\ at = "teardown"
    /\ entry > Len(threadPool)
    /\ alive' = {}
    /\ threadPool' = IF onVM THEN <<>> ELSE threadPool
    /\ at' = "swept"
    /\ UNCHANGED <<onVM, awaited, file, entry, internalGc, thread, result, runVars>>

NextFile ==
    /\ at = "swept"
    /\ at' = IF file < Files THEN "program" ELSE "finished"
    /\ file' = IF file < Files THEN file + 1 ELSE file
    /\ UNCHANGED <<onVM, awaited, entry, heapVars, runVars, threadPool>>

-----------------------------------------------------------------------------
Interpreter ==
    \/ \E o \in Objects :
          \/ CreateAndExecute(o)
          \/ \E r \in Runs : RunAsync(o, r) \/ RunBlocking(o, r)
          \/ Await(o)
    \/ Joined

Teardown == EndOfProgram \/ TearDownEntry \/ TearDownFreed \/ SweepHeap \/ NextFile

Next ==
    \/ Interpreter
    \/ Teardown
    \/ \E r \in Runs : StoreResult(r)

(* A callback returns, and the interpreter's thread goes on once the thread *)
(* it waits for has ended; a program may stop creating threads at any time. *)
Spec ==
    /\ Init
    /\ [][Next]_vars
    /\ \A r \in Runs : WF_vars(StoreResult(r))
    /\ WF_vars(Joined)
    /\ WF_vars(Teardown)

-----------------------------------------------------------------------------
(* Properties                                                               *)

ThreadsTypeOK ==
    /\ onVM \in BOOLEAN
    /\ at \in {"program", "join", "teardown", "swept", "finished", "undefined"}
    /\ awaited \in Runs \union {NoRun}
    /\ at = "join" <=> awaited # NoRun
    /\ file \in 1..Files
    /\ entry \in Nat \ {0}
    /\ alive \subseteq Objects
    /\ internalGc \in [Objects -> {"none", "live", "freed"}]
    /\ thread \in [Objects -> Runs \union {NoRun}]
    /\ result \in [Objects -> Runs \union {NoRun}]
    /\ owner \in [Runs -> Objects \union {NoObject}]
    /\ life \in [Runs -> {"none", "running", "ended"}]
    /\ joinable \subseteq Runs
    /\ threadPool \in Seq(Objects)

\* The object was run once: internal_thread has never been overwritten.
RunOnce(o) == \A r, s \in Runs : owner[r] = o /\ owner[s] = o => r = s

\* At least the callbacks of objects that are run once end before these go.
SingleRunsJoined ==
    \A r \in Runs : life[r] = "running" /\ RunOnce(owner[r]) =>
        owner[r] \in alive /\ internalGc[owner[r]] = "live"

\* After await (or runBlocking) an object that is run once holds the value of
\* the run that was waited for.
AwaitDelivers ==
    \A o \in alive :
        thread[o] # NoRun /\ thread[o] \notin joinable /\ RunOnce(o) => result[o] = thread[o]

\* The loop over threadPool meets live objects only, each with a collector
\* that has not been freed unless the pointer to it has been cleared: always on
\* the VM, in the first file on the evaluator, unless it ran an object twice.
TeardownMeetsLiveObjects ==
    at = "teardown" /\ entry <= Len(threadPool) =>
        LET o == threadPool[entry]
        IN  onVM \/ (file = 1 /\ RunOnce(o)) =>
                o \in alive /\ (internalGc[o] = "freed" => onVM /\ thread[o] = NoRun)

\* A callback still runs although its object or its collector is gone.
CallbackIsOrphaned ==
    \E r \in Runs :
        life[r] = "running" /\ ~(owner[r] \in alive /\ internalGc[owner[r]] = "live")

=============================================================================
