----------------------------- MODULE AsyncCalls -----------------------------
(***************************************************************************)
(* Calls of async functions in cpp-v3.  A call of an async function starts  *)
(* a task, unless a thread-local flag tells that the thread is already      *)
(* inside the task of such a call: then the body runs inline and the call   *)
(* has a plain value.  The evaluator keeps one flag for functions and one   *)
(* for methods and sets it for the tasks of async calls only; the VM sets   *)
(* its single flag for every task.  The flag is set before the body and     *)
(* cleared after it, but not when an exception leaves the body.             *)
(*                                                                         *)
(* The program is a tree of calls.  A body makes its calls in any order and *)
(* waits for the tasks it has got before it ends; the top-level program      *)
(* never ends here (SchedulerLifetime has its end).                         *)
(***************************************************************************)
EXTENDS Naturals, Sequences

CONSTANTS Calls,     \* the calls the program makes
          Root,      \* the top-level program
          Caller,    \* the call, or Root, whose body makes each call
          Kind,      \* "plain", "async" (of an async function) or "spawn"
          Sort,      \* whether the callee is a "function" or a "method"
          Throwing,  \* calls whose bodies may end in an exception
          OnVM,      \* the VM rather than the evaluator
          Workers,   \* the pool's threads
          Main       \* the interpreter's thread

Sorts == {"function", "method"}

ASSUME ProgramAssumption ==
    /\ Caller \in [Calls -> Calls \union {Root}]
    /\ Kind \in [Calls -> {"plain", "async", "spawn"}]
    /\ Sort \in [Calls -> Sorts]
    /\ Throwing \subseteq Calls
    /\ OnVM \in BOOLEAN

ASSUME NamesAssumption ==
    /\ Root \notin Calls
    /\ Calls \intersect Workers = {}
    /\ Main \notin Calls \union Workers

\* A task spawned by a worker runs on a pthread of its own.
Threads == {Main} \union Workers \union Calls

VARIABLES
    stack,     \* the bodies each thread is in, the innermost last
    flags,     \* the thread-local flags that are set on each thread
    outcome,   \* what each call expression gave: an inline value or a task
    queue,     \* tasks in the scheduler's queue
    ended,     \* calls whose body has ended; a task's promise is fulfilled
    threw      \* auxiliary: threads that an exception has gone through

vars == <<stack, flags, outcome, queue, ended, threw>>

Init ==
    /\ stack = [th \in Threads |-> IF th = Main THEN <<Root>> ELSE <<>>]
    /\ flags = [th \in Threads |-> {}]
    /\ outcome = [c \in Calls |-> "none"]
    /\ queue = <<>>
    /\ ended = {}
    /\ threw = {}

Current(th) == stack[th][Len(stack[th])]

\* Broken on purpose: the evaluator sets the flag in the tasks of spawn too.
FlagsOfEveryTask(c) == IF OnVM THEN Sorts ELSE {Sort[c]}

\* The flags a task's thread sets around the call it was made for.
EntryFlags(c) ==
    IF OnVM THEN Sorts ELSE IF Kind[c] = "async" THEN {Sort[c]} ELSE {}

Inline(th, c) ==
    \/ Kind[c] = "plain"
    \/ Kind[c] = "async" /\ Sort[c] \in flags[th]

\* Thread th is about to make call c.
Calling(th, c) ==
    /\ Len(stack[th]) > 0
    /\ Caller[c] = Current(th)
    /\ outcome[c] = "none"

CallInline(th, c) ==
    /\ Calling(th, c)
    /\ Inline(th, c)
    /\ outcome' = [outcome EXCEPT ![c] = "inline"]
    /\ stack' = [stack EXCEPT ![th] = Append(@, c)]
    /\ UNCHANGED <<flags, queue, ended, threw>>

\* Only a worker starts a pthread for the task; any other thread queues it.
CallTask(th, c) ==
    /\ Calling(th, c)
    /\ ~Inline(th, c)
    /\ outcome' = [outcome EXCEPT ![c] = "task"]
    /\ IF th \in Workers
       THEN /\ stack' = [stack EXCEPT ![c] = <<c>>]
            /\ flags' = [flags EXCEPT ![c] = EntryFlags(c)]
            /\ queue' = queue
       ELSE /\ queue' = Append(queue, c)
            /\ UNCHANGED <<stack, flags>>
    /\ UNCHANGED <<ended, threw>>

\* Broken on purpose: the task is taken and stays in the queue.
PeekTask(w) ==
    /\ stack[w] = <<>>
    /\ queue # <<>>
    /\ stack' = [stack EXCEPT ![w] = <<Head(queue)>>]
    /\ flags' = [flags EXCEPT ![w] = @ \union EntryFlags(Head(queue))]
    /\ UNCHANGED <<outcome, queue, ended, threw>>

TakeTask(w) ==
    /\ stack[w] = <<>>
    /\ queue # <<>>
    /\ stack' = [stack EXCEPT ![w] = <<Head(queue)>>]
    /\ flags' = [flags EXCEPT ![w] = @ \union EntryFlags(Head(queue))]
    /\ queue' = Tail(queue)
    /\ UNCHANGED <<outcome, ended, threw>>

\* The innermost body has made all its calls and they have ended.
BodyMade(th) ==
    /\ Len(stack[th]) > 0
    /\ \A c \in Calls : Caller[c] = Current(th) => c \in ended

\* Broken on purpose: the flags stay set when the body has returned.
ReturnFlagged(th) ==
    /\ BodyMade(th)
    /\ Current(th) # Root
    /\ ended' = ended \union {Current(th)}
    /\ stack' = [stack EXCEPT ![th] = SubSeq(@, 1, Len(@) - 1)]
    /\ UNCHANGED <<flags, outcome, queue, threw>>

\* A body returns; the outermost one is a task's, whose thread clears the flags
\* it set before it.
Return(th) ==
    /\ BodyMade(th)
    /\ Current(th) # Root
    /\ ended' = ended \union {Current(th)}
    /\ stack' = [stack EXCEPT ![th] = SubSeq(@, 1, Len(@) - 1)]
    /\ flags' = IF Len(stack[th]) = 1
                THEN [flags EXCEPT ![th] = @ \ EntryFlags(Current(th))]
                ELSE flags
    /\ UNCHANGED <<outcome, queue, threw>>

\* Broken on purpose: a flag left behind is seen by every thread (no
\* thread_local).
ThrowShared(th) ==
    /\ BodyMade(th)
    /\ Current(th) \in Throwing
    /\ th # Main
    /\ stack' = [stack EXCEPT ![th] = <<>>]
    /\ flags' = [x \in Threads |-> flags[x] \union flags[th]]
    /\ ended' = ended \union {stack[th][i] : i \in DOMAIN stack[th]}
    /\ threw' = threw \union {th}
    /\ UNCHANGED <<outcome, queue>>

\* An exception (AdTaskCancelled of a checkpoint, for one) unwinds all of the
\* task's bodies; failTask fulfils the promise, and the lines that clear the
\* flags are not reached.
Throw(th) ==
    /\ BodyMade(th)
    /\ Current(th) \in Throwing
    /\ th # Main
    /\ stack' = [stack EXCEPT ![th] = <<>>]
    /\ ended' = ended \union {stack[th][i] : i \in DOMAIN stack[th]}
    /\ threw' = threw \union {th}
    /\ UNCHANGED <<flags, outcome, queue>>

Next ==
    \/ \E th \in Threads :
          \/ \E c \in Calls : CallInline(th, c) \/ CallTask(th, c)
          \/ Return(th)
          \/ Throw(th)
    \/ \E w \in Workers : TakeTask(w)

Spec == Init /\ [][Next]_vars

-----------------------------------------------------------------------------
(* Properties                                                               *)

\* The variables' types; a queued task is not running and has not ended.
AsyncTypeOK ==
    /\ stack \in [Threads -> Seq(Calls \union {Root})]
    /\ flags \in [Threads -> SUBSET Sorts]
    /\ outcome \in [Calls -> {"none", "inline", "task"}]
    /\ queue \in Seq(Calls)
    /\ ended \subseteq Calls
    /\ threw \subseteq Threads
    /\ \A i \in DOMAIN queue :
          /\ queue[i] \notin ended
          /\ \A th \in Threads : \A j \in DOMAIN stack[th] : stack[th][j] # queue[i]

\* As long as no exception has left a task's body, the caller may await what an
\* async call gives it: a task and not a plain value.
AwaitGetsTask ==
    threw = {} =>
        \A c \in Calls : Kind[c] = "async" /\ outcome[c] # "none" => outcome[c] = "task"

\* The flags of a thread that no exception went through are those of the task
\* it runs, and none while it is idle: how an async call behaves does not depend
\* on what its worker ran before.
FlagsOfCurrentTask ==
    \A th \in Threads \ threw :
        flags[th] = IF stack[th] = <<>> \/ th = Main THEN {} ELSE EntryFlags(stack[th][1])

\* Whatever happened in tasks before, the top-level program gets a task from
\* each of its async calls.
TopLevelGetsTasks ==
    \A c \in Calls :
        Caller[c] = Root /\ Kind[c] = "async" /\ outcome[c] # "none" => outcome[c] = "task"
=============================================================================
