-------------------------- MODULE AsyncCallsProofs --------------------------
(***************************************************************************)
(* What AsyncCalls guarantees for any program, number of workers and        *)
(* choice of bodies that throw.                                             *)
(***************************************************************************)
EXTENDS AsyncCalls, TLAPS

\* The types of the variables alone.
Types ==
    /\ stack \in [Threads -> Seq(Calls \union {Root})]
    /\ flags \in [Threads -> SUBSET Sorts]
    /\ outcome \in [Calls -> {"none", "inline", "task"}]
    /\ queue \in Seq(Calls)
    /\ ended \subseteq Calls
    /\ threw \subseteq Threads

\* A body that runs, or that has ended, belongs to a call that was made.
RunningMade ==
    \A th \in Threads : \A j \in DOMAIN stack[th] :
        stack[th][j] # Root => outcome[stack[th][j]] # "none"

EndedMade == \A c \in ended : outcome[c] # "none"

\* The queue holds each task at most once, and none that runs or has ended.
Queued ==
    /\ \A i \in DOMAIN queue : outcome[queue[i]] = "task" /\ queue[i] \notin ended
    /\ \A i, j \in DOMAIN queue : queue[i] = queue[j] => i = j
    /\ \A i \in DOMAIN queue : \A th \in Threads : \A j \in DOMAIN stack[th] :
          stack[th][j] # queue[i]

\* The inductive strengthening of AsyncTypeOK.
AsyncInv == Types /\ RunningMade /\ EndedMade /\ Queued

\* Main runs the top-level program, never a task; Root is nobody else's.
MainIdleFlags == flags[Main] = {}

RootOnMain ==
    \A th \in Threads : th # Main => \A j \in DOMAIN stack[th] : stack[th][j] # Root

-----------------------------------------------------------------------------
\* The threads that a worker, a call or Main names, and the calls a step adds.
LEMMA ThreadNames ==
    /\ Main \in Threads
    /\ \A w \in Workers : w \in Threads /\ w # Main
    /\ \A c \in Calls : c \in Threads /\ c # Main /\ c \notin Workers /\ c # Root
BY NamesAssumption DEF Threads

\* The flags of a task are sorts.
LEMMA EntryFlagsSorts == ASSUME NEW c \in Calls PROVE EntryFlags(c) \subseteq Sorts
BY ProgramAssumption DEF EntryFlags, Sorts

\* The innermost body of a thread is one of its bodies.
LEMMA CurrentRuns ==
    ASSUME Types, NEW th \in Threads, Len(stack[th]) > 0
    PROVE  /\ Len(stack[th]) \in DOMAIN stack[th]
           /\ Current(th) = stack[th][Len(stack[th])]
           /\ Current(th) \in Calls \union {Root}
BY DEF Types, Current

\* All but the last of at least two bodies is some, with the same first one.
LEMMA ButLast ==
    ASSUME NEW S, NEW s \in Seq(S), Len(s) > 0, Len(s) # 1
    PROVE  /\ s # <<>>
           /\ SubSeq(s, 1, Len(s) - 1) # <<>>
           /\ SubSeq(s, 1, Len(s) - 1)[1] = s[1]
<1>1. Len(s) \in Nat
  OBVIOUS
<1>2. Len(s) - 1 \in Nat /\ Len(s) - 1 >= 1
  <2>1. \A n \in Nat : n > 0 /\ n # 1 => n - 1 \in Nat /\ n - 1 >= 1
    OBVIOUS
  <2> QED
    BY <1>1, <2>1
<1>3. Len(SubSeq(s, 1, Len(s) - 1)) = Len(s) - 1 /\ SubSeq(s, 1, Len(s) - 1)[1] = s[1]
  BY <1>2
<1> QED
  BY <1>2, <1>3

-----------------------------------------------------------------------------
\* The strengthening holds at the start.
LEMMA AsyncInit == Init => AsyncInv
<1> SUFFICES ASSUME Init PROVE AsyncInv
  OBVIOUS
<1>1. Types
  <2>1. <<Root>> \in Seq(Calls \union {Root}) /\ <<>> \in Seq(Calls \union {Root})
    OBVIOUS
  <2>2. stack \in [Threads -> Seq(Calls \union {Root})]
    BY <2>1 DEF Init
  <2>3. <<>> \in Seq(Calls) /\ {} \in SUBSET Sorts
    OBVIOUS
  <2> QED
    BY <2>2, <2>3 DEF Init, Types
<1>2. RunningMade
  BY ThreadNames DEF Init, RunningMade
<1>3. EndedMade /\ Queued
  BY DEF Init, EndedMade, Queued
<1> QED
  BY <1>1, <1>2, <1>3 DEF AsyncInv

\* An inline call adds its body to the caller's thread.
LEMMA CallInlineInv ==
    ASSUME AsyncInv, NEW th \in Threads, NEW c \in Calls, CallInline(th, c)
    PROVE  AsyncInv'
<1> USE DEF AsyncInv
<1>1. Types'
  BY DEF CallInline, Types
<1>2. /\ outcome[c] = "none"
      /\ \A d \in Calls : d # c => outcome'[d] = outcome[d]
      /\ outcome'[c] = "inline"
  BY DEF CallInline, Calling, Types
<1>3. \A x \in Threads : \A j \in DOMAIN stack'[x] :
          stack'[x][j] = c \/ (j \in DOMAIN stack[x] /\ stack'[x][j] = stack[x][j])
  <2> SUFFICES ASSUME NEW x \in Threads, NEW j \in DOMAIN stack'[x]
               PROVE  stack'[x][j] = c \/ (j \in DOMAIN stack[x] /\ stack'[x][j] = stack[x][j])
    OBVIOUS
  <2>1. stack[x] \in Seq(Calls \union {Root})
    BY DEF Types
  <2>2. CASE x = th
    BY <2>1, <2>2 DEF CallInline, Types
  <2>3. CASE x # th
    BY <2>3 DEF CallInline, Types
  <2> QED
    BY <2>2, <2>3
<1>4. RunningMade'
  <2> SUFFICES ASSUME NEW x \in Threads, NEW j \in DOMAIN stack'[x], stack'[x][j] # Root
               PROVE  outcome'[stack'[x][j]] # "none"
    BY DEF RunningMade
  <2>1. CASE stack'[x][j] = c
    BY <1>2, <2>1
  <2>2. CASE stack'[x][j] # c
    <3>1. /\ j \in DOMAIN stack[x] /\ stack'[x][j] = stack[x][j]
          /\ outcome[stack[x][j]] # "none"
      BY <1>3, <2>2 DEF RunningMade
    <3>2. stack[x][j] \in Calls \union {Root}
      BY <3>1 DEF Types
    <3> QED
      BY <1>2, <2>2, <3>1, <3>2
  <2> QED
    BY <2>1, <2>2
<1>5. EndedMade'
  BY <1>2 DEF EndedMade, CallInline, Types
<1>6. queue' = queue /\ ended' = ended
  BY DEF CallInline
<1>7. \A i \in DOMAIN queue : queue[i] \in Calls
  BY DEF Types
<1>8. Queued'
  BY <1>2, <1>3, <1>6, <1>7 DEF Queued
<1> QED
  BY <1>1, <1>4, <1>5, <1>8

\* A call that gives a task queues it, or starts it on a thread of its own.
LEMMA CallTaskInv ==
    ASSUME AsyncInv, NEW th \in Threads, NEW c \in Calls, CallTask(th, c)
    PROVE  AsyncInv'
<1> USE DEF AsyncInv
<1>1. /\ outcome[c] = "none"
      /\ \A d \in Calls : d # c => outcome'[d] = outcome[d]
      /\ outcome'[c] = "task"
      /\ outcome' \in [Calls -> {"none", "inline", "task"}]
      /\ ended' = ended /\ threw' = threw
  BY DEF CallTask, Calling, Types
<1>2. \A i \in DOMAIN queue : queue[i] \in Calls /\ queue[i] # c
  BY <1>1 DEF Types, Queued
<1>3. EndedMade' /\ c \notin ended
  BY <1>1 DEF EndedMade, Types
<1>4. CASE th \in Workers
  <2>1. /\ stack' = [stack EXCEPT ![c] = <<c>>]
        /\ flags' = [flags EXCEPT ![c] = EntryFlags(c)]
        /\ queue' = queue
    BY <1>4 DEF CallTask
  <2>2. Types'
    BY <1>1, <2>1, EntryFlagsSorts, ThreadNames DEF Types
  <2>3. \A x \in Threads : \A j \in DOMAIN stack'[x] :
            stack'[x][j] = c \/ (j \in DOMAIN stack[x] /\ stack'[x][j] = stack[x][j])
    BY <2>1, ThreadNames DEF Types
  <2>4. RunningMade'
    BY <1>1, <2>2, <2>3 DEF RunningMade, Types
  <2>5. Queued'
    BY <1>1, <1>2, <2>1, <2>3 DEF Queued
  <2> QED
    BY <1>3, <2>2, <2>4, <2>5
<1>5. CASE th \notin Workers
  <2>1. queue' = Append(queue, c) /\ stack' = stack /\ flags' = flags
    BY <1>5 DEF CallTask
  <2>2. Types'
    BY <1>1, <2>1 DEF Types
  <2>3. RunningMade'
    BY <1>1, <2>1, <2>2 DEF RunningMade, Types
  <2>4. \A x \in Threads : \A j \in DOMAIN stack[x] : stack[x][j] # c
    BY <1>1, ThreadNames DEF RunningMade
  <2>5. \A i \in DOMAIN queue' :
            \/ i \in DOMAIN queue /\ queue'[i] = queue[i]
            \/ i = Len(queue) + 1 /\ queue'[i] = c
    BY <2>1 DEF Types
  <2>6. \A i \in DOMAIN queue' : outcome'[queue'[i]] = "task" /\ queue'[i] \notin ended'
    BY <1>1, <1>2, <1>3, <2>5 DEF Queued
  <2>7. \A i, j \in DOMAIN queue' : queue'[i] = queue'[j] => i = j
    BY <1>2, <2>5 DEF Queued
  <2>8. \A i \in DOMAIN queue' : \A x \in Threads : \A j \in DOMAIN stack'[x] :
            stack'[x][j] # queue'[i]
    BY <2>1, <2>4, <2>5 DEF Queued
  <2>9. Queued'
    BY <2>6, <2>7, <2>8 DEF Queued
  <2> QED
    BY <1>3, <2>2, <2>3, <2>9
<1> QED
  BY <1>4, <1>5

\* A worker takes the first task of the queue.
LEMMA TakeTaskInv ==
    ASSUME AsyncInv, NEW w \in Workers, TakeTask(w)
    PROVE  AsyncInv'
<1> USE DEF AsyncInv
<1> DEFINE c == Head(queue)
<1>1. /\ c \in Calls /\ c = queue[1] /\ 1 \in DOMAIN queue
      /\ queue' \in Seq(Calls)
      /\ \A i \in DOMAIN queue' : i + 1 \in DOMAIN queue /\ queue'[i] = queue[i + 1] /\ i \in Nat /\ i # 0
  BY DEF TakeTask, Types
<1>2. outcome' = outcome /\ ended' = ended /\ outcome[c] = "task"
  BY <1>1 DEF TakeTask, Queued
<1>3. Types'
  BY <1>1, EntryFlagsSorts, ThreadNames DEF TakeTask, Types
<1>4. \A x \in Threads : \A j \in DOMAIN stack'[x] :
          stack'[x][j] = c \/ (j \in DOMAIN stack[x] /\ stack'[x][j] = stack[x][j])
  BY ThreadNames DEF TakeTask, Types
<1>5. RunningMade'
  BY <1>2, <1>4 DEF RunningMade
<1>6. EndedMade'
  BY <1>2 DEF EndedMade
<1>7. \A i \in DOMAIN queue' : queue'[i] # c
  BY <1>1 DEF Queued
<1>8. \A i, j \in DOMAIN queue' : queue'[i] = queue'[j] => i = j
  <2> SUFFICES ASSUME NEW i \in DOMAIN queue', NEW j \in DOMAIN queue', queue'[i] = queue'[j]
               PROVE  i = j
    OBVIOUS
  <2>1. i + 1 = j + 1
    BY <1>1 DEF Queued
  <2> QED
    BY <1>1, <2>1
<1>9. Queued'
  BY <1>1, <1>2, <1>4, <1>7, <1>8 DEF Queued
<1> QED
  BY <1>3, <1>5, <1>6, <1>9

\* A body that returns leaves its thread; it was running, so it is not queued.
LEMMA ReturnInv ==
    ASSUME AsyncInv, NEW th \in Threads, Return(th)
    PROVE  AsyncInv'
<1> USE DEF AsyncInv
<1>1. /\ Current(th) \in Calls
      /\ Len(stack[th]) \in DOMAIN stack[th]
      /\ Current(th) = stack[th][Len(stack[th])]
  BY CurrentRuns DEF Return, BodyMade
<1>2. outcome' = outcome /\ queue' = queue /\ ended' = ended \union {Current(th)}
  BY DEF Return
<1>3. /\ stack' = [stack EXCEPT ![th] = SubSeq(@, 1, Len(@) - 1)]
      /\ SubSeq(stack[th], 1, Len(stack[th]) - 1) \in Seq(Calls \union {Root})
  BY DEF Return, BodyMade, Types
<1>4. Types'
  BY <1>1, <1>2, <1>3 DEF Return, Types
<1>5. \A x \in Threads : \A j \in DOMAIN stack'[x] :
          j \in DOMAIN stack[x] /\ stack'[x][j] = stack[x][j]
  BY <1>3 DEF Types
<1>6. RunningMade'
  BY <1>2, <1>5 DEF RunningMade
<1>7. EndedMade'
  BY <1>1, <1>2, ThreadNames DEF EndedMade, RunningMade
<1>8. \A i \in DOMAIN queue : queue[i] # Current(th)
  BY <1>1 DEF Queued
<1>9. Queued'
  BY <1>2, <1>5, <1>8 DEF Queued
<1> QED
  BY <1>4, <1>6, <1>7, <1>9

\* An exception ends all bodies of a thread; they were running, so none is queued.
LEMMA ThrowInv ==
    ASSUME AsyncInv, RootOnMain, NEW th \in Threads, Throw(th)
    PROVE  AsyncInv'
<1> USE DEF AsyncInv
<1> DEFINE Bodies == {stack[th][i] : i \in DOMAIN stack[th]}
<1>1. \A b \in Bodies : b \in Calls /\ \E j \in DOMAIN stack[th] : b = stack[th][j]
  BY DEF Types, RootOnMain, Throw
<1>2. outcome' = outcome /\ queue' = queue /\ ended' = ended \union Bodies
  BY DEF Throw
<1>3. /\ stack' = [stack EXCEPT ![th] = <<>>] /\ flags' = flags
      /\ threw' = threw \union {th}
  BY DEF Throw
<1>4. Types'
  BY <1>1, <1>2, <1>3 DEF Types
<1>5. \A x \in Threads : \A j \in DOMAIN stack'[x] :
          j \in DOMAIN stack[x] /\ stack'[x][j] = stack[x][j]
  BY <1>3 DEF Types
<1>6. RunningMade'
  BY <1>2, <1>5 DEF RunningMade
<1>7. EndedMade'
  BY <1>1, <1>2, ThreadNames DEF EndedMade, RunningMade
<1>8. \A i \in DOMAIN queue : queue[i] \notin Bodies
  BY <1>1 DEF Queued
<1>9. Queued'
  BY <1>2, <1>5, <1>8 DEF Queued
<1> QED
  BY <1>4, <1>6, <1>7, <1>9

-----------------------------------------------------------------------------
\* Main never runs a task, and nobody else the top-level program.
LEMMA MainInv ==
    ASSUME AsyncInv, MainIdleFlags, RootOnMain, [Next]_vars
    PROVE  MainIdleFlags' /\ RootOnMain'
<1> USE DEF AsyncInv
<1>1. ASSUME NEW th \in Threads, NEW c \in Calls, CallInline(th, c)
      PROVE  MainIdleFlags' /\ RootOnMain'
  <2>1. flags' = flags
    BY <1>1 DEF CallInline
  <2>2. ASSUME NEW x \in Threads, x # Main, NEW j \in DOMAIN stack'[x]
        PROVE  stack'[x][j] # Root
    <3>1. stack[x] \in Seq(Calls \union {Root})
      BY DEF Types
    <3>2. CASE x = th
      BY <1>1, <2>2, <3>1, <3>2, ThreadNames DEF CallInline, Types, RootOnMain
    <3>3. CASE x # th
      BY <1>1, <2>2, <3>3 DEF CallInline, Types, RootOnMain
    <3> QED
      BY <3>2, <3>3
  <2> QED
    BY <2>1, <2>2 DEF MainIdleFlags, RootOnMain
<1>2. ASSUME NEW th \in Threads, NEW c \in Calls, CallTask(th, c)
      PROVE  MainIdleFlags' /\ RootOnMain'
  <2>1. CASE th \in Workers
    <3>1. stack' = [stack EXCEPT ![c] = <<c>>] /\ flags' = [flags EXCEPT ![c] = EntryFlags(c)]
      BY <1>2, <2>1 DEF CallTask
    <3>2. MainIdleFlags'
      BY <3>1, ThreadNames DEF MainIdleFlags, Types
    <3>3. RootOnMain'
      BY <3>1, ThreadNames DEF RootOnMain, Types
    <3> QED
      BY <3>2, <3>3
  <2>2. CASE th \notin Workers
    BY <1>2, <2>2 DEF CallTask, MainIdleFlags, RootOnMain
  <2> QED
    BY <2>1, <2>2
<1>3. ASSUME NEW th \in Threads, Return(th)
      PROVE  MainIdleFlags' /\ RootOnMain'
  <2>1. MainIdleFlags'
    BY <1>3, ThreadNames DEF Return, MainIdleFlags, Types
  <2>2. \A x \in Threads : \A j \in DOMAIN stack'[x] :
            j \in DOMAIN stack[x] /\ stack'[x][j] = stack[x][j]
    BY <1>3 DEF Return, BodyMade, Types
  <2> QED
    BY <2>1, <2>2 DEF RootOnMain
<1>4. ASSUME NEW th \in Threads, Throw(th)
      PROVE  MainIdleFlags' /\ RootOnMain'
  BY <1>4 DEF Throw, MainIdleFlags, RootOnMain, Types
<1>5. ASSUME NEW w \in Workers, TakeTask(w)
      PROVE  MainIdleFlags' /\ RootOnMain'
  <2>1. Head(queue) \in Calls
    BY <1>5 DEF TakeTask, Types
  <2>2. MainIdleFlags'
    BY <1>5, ThreadNames DEF TakeTask, MainIdleFlags, Types
  <2>3. RootOnMain'
    BY <1>5, <2>1, ThreadNames DEF TakeTask, RootOnMain, Types
  <2> QED
    BY <2>2, <2>3
<1>6. CASE UNCHANGED vars
  BY <1>6 DEF vars, MainIdleFlags, RootOnMain
<1> QED
  BY <1>1, <1>2, <1>3, <1>4, <1>5, <1>6 DEF Next

\* Every step keeps the strengthening.
LEMMA AsyncStep ==
    ASSUME AsyncInv, RootOnMain, [Next]_vars
    PROVE  AsyncInv'
<1>1. CASE UNCHANGED vars
  BY <1>1 DEF vars, AsyncInv, Types, RunningMade, EndedMade, Queued
<1> QED
  BY <1>1, CallInlineInv, CallTaskInv, TakeTaskInv, ReturnInv, ThrowInv DEF Next

\* The strengthening, and what Main keeps, hold in every state.
LEMMA AsyncInvAlways == Spec => [](AsyncInv /\ MainIdleFlags /\ RootOnMain)
<1>1. Init => AsyncInv /\ MainIdleFlags /\ RootOnMain
  <2> SUFFICES ASSUME Init PROVE MainIdleFlags /\ RootOnMain
    BY AsyncInit
  <2> QED
    BY ThreadNames DEF Init, MainIdleFlags, RootOnMain
<1>2. AsyncInv /\ MainIdleFlags /\ RootOnMain /\ [Next]_vars
        => (AsyncInv /\ MainIdleFlags /\ RootOnMain)'
  BY AsyncStep, MainInv
<1> QED
  BY <1>1, <1>2, PTL DEF Spec

\* The variables keep their types, and a queued task is neither running nor
\* ended: submitPreemptible and workerLoop hand each task to one thread.
THEOREM AsyncTypes == Spec => []AsyncTypeOK
<1>1. AsyncInv => AsyncTypeOK
  BY DEF AsyncInv, Types, Queued, AsyncTypeOK
<1> QED
  BY <1>1, AsyncInvAlways, PTL

-----------------------------------------------------------------------------
\* The top-level program gets tasks from its async calls, for any number of
\* tasks and of exceptions in them: the flags that an exception leaves set in
\* evaluator.cpp and vm.cpp belong to other threads.
THEOREM TopLevelGetsTasksAlways == Spec => []TopLevelGetsTasks
<1> DEFINE Inv == AsyncInv /\ MainIdleFlags /\ RootOnMain
<1>1. Init => TopLevelGetsTasks
  BY DEF Init, TopLevelGetsTasks
<1>2. ASSUME Inv, TopLevelGetsTasks, [Next]_vars
      PROVE  TopLevelGetsTasks'
  <2> USE <1>2 DEF AsyncInv
  <2>1. ASSUME NEW th \in Threads, NEW c \in Calls, CallInline(th, c)
        PROVE  TopLevelGetsTasks'
    <3>1. ~(Caller[c] = Root /\ Kind[c] = "async")
      <4> SUFFICES ASSUME Caller[c] = Root, Kind[c] = "async" PROVE FALSE
        OBVIOUS
      <4>1. Current(th) = Root /\ Sort[c] \in flags[th]
        BY <2>1 DEF CallInline, Calling, Inline
      <4>2. th # Main
        BY <4>1 DEF MainIdleFlags
      <4> QED
        BY <2>1, <4>1, <4>2, CurrentRuns DEF RootOnMain, CallInline, Calling
    <3> QED
      BY <2>1, <3>1 DEF CallInline, TopLevelGetsTasks, Types
  <2>2. ASSUME NEW th \in Threads, NEW c \in Calls, CallTask(th, c)
        PROVE  TopLevelGetsTasks'
    BY <2>2 DEF CallTask, TopLevelGetsTasks, Types
  <2>3. CASE outcome' = outcome
    BY <2>3 DEF TopLevelGetsTasks
  <2> QED
    BY <2>1, <2>2, <2>3 DEF Next, Return, Throw, TakeTask, vars
<1> QED
  BY <1>1, <1>2, AsyncInvAlways, PTL DEF Spec

\* The flags of a thread that no exception went through are those of the task it
\* runs: every path that sets a flag around a task's body (evaluator.cpp,
\* vm.cpp) is undone when the body returns.
THEOREM FlagsOfCurrentTaskAlways == Spec => []FlagsOfCurrentTask
<1> DEFINE Inv == AsyncInv /\ MainIdleFlags /\ RootOnMain
<1>1. Init => FlagsOfCurrentTask
  <2> SUFFICES ASSUME Init, NEW th \in Threads
               PROVE flags[th] = IF stack[th] = <<>> \/ th = Main THEN {} ELSE EntryFlags(stack[th][1])
    BY DEF FlagsOfCurrentTask
  <2> QED
    BY DEF Init
<1>2. ASSUME Inv, FlagsOfCurrentTask, [Next]_vars
      PROVE  FlagsOfCurrentTask'
  <2> USE <1>2 DEF AsyncInv
  <2> SUFFICES ASSUME NEW x \in Threads, x \notin threw'
               PROVE  flags'[x] = IF stack'[x] = <<>> \/ x = Main THEN {} ELSE EntryFlags(stack'[x][1])
    BY DEF FlagsOfCurrentTask, EntryFlags
  <2>a. flags[x] = IF stack[x] = <<>> \/ x = Main THEN {} ELSE EntryFlags(stack[x][1])
    <3>1. x \notin threw
      BY DEF Next, CallInline, CallTask, Return, Throw, TakeTask, vars
    <3> QED
      BY <3>1 DEF FlagsOfCurrentTask
  <2>b. stack[x] \in Seq(Calls \union {Root})
    BY DEF Types
  <2>c. CASE flags'[x] = flags[x] /\ stack'[x] = stack[x]
    BY <2>a, <2>c
  <2>1. ASSUME NEW th \in Threads, NEW c \in Calls, CallInline(th, c)
        PROVE  flags'[x] = IF stack'[x] = <<>> \/ x = Main THEN {} ELSE EntryFlags(stack'[x][1])
    <3>1. CASE x = th
      <4>1. stack'[x] = Append(stack[x], c) /\ Len(stack[x]) > 0 /\ flags'[x] = flags[x]
        BY <2>1, <3>1 DEF CallInline, Calling, Types
      <4>2. stack'[x] # <<>> /\ stack[x] # <<>> /\ stack'[x][1] = stack[x][1]
        BY <4>1, <2>b
      <4> QED
        BY <4>1, <4>2, <2>a
    <3>2. CASE x # th
      BY <2>1, <2>c, <3>2 DEF CallInline, Types
    <3> QED
      BY <3>1, <3>2
  <2>2. ASSUME NEW th \in Threads, NEW c \in Calls, CallTask(th, c)
        PROVE  flags'[x] = IF stack'[x] = <<>> \/ x = Main THEN {} ELSE EntryFlags(stack'[x][1])
    <3>1. CASE th \in Workers /\ x = c
      <4>1. flags'[x] = EntryFlags(c) /\ stack'[x] = <<c>> /\ x # Main
        BY <2>2, <3>1, ThreadNames DEF CallTask, Types
      <4> QED
        BY <4>1
    <3>2. CASE ~(th \in Workers /\ x = c)
      BY <2>2, <2>c, <3>2 DEF CallTask, Types
    <3> QED
      BY <3>1, <3>2
  <2>3. ASSUME NEW th \in Threads, Return(th)
        PROVE  flags'[x] = IF stack'[x] = <<>> \/ x = Main THEN {} ELSE EntryFlags(stack'[x][1])
    <3>1. CASE x = th
      <4>1. /\ stack'[x] = SubSeq(stack[x], 1, Len(stack[x]) - 1)
            /\ Len(stack[x]) \in Nat /\ Len(stack[x]) > 0
        BY <2>3, <2>b, <3>1 DEF Return, BodyMade, Types
      <4>2. CASE Len(stack[x]) = 1
        <5>1. stack'[x] = <<>>
          BY <2>b, <4>1, <4>2
        <5>2. flags'[x] = flags[x] \ EntryFlags(stack[x][1])
          BY <2>3, <3>1, <4>2 DEF Return, Current, Types
        <5>3. stack[x] # <<>>
          BY <4>2
        <5> QED
          BY <2>a, <5>1, <5>2, <5>3
      <4>3. CASE Len(stack[x]) # 1
        <5>1. stack'[x] # <<>> /\ stack[x] # <<>> /\ stack'[x][1] = stack[x][1]
          BY <2>b, <4>1, <4>3, ButLast
        <5>2. flags' = flags
          BY <2>3, <3>1, <4>3 DEF Return
        <5> QED
          BY <2>a, <5>1, <5>2
      <4> QED
        BY <4>2, <4>3
    <3>2. CASE x # th
      BY <2>3, <2>c, <3>2 DEF Return, Types
    <3> QED
      BY <3>1, <3>2
  <2>4. ASSUME NEW w \in Workers, TakeTask(w)
        PROVE  flags'[x] = IF stack'[x] = <<>> \/ x = Main THEN {} ELSE EntryFlags(stack'[x][1])
    <3>1. CASE x = w
      <4>1. /\ flags'[x] = flags[x] \union EntryFlags(Head(queue))
            /\ stack'[x] = <<Head(queue)>>
            /\ x # Main /\ stack[x] = <<>>
        BY <2>4, <3>1, ThreadNames DEF TakeTask, Types
      <4> QED
        BY <2>a, <4>1
    <3>2. CASE x # w
      BY <2>4, <2>c, <3>2 DEF TakeTask, Types
    <3> QED
      BY <3>1, <3>2
  <2>5. ASSUME NEW th \in Threads, Throw(th)
        PROVE  flags'[x] = IF stack'[x] = <<>> \/ x = Main THEN {} ELSE EntryFlags(stack'[x][1])
    BY <2>5, <2>c DEF Throw, Types
  <2>6. CASE UNCHANGED vars
    BY <2>6, <2>c DEF vars
  <2> QED
    BY <2>1, <2>2, <2>3, <2>4, <2>5, <2>6 DEF Next
<1> QED
  BY <1>1, <1>2, AsyncInvAlways, PTL DEF Spec

-----------------------------------------------------------------------------
\* Task maps a call to the task whose thread makes it when the plain calls
\* around it run inline, or to Root.
TasksOfCalls(Task) ==
    /\ Task \in [Calls -> Calls \union {Root}]
    /\ \A c \in Calls :
          Task[c] = IF Caller[c] # Root /\ Kind[Caller[c]] = "plain" THEN Task[Caller[c]]
                    ELSE Caller[c]

\* No task's plain code makes an async call that the task's own flags are for.
NoAsyncUnderItsFlag(Task) ==
    \A c \in Calls :
        Kind[c] = "async" /\ Task[c] # Root => Sort[c] \notin EntryFlags(Task[c])

\* A call has become a task only if it is of an async function or of spawn.
TasksNotPlain == \A c \in Calls : outcome[c] = "task" => Kind[c] # "plain"

\* All bodies on a thread are part of the task at the bottom of its stack.
BodiesOfTask(Task) ==
    \A th \in Threads : \A j \in DOMAIN stack[th] : \A c \in Calls :
        Caller[c] = stack[th][j] => Task[c] = stack[th][1]

\* An async call that is not made under its own flag is not run inline.
LEMMA AsyncNotInline ==
    ASSUME AsyncInv, MainIdleFlags, FlagsOfCurrentTask, threw = {}, RootOnMain,
           NEW Task, TasksOfCalls(Task), NoAsyncUnderItsFlag(Task), BodiesOfTask(Task),
           NEW th \in Threads, NEW c \in Calls, Calling(th, c), Kind[c] = "async"
    PROVE  ~Inline(th, c)
<1> USE DEF AsyncInv
<1>1. /\ Len(stack[th]) \in DOMAIN stack[th]
      /\ Caller[c] = stack[th][Len(stack[th])]
  BY CurrentRuns DEF Calling
<1>2. Task[c] = stack[th][1]
  BY <1>1 DEF BodiesOfTask
<1>3. CASE th = Main
  BY <1>3 DEF MainIdleFlags, Inline
<1>4. CASE th # Main
  <2>1. stack[th] # <<>> /\ 1 \in DOMAIN stack[th]
    BY <1>1 DEF Types, Calling
  <2>2. flags[th] = EntryFlags(Task[c]) /\ Task[c] # Root
    BY <1>2, <1>4, <2>1 DEF FlagsOfCurrentTask, RootOnMain
  <2> QED
    BY <2>2 DEF NoAsyncUnderItsFlag, Inline
<1> QED
  BY <1>3, <1>4

\* Bodies stay with their task: an inline one is plain, a task's own begins
\* a stack.
LEMMA BodiesStep ==
    ASSUME AsyncInv, MainIdleFlags, RootOnMain, FlagsOfCurrentTask, [Next]_vars,
           TasksNotPlain, threw' = {},
           NEW Task, TasksOfCalls(Task), NoAsyncUnderItsFlag(Task), BodiesOfTask(Task)
    PROVE  BodiesOfTask(Task)'
<1> USE DEF AsyncInv
<1>1. threw = {}
  BY DEF Next, CallInline, CallTask, Return, Throw, TakeTask, vars
<1> SUFFICES ASSUME NEW x \in Threads, NEW j \in DOMAIN stack'[x], NEW d \in Calls,
                    Caller[d] = stack'[x][j]
             PROVE  Task[d] = stack'[x][1]
  BY DEF BodiesOfTask
<1>a. stack[x] \in Seq(Calls \union {Root})
  BY DEF Types
<1>b. CASE stack'[x] = stack[x]
  BY <1>b DEF BodiesOfTask
<1>c. ASSUME NEW c \in Calls, Kind[c] # "plain", stack'[x] = <<c>>
      PROVE  Task[d] = stack'[x][1]
  <2>1. Caller[d] = c /\ stack'[x][1] = c
    BY <1>c
  <2> QED
    BY <1>c, <2>1, ThreadNames DEF TasksOfCalls
<1>2. ASSUME NEW th \in Threads, NEW c \in Calls, CallInline(th, c)
      PROVE  Task[d] = stack'[x][1]
  <2>1. CASE x = th
    <3>1. stack'[x] = Append(stack[x], c) /\ Len(stack[x]) > 0 /\ Calling(th, c)
      BY <1>2, <2>1 DEF CallInline, Calling, Types
    <3>2. stack'[x][1] = stack[x][1]
      BY <1>a, <3>1
    <3>3. CASE j \in DOMAIN stack[x] /\ stack'[x][j] = stack[x][j]
      BY <3>2, <3>3 DEF BodiesOfTask
    <3>4. CASE Caller[d] = c
      <4>1. Kind[c] = "plain"
        BY <1>1, <1>2, <3>1, AsyncNotInline, ProgramAssumption DEF CallInline, Inline
      <4>2. Task[d] = Task[c]
        BY <3>4, <4>1, ThreadNames DEF TasksOfCalls
      <4>3. Len(stack[th]) \in DOMAIN stack[th] /\ Caller[c] = stack[th][Len(stack[th])]
        BY <3>1, CurrentRuns DEF Calling
      <4> QED
        BY <2>1, <3>2, <4>2, <4>3 DEF BodiesOfTask
    <3> QED
      BY <1>a, <3>1, <3>3, <3>4
  <2>2. CASE x # th
    BY <1>2, <1>b, <2>2 DEF CallInline, Types
  <2> QED
    BY <2>1, <2>2
<1>3. ASSUME NEW th \in Threads, NEW c \in Calls, CallTask(th, c)
      PROVE  Task[d] = stack'[x][1]
  <2>1. Kind[c] # "plain"
    BY <1>3 DEF CallTask, Inline
  <2>2. CASE th \in Workers /\ x = c
    <3>1. stack'[x] = <<c>>
      BY <1>3, <2>2 DEF CallTask, Types
    <3> QED
      BY <1>c, <2>1, <3>1
  <2>3. CASE ~(th \in Workers /\ x = c)
    BY <1>3, <1>b, <2>3 DEF CallTask, Types
  <2> QED
    BY <2>2, <2>3
<1>4. ASSUME NEW th \in Threads, Return(th)
      PROVE  Task[d] = stack'[x][1]
  <2>1. CASE x = th
    <3>1. /\ stack'[x] = SubSeq(stack[x], 1, Len(stack[x]) - 1)
          /\ Len(stack[x]) > 0
      BY <1>4, <2>1 DEF Return, BodyMade, Types
    <3>2. j \in DOMAIN stack[x] /\ stack'[x][j] = stack[x][j] /\ stack'[x][1] = stack[x][1]
      BY <1>a, <3>1
    <3> QED
      BY <3>2 DEF BodiesOfTask
  <2>2. CASE x # th
    BY <1>4, <1>b, <2>2 DEF Return, Types
  <2> QED
    BY <2>1, <2>2
<1>5. ASSUME NEW w \in Workers, TakeTask(w)
      PROVE  Task[d] = stack'[x][1]
  <2>1. CASE x = w
    <3>1. /\ stack'[x] = <<Head(queue)>>
          /\ Head(queue) \in Calls
          /\ Head(queue) = queue[1] /\ 1 \in DOMAIN queue
      BY <1>5, <2>1 DEF TakeTask, Types
    <3>2. Kind[Head(queue)] # "plain"
      BY <3>1 DEF Queued, TasksNotPlain
    <3> QED
      BY <1>c, <3>1, <3>2
  <2>2. CASE x # w
    BY <1>5, <1>b, <2>2 DEF TakeTask, Types
  <2> QED
    BY <2>1, <2>2
<1>6. ASSUME NEW th \in Threads, Throw(th)
      PROVE  FALSE
  BY <1>6 DEF Throw
<1>7. CASE UNCHANGED vars
  BY <1>7, <1>b DEF vars
<1> QED
  BY <1>2, <1>3, <1>4, <1>5, <1>6, <1>7 DEF Next

\* What may be awaited is a task, in every program in which no task's plain code
\* makes an async call that the task's flags are for: the flags of evaluator.cpp
\* and vm.cpp turn no other call into an inline one.
THEOREM AwaitGetsTaskAlways ==
    ASSUME NEW Task, TasksOfCalls(Task), NoAsyncUnderItsFlag(Task)
    PROVE  Spec => []AwaitGetsTask
<1> DEFINE Inv == AsyncInv /\ MainIdleFlags /\ RootOnMain /\ FlagsOfCurrentTask
           Aux == TasksNotPlain /\ (threw = {} => BodiesOfTask(Task)) /\ AwaitGetsTask
<1>1. Init => Aux
  <2> SUFFICES ASSUME Init PROVE Aux
    OBVIOUS
  <2>1. TasksNotPlain /\ AwaitGetsTask
    BY DEF Init, TasksNotPlain, AwaitGetsTask
  <2>2. BodiesOfTask(Task)
    BY DEF Init, BodiesOfTask, TasksOfCalls
  <2> QED
    BY <2>1, <2>2
<1>2. ASSUME Inv, Aux, [Next]_vars
      PROVE  Aux'
  <2> USE <1>2 DEF AsyncInv
  <2>1. TasksNotPlain'
    <3>1. ASSUME NEW th \in Threads, NEW c \in Calls, CallInline(th, c)
          PROVE  TasksNotPlain'
      BY <3>1 DEF CallInline, TasksNotPlain, Types
    <3>2. ASSUME NEW th \in Threads, NEW c \in Calls, CallTask(th, c)
          PROVE  TasksNotPlain'
      BY <3>2 DEF CallTask, Inline, TasksNotPlain, Types
    <3>3. CASE outcome' = outcome
      BY <3>3 DEF TasksNotPlain
    <3> QED
      BY <3>1, <3>2, <3>3 DEF Next, Return, Throw, TakeTask, vars
  <2>2. ASSUME threw' = {} PROVE threw = {}
    BY <2>2 DEF Next, CallInline, CallTask, Return, Throw, TakeTask, vars
  <2>3. threw' = {} => BodiesOfTask(Task)'
    BY <2>2, BodiesStep
  <2>4. AwaitGetsTask'
    <3> SUFFICES ASSUME threw' = {} PROVE AwaitGetsTask'
      BY DEF AwaitGetsTask
    <3>1. ASSUME NEW th \in Threads, NEW c \in Calls, CallInline(th, c)
          PROVE  AwaitGetsTask'
      <4>1. Kind[c] # "async"
        BY <2>2, <3>1, AsyncNotInline DEF CallInline
      <4> QED
        BY <2>2, <3>1, <4>1 DEF CallInline, AwaitGetsTask, Types
    <3>2. ASSUME NEW th \in Threads, NEW c \in Calls, CallTask(th, c)
          PROVE  AwaitGetsTask'
      BY <2>2, <3>2 DEF CallTask, AwaitGetsTask, Types
    <3>3. CASE outcome' = outcome
      BY <2>2, <3>3 DEF AwaitGetsTask
    <3> QED
      BY <3>1, <3>2, <3>3 DEF Next, Return, Throw, TakeTask, vars
  <2> QED
    BY <2>1, <2>3, <2>4
<1> QED
  BY <1>1, <1>2, AsyncInvAlways, FlagsOfCurrentTaskAlways, PTL DEF Spec
=============================================================================
