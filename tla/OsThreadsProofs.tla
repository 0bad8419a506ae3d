--------------------------- MODULE OsThreadsProofs ---------------------------
(***************************************************************************)
(* Proofs about OsThreads, for any number of thread objects, of runs and of  *)
(* files.  The thread of an object that is run once can be joined until the  *)
(* end of the file, and its entry of threadPool is still to come.            *)
(***************************************************************************)
EXTENDS OsThreads, TLAPS

InProgram == at \in {"program", "join"}

(* A run has an owner from its start on, and that object has been created.  *)
RunsFit ==
    /\ \A r \in Runs : owner[r] = NoObject <=> life[r] = "none"
    /\ \A r \in Runs : life[r] = "none" => r \notin joinable
    /\ \A r \in Runs : life[r] = "running" => r \in joinable

(* internal_thread is a run of the object; the run of an object that is run *)
(* once is found there for as long as it can be joined.                     *)
ThreadsFit ==
    /\ \A o \in Objects : thread[o] # NoRun => owner[thread[o]] = o
    /\ \A r \in joinable : RunOnce(owner[r]) => thread[owner[r]] = r
    /\ \A r \in Runs : life[r] = "ended" /\ RunOnce(owner[r]) => result[owner[r]] = r

(* What is still to be joined is on the heap, and the loop has yet to come to it. *)
Pooled(o) ==
    \E i \in DOMAIN threadPool : threadPool[i] = o /\ (at = "teardown" => entry <= i)
PoolFits ==
    \A r \in joinable : RunOnce(owner[r]) =>
        /\ at \notin {"swept", "finished"}
        /\ owner[r] \in alive
        /\ internalGc[owner[r]] = "live"
        /\ Pooled(owner[r])

(* Collectors of objects are freed by the loop only, and their objects go   *)
(* with the heap; the VM forgets both.                                      *)
HeapFits ==
    /\ InProgram => \A o \in alive : internalGc[o] = "live"
    /\ at \in {"swept", "finished"} => alive = {}
    /\ \A o \in alive : internalGc[o] # "none"
    /\ onVM => \A o \in Objects : internalGc[o] = "freed" => thread[o] = NoRun
    /\ onVM /\ at \in {"swept", "finished"} => threadPool = <<>>
    /\ (onVM \/ file = 1) /\ at \notin {"swept", "finished"} =>
           \A i \in DOMAIN threadPool : threadPool[i] \in alive

(* In the first file, an object that is run once has one entry.             *)
FirstFileFits ==
    file = 1 /\ at \notin {"swept", "finished"} =>
        /\ \A i \in DOMAIN threadPool : \E r \in Runs : owner[r] = threadPool[i]
        /\ \A i, j \in DOMAIN threadPool :
               threadPool[i] = threadPool[j] /\ RunOnce(threadPool[i]) => i = j
        /\ \A o \in Objects : internalGc[o] = "freed" =>
               /\ at \in {"teardown", "undefined"}
               /\ \E i \in DOMAIN threadPool : i < entry /\ threadPool[i] = o

TInv == ThreadsTypeOK /\ RunsFit /\ ThreadsFit /\ PoolFits /\ HeapFits /\ FirstFileFits

------------------------------------------------------------------------------
(* Steps that leave the runs and the thread objects alone.                  *)

LEMMA InitTInv == Init => TInv
<1>1. SUFFICES ASSUME Init PROVE TInv
  OBVIOUS
<1>2. ThreadsTypeOK
  BY <1>1, ConstantsAssumption DEF Init, ThreadsTypeOK
<1>3. RunsFit /\ ThreadsFit /\ PoolFits /\ HeapFits /\ FirstFileFits
  BY <1>1, ConstantsAssumption
     DEF Init, RunsFit, ThreadsFit, PoolFits, HeapFits, FirstFileFits, InProgram
<1>4. QED
  BY <1>2, <1>3 DEF TInv

LEMMA StutterTInv == TInv /\ UNCHANGED vars => TInv'
BY DEF TInv, vars, heapVars, runVars, ThreadsTypeOK, RunsFit, ThreadsFit, PoolFits, Pooled,
       HeapFits, FirstFileFits, RunOnce, InProgram

\* A thread object is created: it has no run yet.
LEMMA CreateTInv == ASSUME TInv, NEW o \in Objects, CreateAndExecute(o) PROVE TInv'
<1> USE DEF TInv, CreateAndExecute, runVars
<1>1. ThreadsTypeOK'
  BY DEF ThreadsTypeOK
<1>2. RunsFit' /\ ThreadsFit'
  BY DEF RunsFit, ThreadsFit, RunOnce, ThreadsTypeOK
<1>3. PoolFits'
  BY DEF PoolFits, Pooled, RunOnce, ThreadsTypeOK
<1>4. HeapFits'
  BY DEF HeapFits, InProgram, ThreadsTypeOK
<1>5. FirstFileFits'
  BY DEF FirstFileFits, RunOnce, ThreadsTypeOK
<1>6. QED
  BY <1>1, <1>2, <1>3, <1>4, <1>5

\* A run is started and its object put in threadPool: what runAsync and
\* runBlocking have in common.
LEMMA StartTInv ==
    ASSUME TInv, NEW o \in Objects, NEW r \in Runs, Start(o, r),
           threadPool' = Append(threadPool, o),
           UNCHANGED <<onVM, file, entry, alive, internalGc, result>>,
           \/ at' = at /\ awaited' = awaited
           \/ at' = "join" /\ awaited' = r
    PROVE  TInv'
<1> USE DEF TInv, Start
<1>1. ThreadsTypeOK'
  BY ConstantsAssumption DEF ThreadsTypeOK
<1>2. /\ DOMAIN threadPool = 1..Len(threadPool) /\ Len(threadPool) \in Nat
      /\ DOMAIN threadPool' = 1..(Len(threadPool) + 1)
      /\ \A i \in 1..Len(threadPool) : threadPool'[i] = threadPool[i]
      /\ threadPool'[Len(threadPool) + 1] = o
  BY DEF ThreadsTypeOK
<1>3. /\ owner[r] = NoObject /\ owner'[r] = o /\ thread'[o] = r /\ r \notin joinable
      /\ \A s \in Runs \ {r} : owner'[s] = owner[s] /\ life'[s] = life[s]
      /\ \A q \in Objects \ {o} : thread'[q] = thread[q]
      /\ life'[r] = "running" /\ life[r] = "none"
      /\ o # NoObject /\ r # NoRun
  BY ConstantsAssumption DEF ThreadsTypeOK, RunsFit
<1>4. \A q \in Objects : RunOnce(q)' => RunOnce(q)
  BY <1>3, ConstantsAssumption DEF RunOnce
<1>5. RunOnce(o)' => \A s \in Runs : owner[s] # o
  BY <1>3 DEF RunOnce
<1>6. \A s \in joinable : s \in Runs /\ owner[s] \in Objects /\ s # r
  BY <1>3 DEF ThreadsTypeOK, RunsFit
<1>7. RunsFit'
  BY <1>3 DEF RunsFit, ThreadsTypeOK
<1>8. ThreadsFit'
  <2>1. \A q \in Objects : thread'[q] # NoRun => owner'[thread'[q]] = q
    BY <1>3, ConstantsAssumption DEF ThreadsFit, ThreadsTypeOK
  <2>2. ASSUME NEW s \in joinable', RunOnce(owner[s])' PROVE thread'[owner'[s]] = s
    BY <2>2, <1>3, <1>4, <1>5, <1>6 DEF ThreadsFit
  <2>3. ASSUME NEW s \in Runs, life'[s] = "ended", RunOnce(owner[s])'
        PROVE  result'[owner'[s]] = s
    <3>1. s # r /\ life[s] = "ended" /\ owner[s] \in Objects
      BY <2>3, <1>3 DEF ThreadsTypeOK, RunsFit
    <3>2. QED
      BY <2>3, <3>1, <1>3, <1>4 DEF ThreadsFit
  <2>4. QED
    BY <2>1, <2>2, <2>3 DEF ThreadsFit
<1>9. PoolFits'
  <2>1. ASSUME NEW s \in joinable', RunOnce(owner[s])'
        PROVE  /\ at' \notin {"swept", "finished"}
               /\ owner'[s] \in alive'
               /\ internalGc'[owner'[s]] = "live"
               /\ Pooled(owner[s])'
    <3>1. CASE s = r
      BY <3>1, <1>2, <1>3 DEF HeapFits, InProgram, Pooled
    <3>2. CASE s # r
      <4>1. s \in joinable /\ owner'[s] = owner[s] /\ RunOnce(owner[s])
        BY <3>2, <2>1, <1>3, <1>4, <1>6
      <4>2. Pooled(owner[s])'
        BY <4>1, <1>2 DEF PoolFits, Pooled
      <4>3. QED
        BY <4>1, <4>2 DEF PoolFits
    <3>3. QED
      BY <3>1, <3>2
  <2>2. QED
    BY <2>1 DEF PoolFits
<1>10. HeapFits'
  BY <1>2, <1>3 DEF HeapFits, InProgram, ThreadsTypeOK
<1>11. FirstFileFits'
  <2>1. SUFFICES ASSUME file' = 1 PROVE FirstFileFits'
    BY DEF FirstFileFits
  <2>2. \A i \in DOMAIN threadPool' : \E s \in Runs : owner'[s] = threadPool'[i]
    <3>1. \A i \in DOMAIN threadPool : \E s \in Runs \ {r} : owner[s] = threadPool[i]
      BY <2>1, <1>3, ConstantsAssumption DEF FirstFileFits, ThreadsTypeOK
    <3>2. QED
      BY <3>1, <1>2, <1>3
  <2>3. ASSUME NEW i \in DOMAIN threadPool', NEW j \in DOMAIN threadPool',
               threadPool'[i] = threadPool'[j], RunOnce(threadPool[i])'
        PROVE  i = j
    <3>1. RunOnce(o)' => \A k \in DOMAIN threadPool : threadPool[k] # o
      BY <2>1, <1>5 DEF FirstFileFits
    <3>2. \A k \in DOMAIN threadPool : threadPool[k] \in Objects
      BY DEF ThreadsTypeOK
    <3>3. CASE i \in DOMAIN threadPool /\ j \in DOMAIN threadPool
      BY <3>3, <2>1, <2>3, <1>2, <1>4, <3>2 DEF FirstFileFits
    <3>4. CASE i \notin DOMAIN threadPool \/ j \notin DOMAIN threadPool
      BY <3>4, <2>3, <1>2, <3>1
    <3>5. QED
      BY <3>3, <3>4
  <2>4. \A q \in Objects : internalGc'[q] # "freed"
    BY <2>1 DEF FirstFileFits
  <2>5. QED
    BY <2>2, <2>3, <2>4 DEF FirstFileFits
<1>12. QED
  BY <1>1, <1>7, <1>8, <1>9, <1>10, <1>11

LEMMA AwaitTInv == ASSUME TInv, NEW o \in Objects, Await(o) PROVE TInv'
<1> USE DEF TInv, Await, heapVars, runVars
<1>1. ThreadsTypeOK'
  BY ConstantsAssumption DEF ThreadsTypeOK
<1>2. RunsFit' /\ ThreadsFit' /\ PoolFits'
  BY DEF RunsFit, ThreadsFit, PoolFits, Pooled, RunOnce
<1>3. HeapFits' /\ FirstFileFits'
  BY DEF HeapFits, FirstFileFits, InProgram, RunOnce
<1>4. QED
  BY <1>1, <1>2, <1>3

LEMMA JoinedTInv == ASSUME TInv, Joined PROVE TInv'
<1> USE DEF TInv, Joined, heapVars
<1>1. ThreadsTypeOK'
  BY ConstantsAssumption DEF ThreadsTypeOK
<1>2. RunsFit' /\ ThreadsFit' /\ PoolFits'
  BY DEF RunsFit, ThreadsFit, PoolFits, Pooled, RunOnce
<1>3. HeapFits' /\ FirstFileFits'
  BY DEF HeapFits, FirstFileFits, InProgram, RunOnce
<1>4. QED
  BY <1>1, <1>2, <1>3

------------------------------------------------------------------------------
(* The runs and the end of a file.                                          *)

LEMMA StoreTInv == ASSUME TInv, NEW r \in Runs, StoreResult(r) PROVE TInv'
<1> USE DEF TInv, StoreResult
<1>1. ThreadsTypeOK'
  BY DEF ThreadsTypeOK
<1>2. RunsFit' /\ PoolFits'
  BY DEF RunsFit, PoolFits, Pooled, RunOnce, ThreadsTypeOK
<1>3. ThreadsFit'
  <2>1. owner[r] \in Objects
    BY DEF RunsFit, ThreadsTypeOK
  <2>2. ASSUME NEW s \in Runs, life'[s] = "ended", RunOnce(owner[s])
        PROVE  result'[owner[s]] = s
    <3>1. CASE s = r
      BY <3>1, <2>1 DEF ThreadsTypeOK
    <3>2. CASE s # r
      <4>1. owner[s] # owner[r] /\ life[s] = "ended"
        BY <3>2, <2>2 DEF RunOnce, ThreadsTypeOK
      <4>2. QED
        BY <4>1, <2>2 DEF ThreadsFit, ThreadsTypeOK
    <3>3. QED
      BY <3>1, <3>2
  <2>3. QED
    BY <2>2 DEF ThreadsFit, RunOnce
<1>4. HeapFits' /\ FirstFileFits'
  BY DEF HeapFits, FirstFileFits, InProgram, RunOnce
<1>5. QED
  BY <1>1, <1>2, <1>3, <1>4

LEMMA EndOfProgramTInv == ASSUME TInv, EndOfProgram PROVE TInv'
<1> USE DEF TInv, EndOfProgram, heapVars, runVars
<1>1. ThreadsTypeOK'
  BY DEF ThreadsTypeOK
<1>2. RunsFit' /\ ThreadsFit'
  BY DEF RunsFit, ThreadsFit, RunOnce
<1>3. PoolFits'
  <2>1. \A i \in DOMAIN threadPool : 1 <= i
    BY DEF ThreadsTypeOK
  <2>2. \A o \in Objects : Pooled(o) => Pooled(o)'
    BY <2>1 DEF Pooled
  <2>3. \A r \in joinable : owner[r] \in Objects
    BY DEF ThreadsTypeOK, RunsFit
  <2>4. QED
    BY <2>2, <2>3 DEF PoolFits, Pooled, RunOnce
<1>4. HeapFits' /\ FirstFileFits'
  BY DEF HeapFits, FirstFileFits, InProgram, RunOnce
<1>5. QED
  BY <1>1, <1>2, <1>3, <1>4

LEMMA TearDownTInv == ASSUME TInv, TearDownEntry PROVE TInv'
<1> USE DEF TInv, TearDownEntry
<1> DEFINE o == threadPool[entry]
<1>1. /\ entry \in DOMAIN threadPool /\ o \in Objects
      /\ entry \in Nat /\ entry' = entry + 1
      /\ \A i \in DOMAIN threadPool : i \in Nat
      /\ \A r \in joinable : r \in Runs /\ owner[r] \in Objects
  BY DEF ThreadsTypeOK, RunsFit
<1>2. /\ internalGc'[o] = "freed"
      /\ \A q \in Objects \ {o} : internalGc'[q] = internalGc[q] /\ thread'[q] = thread[q]
      /\ thread'[o] = IF onVM THEN NoRun ELSE thread[o]
      /\ joinable' = joinable \ {thread[o]}
      /\ at = "teardown" /\ at' = at
  BY <1>1 DEF ThreadsTypeOK
<1>3. ThreadsTypeOK'
  BY <1>1 DEF ThreadsTypeOK
<1>4. RunsFit'
  BY <1>2 DEF RunsFit
<1>5. ASSUME NEW r \in joinable', RunOnce(owner[r])
      PROVE  r \in joinable /\ owner[r] \in Objects \ {o}
  BY <1>1, <1>2, <1>5 DEF ThreadsFit
<1>6. ThreadsFit'
  <2>1. \A q \in Objects : thread'[q] # NoRun => owner[thread'[q]] = q
    BY <1>2 DEF ThreadsFit
  <2>2. QED
    BY <2>1, <1>2, <1>5 DEF ThreadsFit, RunOnce
<1>7. PoolFits'
  <2>1. ASSUME NEW q \in Objects \ {o}, Pooled(q) PROVE Pooled(q)'
    <3>1. PICK i \in DOMAIN threadPool : threadPool[i] = q /\ entry <= i
      BY <2>1, <1>2 DEF Pooled
    <3>2. entry' <= i
      BY <3>1, <1>1, <2>1
    <3>3. QED
      BY <3>1, <3>2 DEF Pooled
  <2>2. ASSUME NEW r \in joinable', RunOnce(owner[r])
        PROVE  /\ owner[r] \in alive
               /\ internalGc'[owner[r]] = "live"
               /\ Pooled(owner[r])'
    BY <2>1, <2>2, <1>2, <1>5 DEF PoolFits
  <2>3. QED
    BY <2>2, <1>2 DEF PoolFits, RunOnce, Pooled
<1>8. HeapFits'
  BY <1>1, <1>2 DEF HeapFits, InProgram, ThreadsTypeOK
<1>9. FirstFileFits'
  <2>1. SUFFICES ASSUME file = 1 PROVE FirstFileFits'
    BY DEF FirstFileFits
  <2>2. ASSUME NEW q \in Objects, internalGc'[q] = "freed"
        PROVE  \E i \in DOMAIN threadPool : i < entry' /\ threadPool[i] = q
    <3>1. CASE q = o
      BY <3>1, <1>1
    <3>2. CASE q # o
      <4>1. PICK i \in DOMAIN threadPool : i < entry /\ threadPool[i] = q
        BY <3>2, <2>1, <2>2, <1>2 DEF FirstFileFits
      <4>2. i < entry'
        BY <4>1, <1>1
      <4>3. QED
        BY <4>1, <4>2
    <3>3. QED
      BY <3>1, <3>2
  <2>3. QED
    BY <2>1, <2>2, <1>2 DEF FirstFileFits, RunOnce
<1>10. QED
  BY <1>3, <1>4, <1>6, <1>7, <1>8, <1>9

\* Nothing but the place changes.
LEMMA TearDownFreedTInv == ASSUME TInv, TearDownFreed PROVE TInv'
<1> USE DEF TInv, TearDownFreed, heapVars, runVars
<1>1. ThreadsTypeOK'
  BY DEF ThreadsTypeOK
<1>2. RunsFit' /\ ThreadsFit' /\ PoolFits'
  BY DEF RunsFit, ThreadsFit, PoolFits, Pooled, RunOnce
<1>3. HeapFits' /\ FirstFileFits'
  BY DEF HeapFits, FirstFileFits, InProgram, RunOnce
<1>4. QED
  BY <1>1, <1>2, <1>3

LEMMA SweepTInv == ASSUME TInv, SweepHeap PROVE TInv'
<1> USE DEF TInv, SweepHeap, runVars
<1>1. ThreadsTypeOK'
  BY DEF ThreadsTypeOK
<1>2. RunsFit' /\ ThreadsFit'
  BY DEF RunsFit, ThreadsFit, RunOnce
<1>3. ASSUME NEW r \in joinable, RunOnce(owner[r]) PROVE FALSE
  <2>1. PICK i \in DOMAIN threadPool : entry <= i
    BY <1>3 DEF PoolFits, Pooled
  <2>2. QED
    BY <2>1 DEF ThreadsTypeOK
<1>4. PoolFits'
  BY <1>3 DEF PoolFits, RunOnce
<1>5. HeapFits' /\ FirstFileFits'
  BY DEF HeapFits, FirstFileFits, InProgram
<1>6. QED
  BY <1>1, <1>2, <1>4, <1>5

LEMMA NextFileTInv == ASSUME TInv, NextFile PROVE TInv'
<1> USE DEF TInv, NextFile, heapVars, runVars
<1>1. ThreadsTypeOK'
  BY ConstantsAssumption DEF ThreadsTypeOK
<1>2. RunsFit' /\ ThreadsFit'
  BY DEF RunsFit, ThreadsFit, RunOnce
<1>3. PoolFits'
  BY DEF PoolFits, RunOnce
<1>4. file' = 1 => at' = "finished"
  BY ConstantsAssumption DEF ThreadsTypeOK
<1>5. HeapFits'
  <2>1. onVM => threadPool' = <<>>
    BY DEF HeapFits
  <2>2. QED
    BY <1>4, <2>1 DEF HeapFits, InProgram
<1>6. FirstFileFits'
  BY <1>4 DEF FirstFileFits
<1>7. QED
  BY <1>1, <1>2, <1>3, <1>5, <1>6

LEMMA NextTInv == TInv /\ [Next]_vars => TInv'
<1>1. SUFFICES ASSUME TInv, [Next]_vars PROVE TInv'
  OBVIOUS
<1>2. ASSUME NEW o \in Objects, NEW r \in Runs, RunAsync(o, r) PROVE TInv'
  BY <1>1, <1>2, StartTInv DEF RunAsync, Start
<1>3. ASSUME NEW o \in Objects, NEW r \in Runs, RunBlocking(o, r) PROVE TInv'
  BY <1>1, <1>3, StartTInv DEF RunBlocking
<1>4. CASE Interpreter
  BY <1>1, <1>2, <1>3, <1>4, CreateTInv, AwaitTInv, JoinedTInv DEF Interpreter
<1>5. CASE Teardown
  BY <1>1, <1>5, EndOfProgramTInv, TearDownTInv, TearDownFreedTInv, SweepTInv,
     NextFileTInv DEF Teardown
<1>6. QED
  BY <1>1, <1>4, <1>5, StoreTInv, StutterTInv DEF Next

THEOREM TInvAlways == Spec => []TInv
BY InitTInv, NextTInv, PTL DEF Spec

------------------------------------------------------------------------------
\* The pool of threads and the objects keep their types; the interpreter waits
\* for a run whenever, and only when, it is in a join.
THEOREM ThreadsTypes == Spec => []ThreadsTypeOK
<1>1. TInv => ThreadsTypeOK
  BY DEF TInv
<1>2. QED
  BY <1>1, TInvAlways, PTL

\* A callback of an object that is run once finds its object and the object's
\* collector until it ends, whatever the file does and however it ends.
THEOREM CallbacksKeepObjects == Spec => []SingleRunsJoined
<1>1. TInv => SingleRunsJoined
  BY DEF TInv, RunsFit, PoolFits, SingleRunsJoined
<1>2. QED
  BY <1>1, TInvAlways, PTL

\* await and runBlocking give the value of the run they have waited for.
THEOREM AwaitGivesResult == Spec => []AwaitDelivers
<1>1. TInv => AwaitDelivers
  <2>1. SUFFICES ASSUME TInv, NEW o \in alive, thread[o] # NoRun,
                        thread[o] \notin joinable, RunOnce(o)
                 PROVE  result[o] = thread[o]
    BY DEF AwaitDelivers
  <2>2. o \in Objects /\ thread[o] \in Runs /\ owner[thread[o]] = o
    BY <2>1 DEF TInv, ThreadsTypeOK, ThreadsFit
  <2>3. life[thread[o]] = "ended"
    BY <2>1, <2>2, ConstantsAssumption DEF TInv, ThreadsTypeOK, RunsFit
  <2>4. QED
    BY <2>1, <2>2, <2>3 DEF TInv, ThreadsFit
<1>2. QED
  BY <1>1, TInvAlways, PTL

\* The loop at the end of a file touches no freed thread object: on the VM in
\* every file, on the evaluator in the first for objects that are run once.
THEOREM TeardownFindsObjects == Spec => []TeardownMeetsLiveObjects
<1>1. TInv => TeardownMeetsLiveObjects
  <2>1. SUFFICES ASSUME TInv, at = "teardown", entry <= Len(threadPool),
                        onVM \/ (file = 1 /\ RunOnce(threadPool[entry]))
                 PROVE  /\ threadPool[entry] \in alive
                        /\ internalGc[threadPool[entry]] = "freed" =>
                               onVM /\ thread[threadPool[entry]] = NoRun
    BY DEF TeardownMeetsLiveObjects
  <2>2. /\ entry \in DOMAIN threadPool
        /\ threadPool[entry] \in Objects
        /\ \A i \in DOMAIN threadPool : i \in Nat
        /\ entry \in Nat
    BY <2>1 DEF TInv, ThreadsTypeOK
  <2>3. threadPool[entry] \in alive
    BY <2>1, <2>2 DEF TInv, HeapFits
  <2>4. CASE onVM
    <3>1. \A o \in Objects : internalGc[o] = "freed" => thread[o] = NoRun
      BY <2>1, <2>4 DEF TInv, HeapFits
    <3>2. QED
      BY <3>1, <2>2, <2>3, <2>4
  <2>5. CASE ~onVM
    <3>1. file = 1 /\ RunOnce(threadPool[entry])
      BY <2>1, <2>5
    <3>2. ASSUME internalGc[threadPool[entry]] = "freed" PROVE FALSE
      <4>1. PICK i \in DOMAIN threadPool : i < entry /\ threadPool[i] = threadPool[entry]
        BY <3>1, <3>2, <2>1, <2>2 DEF TInv, FirstFileFits
      <4>2. i = entry
        BY <4>1, <3>1, <2>1, <2>2 DEF TInv, FirstFileFits
      <4>3. QED
        BY <4>1, <4>2, <2>2
    <3>3. QED
      BY <3>2, <2>3
  <2>6. QED
    BY <2>4, <2>5
<1>2. QED
  BY <1>1, TInvAlways, PTL
==============================================================================
