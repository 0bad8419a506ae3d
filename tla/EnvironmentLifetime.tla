-------------------------- MODULE EnvironmentLifetime --------------------------
(***************************************************************************)
(* Who keeps an Environment of the evaluator alive.  A function object       *)
(* points to the environment it was made in and counts for nothing; what     *)
(* counts is a running or unsettled function call, an instance, the          *)
(* environment of a function that was called, and one that returned a        *)
(* function.  The collector frees a listed environment whose ref_count is    *)
(* not positive, and only between two statements of the program.             *)
(*                                                                         *)
(* Values are closures and instances, what a program can hold an environment *)
(* by; an instance is known by its instance_environment.  Every scope has a  *)
(* closure over itself among its names (a def, or the methods of a class),   *)
(* so store holds only the others.  Left out: parents of classes, lists and  *)
(* hashes, and programs run by eval or import inside a call.                *)
(***************************************************************************)
EXTENDS Integers, Sequences, FiniteSets

CONSTANTS MaxEnvs,      \* environments a program may make
          MaxDepth,     \* calls active at once
          MaxBindings   \* assignments of closures and instances in force at once

ASSUME BoundsAssumption == MaxEnvs \in Nat /\ MaxDepth \in Nat /\ MaxBindings \in Nat

Global == 0
Envs == 1..MaxEnvs
Scopes == Envs \union {Global}

Function(e) == [is |-> "function", env |-> e]
Instance(e) == [is |-> "instance", env |-> e]
NoValue == [is |-> "null", env |-> Global]
Values == {Function(e) : e \in Scopes} \union {Instance(e) : e \in Envs}

VARIABLES
    created,       \* how many environments have been made
    freed,         \* those that have been deleted
    kind,          \* what each is the environment of
    outer,         \* Environment::outer
    store,         \* Environment::store
    refCount,      \* Environment::ref_count
    listed,        \* gc_environments
    scheduled,     \* scheduled_to_DECREF_environments
    objects,       \* the instances that exist
    stack,         \* the environments of the active calls, innermost first
    result,        \* what the last call returned, until it is used
    phase,         \* running the file, its objects freed, the collector gone
    pinned,        \* history: counts that nobody takes back
    escaped        \* history: frames that calls left behind in a closure over
                   \* them without returning a function

memory == <<freed, refCount, listed, scheduled, objects, pinned>>
vars == <<created, kind, outer, store, stack, result, phase, escaped, memory>>

Alive == (1..created) \ freed

Init ==
    /\ created = 0
    /\ freed = {}
    /\ kind = [e \in Envs |-> "none"]
    /\ outer = [e \in Envs |-> Global]
    /\ store = [e \in Scopes |-> {}]
    /\ refCount = [e \in Envs |-> 0]
    /\ listed = {}
    /\ scheduled = {}
    /\ objects = {}
    /\ stack = <<>>
    /\ result = NoValue
    /\ phase = "running"
    /\ pinned = {}
    /\ escaped = {}

------------------------------------------------------------------------------
(* What a program can see and where it can assign.                          *)

Current == IF stack = <<>> THEN Global ELSE Head(stack)
IsInstance(e) == e \in Envs /\ kind[e] = "instance"

(* The least set of scopes that has these and, with each, what is next to   *)
(* it.                                                                      *)
Closure(from, next) ==
    LET larger == {from \union S : S \in SUBSET (Scopes \ from)}
        closed == {S \in larger : \A e \in S : next[e] \subseteq S}
    IN  {e \in Scopes : \A S \in closed : e \in S}

(* An environment and those around it, as Environment::Get goes out.        *)
Around == [e \in Scopes |-> IF e = Global THEN {} ELSE {outer[e]}]
Chain(scope) == Closure({scope}, Around)

(* Where Environment::Set may put a name: the frame of a method stops at    *)
(* its instance.                                                            *)
SetTargets(scope) ==
    Closure({scope}, [e \in Scopes |-> IF e = Global \/ IsInstance(e) THEN {} ELSE {outer[e]}])

(* The values an environment binds, the closure over itself included.       *)
Bound(e) == store[e] \union {Function(e)}

(* The bound on assignments.                                                *)
HasRoom == Cardinality(UNION {{e} \X store[e] : e \in Scopes}) < MaxBindings

(* A value the program can use without touching memory that is gone.        *)
Usable(v) ==
    CASE v.is = "function" -> Chain(v.env) \subseteq Alive \union {Global}
      [] v.is = "instance" -> v.env \in objects
      [] OTHER -> FALSE

Named == {result} \union UNION {Bound(e) : e \in Chain(Current)}
This == IF Current # Global /\ IsInstance(outer[Current]) THEN {Instance(outer[Current])} ELSE {}
Fields(values) == UNION {Bound(v.env) : v \in {w \in values : w.is = "instance" /\ Usable(w)}}
Visible ==
    LET near == Named \union This
        seen == near \union Fields(near)
    IN  {v \in Values : v \in seen /\ Usable(v)}

(* What can be reached from the variables and the result, through the       *)
(* environments that still exist.                                           *)
Roots(active, value) ==
    {Global} \union {active[i] : i \in DOMAIN active} \union {value.env}
Refers(bound) ==
    [e \in Scopes |->
        IF e = Global THEN {v.env : v \in bound[e]}
        ELSE IF e \in Alive THEN {outer[e]} \union {v.env : v \in bound[e]}
        ELSE {}]
ReachedFrom(bound, from) == Closure(from, Refers(bound))

------------------------------------------------------------------------------
(* Memory.                                                                  *)

Plus(counts, e) == [counts EXCEPT ![e] = @ + 1]
Minus(counts, es) == [e \in Envs |-> IF e \in es THEN counts[e] - 1 ELSE counts[e]]
Settled(counts) == Minus(counts, scheduled)

(* Broken on purpose: the list is not cleared.                              *)
ConsumeAgain(counts) ==
    \/ refCount' = counts /\ UNCHANGED scheduled
    \/ refCount' = Settled(counts) /\ UNCHANGED scheduled

(* Every hundredth call of consumeScheduledDECREFEnvironments is effective. *)
ConsumeScheduled(counts) ==
    \/ refCount' = counts /\ UNCHANGED scheduled
    \/ refCount' = Settled(counts) /\ scheduled' = {}

------------------------------------------------------------------------------
(* Calls.                                                                   *)

(* A new environment e, with the arguments bound in it.                     *)
Make(e, its, around, bound) ==
    /\ created' = e
    /\ kind' = [kind EXCEPT ![e] = its]
    /\ outer' = [outer EXCEPT ![e] = around]
    /\ store' = [store EXCEPT ![e] = bound]

Arguments == {{}} \union {{v} : v \in Visible}

Enter(e) ==
    /\ e \in Envs
    /\ Len(stack) < MaxDepth
    /\ stack' = <<e>> \o stack
    /\ result' = NoValue

Running == phase = "running"

(* evalCallExpression, ApplyFunction and extendFunctionEnv                  *)
Call(f) ==
    /\ Running
    /\ f.is = "function"
    /\ LET e == created + 1
       IN  /\ Enter(e)
           /\ \E args \in Arguments : Make(e, "function", f.env, args)
           /\ refCount' = Plus(IF f.env = Global THEN refCount ELSE Plus(refCount, f.env), e)
           /\ pinned' = pinned \union ({f.env} \ {Global})
           /\ listed' = listed \union {e}
           /\ scheduled' = scheduled \union {e}
    /\ UNCHANGED <<freed, objects, phase, escaped>>

(* ApplyMethod and ExtendMethodEnv: the frame is neither counted nor listed *)
(* while the method runs.  A field with a method of another instance runs   *)
(* in that one.                                                             *)
Receivers ==
    LET instances == {v.env : v \in {w \in Visible : w.is = "instance"}}
        callbacks == {v \in UNION {Bound(i) : i \in instances} :
                        v.is = "function" /\ IsInstance(v.env) /\ Usable(v)}
    IN  instances \union {v.env : v \in callbacks}

CallMethod(i) ==
    /\ Running
    /\ Enter(created + 1)
    /\ \E args \in Arguments : Make(created + 1, "method", i, args)
    /\ UNCHANGED <<memory, phase, escaped>>

(* Broken on purpose: the count of a new instance is left at zero.          *)
NotCounted(i) == refCount

CountedInstance(i) == [refCount EXCEPT ![i] = 1]

(* ApplyFunction of a class, whose methods are closures over the instance;  *)
(* the constructor runs first if there is one.                              *)
New ==
    /\ Running
    /\ LET i == created + 1
       IN  /\ i \in Envs
           /\ Make(i, "instance", Global, {})
           /\ listed' = listed \union {i}
           /\ objects' = objects \union {i}
           /\ result' = Instance(i)
           /\ ConsumeScheduled(CountedInstance(i))
    /\ UNCHANGED <<freed, stack, phase, pinned, escaped>>

NewWithConstructor ==
    /\ Running
    /\ LET i == created + 1
           e == created + 2
           args == Arguments
       IN  /\ Enter(e)
           /\ created' = e
           /\ kind' = [kind EXCEPT ![i] = "instance", ![e] = "constructor"]
           /\ outer' = [outer EXCEPT ![i] = Global, ![e] = i]
           /\ \E bound \in args : store' = [store EXCEPT ![i] = {}, ![e] = bound]
           /\ refCount' = CountedInstance(i)
           /\ listed' = listed \union {i}
           /\ objects' = objects \union {i}
    /\ UNCHANGED <<freed, scheduled, phase, pinned, escaped>>

(* Broken on purpose: a returned function does not keep its environment.    *)
PinsNothing(v) == FALSE

(* UnwrapReturnValue: whoever returns a function keeps its environment for  *)
(* good.                                                                    *)
Pins(v) == v.is = "function"

Unwrapped(e, v) == IF Pins(v) THEN Plus(refCount, e) ELSE refCount

(* Broken on purpose: a method's environment is never listed.               *)
StillUnlisted(e) == listed

(* A function's environment is there already, a method's is added now.      *)
ListedAfter(e) == listed \union {e}

(* A closure over the frame e is left in a variable, a field or an argument  *)
(* of another scope that the program reaches.                               *)
LeftBehind(e, reached) == \E x \in reached \ {e} : Function(e) \in store[x]

Return(v) ==
    /\ Running
    /\ stack # <<>>
    /\ LET e == Head(stack)
           handed == IF kind[e] = "constructor" THEN Instance(outer[e]) ELSE v
       IN  /\ stack' = Tail(stack)
           /\ result' = handed
           /\ pinned' = IF Pins(v) THEN pinned \union {e} ELSE pinned
           /\ listed' = ListedAfter(e)
           /\ IF kind[e] = "method"
              THEN refCount' = Unwrapped(e, v) /\ UNCHANGED scheduled
              ELSE ConsumeScheduled(Unwrapped(e, v))
           /\ escaped' = IF /\ v.is # "function" /\ e \notin pinned
                            /\ LeftBehind(e, ReachedFrom(store, Roots(Tail(stack), handed)))
                         THEN escaped \union {e} ELSE escaped
    /\ UNCHANGED <<created, kind, outer, store, freed, objects, phase>>

------------------------------------------------------------------------------
(* Variables and fields.                                                    *)

Targets == SetTargets(Current) \union {v.env : v \in {w \in Visible : w.is = "instance"}}

(* An assignment; a closure over t or a scope around it has a name there.   *)
Assign(v, t) ==
    /\ Running
    /\ v.is = "function" => v.env \notin Chain(t)
    /\ store' = [store EXCEPT ![t] = @ \union {v}]
    /\ result' = NoValue
    /\ UNCHANGED <<created, kind, outer, stack, phase, escaped, memory>>

(* A variable or field takes a value that holds nothing.                    *)
Forget(v, t) ==
    /\ Running
    /\ v \in store[t]
    /\ store' = [store EXCEPT ![t] = @ \ {v}]
    /\ result' = NoValue
    /\ UNCHANGED <<created, kind, outer, stack, phase, escaped, memory>>

------------------------------------------------------------------------------
(* Collection.                                                              *)

(* Broken on purpose: only the program's own variables are marked.          *)
MarkedFromGlobal(kept) == {v.env : v \in {w \in store[Global] : w.is = "instance"}}

(* markObjects: every listed environment is a root, so the environments of  *)
(* marked instances are roots already.                                      *)
Marked(kept) ==
    {v.env : v \in {w \in UNION {store[e] : e \in kept \union {Global}} : w.is = "instance"}}

(* markObject does not go from a function to the environment it is over: an *)
(* instance that only closures over it or over frames of its methods reach  *)
(* is not marked.  ~Ad_Class_Instance takes back the count of its           *)
(* environment, and the next sweep frees that.                              *)
MarkAndSweep(kept) ==
    LET dead == objects \ Marked(kept)
    IN  /\ objects' = objects \ dead
        /\ refCount' = Minus(refCount, dead)

(* The end of a statement of EvalProgram that collects objects.             *)
EndStatement ==
    /\ Running
    /\ stack = <<>>
    /\ result' = NoValue
    /\ MarkAndSweep(listed)
    /\ UNCHANGED <<created, kind, outer, store, stack, phase, freed, listed, scheduled, pinned,
                   escaped>>

(* sweepEnvironments *)
Garbage == {e \in listed : refCount[e] <= 0}
SweepEnvironments ==
    /\ freed' = freed \union Garbage
    /\ listed' = listed \ Garbage

(* The same when it is also the turn of the environments.                   *)
EndStatementSweeping ==
    /\ Running
    /\ stack = <<>>
    /\ result' = NoValue
    /\ SweepEnvironments
    /\ MarkAndSweep(listed \ Garbage)
    /\ store' = [e \in Scopes |-> IF e \in Garbage THEN {} ELSE store[e]]
    /\ UNCHANGED <<created, kind, outer, stack, phase, scheduled, pinned, escaped>>

(* The end of Repl::ExecuteFile: forceFreeObjects leaves no value.          *)
EndOfFile ==
    /\ Running
    /\ stack = <<>>
    /\ phase' = "ended"
    /\ result' = NoValue
    /\ SweepEnvironments \/ UNCHANGED <<freed, listed>>
    /\ objects' = {}
    /\ refCount' = Minus(refCount, objects)
    /\ store' = [e \in Scopes |-> {}]
    /\ UNCHANGED <<created, kind, outer, stack, scheduled, pinned, escaped>>

(* ~GarbageCollector: forceFreeEnvironments                                 *)
Quit ==
    /\ phase = "ended"
    /\ phase' = "gone"
    /\ refCount' = [e \in Envs |-> IF e \in listed THEN 0 ELSE refCount[e]]
    /\ freed' = freed \union listed
    /\ UNCHANGED <<created, kind, outer, store, stack, result, listed, scheduled,
                   objects, pinned, escaped>>

Next ==
    \/ \E f \in Visible : Call(f)
    \/ \E i \in Receivers : CallMethod(i)
    \/ New
    \/ NewWithConstructor
    \/ \E v \in Visible \union {NoValue} : Return(v)
    \/ HasRoom /\ \E v \in Visible, t \in Targets : Assign(v, t)
    \/ \E t \in Targets : \E v \in store[t] : Forget(v, t)
    \/ EndStatement
    \/ EndStatementSweeping
    \/ EndOfFile
    \/ Quit

Spec == Init /\ [][Next]_vars

------------------------------------------------------------------------------
(* Properties.                                                              *)

(* No count of an environment ever goes below zero, whatever the order of   *)
(* returns, effective consumptions and sweeps (Ad_DECREF has no check).     *)
EnvironmentTypeOK ==
    /\ created \in 0..MaxEnvs
    /\ freed \subseteq 1..created
    /\ kind \in [Envs -> {"none", "function", "method", "constructor", "instance"}]
    /\ outer \in [Envs -> Scopes]
    /\ store \in [Scopes -> SUBSET Values]
    /\ refCount \in [Envs -> Nat]
    /\ listed \subseteq Envs /\ scheduled \subseteq Envs /\ objects \subseteq Envs
    /\ stack \in Seq(Envs)
    /\ result \in Values \union {NoValue}
    /\ phase \in {"running", "ended", "gone"}
    /\ pinned \subseteq Envs /\ escaped \subseteq Envs

(* While the program runs nothing that will still be counted down, freed or *)
(* run belongs to memory that is gone: not an environment scheduled for its *)
(* DECREF, not a listed one, not the environment of an instance, not the    *)
(* frame of an active call nor what is around a function's frame.           *)
NothingFreedIsHeld ==
    /\ phase # "gone" => scheduled \union listed \union objects \subseteq Alive
    /\ \A i \in DOMAIN stack : stack[i] \in Alive
    /\ \A e \in Alive : kind[e] = "function" => outer[e] \in Alive \union {Global}

(* What UnwrapReturnValue promises and what the marking does.  The frame of  *)
(* a call that returned a function stays, and so do the frames around it.   *)
(* Nothing else that the program can reach is gone but the frames that      *)
(* calls left behind without returning a function and environments of       *)
(* instances, and of those only where the program has no longer the         *)
(* instance itself: one it can name has not been collected.  Nothing is     *)
(* claimed of an instance that only closures still lead to: after           *)
(* "let f = A().m();" it is collected although f looks names up in it.      *)
ClosuresKeepScopes ==
    phase = "running" =>
        LET reached == ReachedFrom(store, Roots(stack, result))
            bound == {result} \union UNION {store[e] : e \in reached \intersect (Alive \union {Global})}
        IN  /\ \A e \in pinned : \A x \in Chain(e) : x \in Alive \union {Global} \/ IsInstance(x)
            /\ \A e \in reached \ (Alive \union {Global}) : IsInstance(e) \/ e \in escaped
            /\ \A v \in bound : v.is = "instance" => v.env \in objects

(* Every environment is freed in the end, those of closures, of methods and *)
(* of instances that were never collected included.                         *)
NothingLeaks == phase = "gone" => Alive = {}
=============================================================================
