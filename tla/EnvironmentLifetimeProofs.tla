----------------------- MODULE EnvironmentLifetimeProofs -----------------------
(***************************************************************************)
(* Proofs about EnvironmentLifetime, for programs of any size: the counts    *)
(* cover what will be taken back, so that nothing is counted down, freed or  *)
(* run after it is gone, and in the end everything is.                       *)
(***************************************************************************)
EXTENDS EnvironmentLifetime, TLAPS

Elements(s) == {s[i] : i \in DOMAIN s}

(* What somebody will still take back of an environment, or never will.     *)
One(P) == IF P THEN 1 ELSE 0
Owed(e) == One(e \in scheduled) + One(e \in pinned) + One(e \in objects)

(* Every count covers what is owed: this is what keeps a sweep from freeing *)
(* an environment that is still scheduled, pinned or an instance's.         *)
CountsCover == phase # "gone" => \A e \in Envs : refCount[e] >= Owed(e)

(* Who holds which environment while there is a collector.                  *)
HoldersFit ==
    phase # "gone" =>
        /\ listed \subseteq Alive
        /\ scheduled \subseteq listed
        /\ objects \subseteq listed
        /\ pinned \subseteq Alive
        /\ Alive \subseteq listed \union Elements(stack)
        /\ \A e \in Alive : kind[e] = "function" => outer[e] \in pinned \union {Global}

StackFits ==
    /\ Elements(stack) \subseteq Alive
    /\ phase # "running" => stack = <<>>
    /\ phase = "gone" => Alive = {}
    /\ \A e \in Envs : kind[e] = "constructor" => outer[e] \in Envs

EInv == EnvironmentTypeOK /\ CountsCover /\ HoldersFit /\ StackFits

------------------------------------------------------------------------------
\* A call puts its environment on the stack.
LEMMA PushElements ==
    ASSUME NEW s \in Seq(Envs), NEW e \in Envs
    PROVE  <<e>> \o s \in Seq(Envs) /\ Elements(<<e>> \o s) = {e} \union Elements(s)
<1> DEFINE t == <<e>> \o s
<1>1. /\ t \in Seq(Envs)
      /\ Len(t) = Len(s) + 1
      /\ t[1] = e
      /\ \A i \in 1..Len(s) : t[i + 1] = s[i]
      /\ \A i \in 2..Len(t) : t[i] = s[i - 1] /\ i - 1 \in 1..Len(s)
  OBVIOUS
<1>2. DOMAIN t = 1..Len(t) /\ DOMAIN s = 1..Len(s) /\ Len(s) \in Nat
  BY <1>1
<1> HIDE DEF t
<1>3. \A i \in 1..Len(s) : i + 1 \in 1..Len(t)
  BY <1>1, <1>2
<1>4. Elements(s) \subseteq Elements(t) /\ e \in Elements(t)
  <2>1. 1 \in DOMAIN t
    BY <1>1, <1>2
  <2>2. e \in Elements(t)
    BY <1>1, <2>1 DEF Elements
  <2>3. ASSUME NEW i \in DOMAIN s PROVE s[i] \in Elements(t)
    BY <1>1, <1>2, <1>3 DEF Elements
  <2>4. QED
    BY <2>2, <2>3 DEF Elements
<1>5. Elements(t) \subseteq {e} \union Elements(s)
  <2>1. SUFFICES ASSUME NEW i \in 1..Len(t) PROVE t[i] \in {e} \union Elements(s)
    BY <1>2 DEF Elements
  <2>2. CASE i = 1
    BY <1>1, <2>2
  <2>3. CASE i # 1
    <3>1. i \in 2..Len(t)
      BY <1>1, <1>2, <2>3
    <3>2. QED
      BY <1>1, <1>2, <3>1 DEF Elements
  <2>4. QED
    BY <2>2, <2>3
<1>6. QED
  BY <1>1, <1>4, <1>5 DEF t

\* A return takes the innermost environment off the stack.
LEMMA PopElements ==
    ASSUME NEW s \in Seq(Envs), s # <<>>
    PROVE  /\ Head(s) \in Envs
           /\ Tail(s) \in Seq(Envs)
           /\ Elements(s) = Elements(Tail(s)) \union {Head(s)}
<1>1. /\ Head(s) \in Envs
      /\ Tail(s) \in Seq(Envs)
      /\ Len(s) \in Nat \ {0}
      /\ Len(Tail(s)) = Len(s) - 1
      /\ \A i \in 1..(Len(s) - 1) : Tail(s)[i] = s[i + 1]
      /\ Head(s) = s[1]
      /\ DOMAIN s = 1..Len(s) /\ DOMAIN Tail(s) = 1..(Len(s) - 1)
  OBVIOUS
<1>2. Elements(Tail(s)) \subseteq Elements(s) /\ Head(s) \in Elements(s)
  <2>1. \A i \in 1..(Len(s) - 1) : i + 1 \in 1..Len(s)
    BY <1>1
  <2>2. QED
    BY <1>1, <2>1 DEF Elements
<1>3. Elements(s) \subseteq Elements(Tail(s)) \union {Head(s)}
  <2>1. SUFFICES ASSUME NEW i \in 1..Len(s)
                 PROVE  s[i] \in Elements(Tail(s)) \union {Head(s)}
    BY <1>1 DEF Elements
  <2>2. CASE i = 1
    BY <1>1, <2>2
  <2>3. CASE i # 1
    <3>1. i - 1 \in 1..(Len(s) - 1) /\ Tail(s)[i - 1] = s[i]
      BY <1>1, <2>3
    <3>2. QED
      BY <1>1, <3>1 DEF Elements
  <2>4. QED
    BY <2>2, <2>3
<1>4. QED
  BY <1>1, <1>2, <1>3

\* What a program sees are values, and the closures among them are over
\* environments that still exist.
LEMMA VisibleValues ==
    \A v \in Visible : /\ v \in Values
                       /\ v.env \in Scopes
                       /\ v.is = "function" => v.env \in Alive \union {Global}
<1>1. SUFFICES ASSUME NEW v \in Visible
               PROVE  /\ v \in Values
                      /\ v.env \in Scopes
                      /\ v.is = "function" => v.env \in Alive \union {Global}
  OBVIOUS
<1>2. v \in Values /\ Usable(v)
  BY <1>1 DEF Visible
<1>3. v.env \in Scopes
  BY <1>2 DEF Values, Function, Instance, Scopes
<1>4. ASSUME v.is = "function" PROVE v.env \in Alive \union {Global}
  <2>1. Chain(v.env) \subseteq Alive \union {Global}
    BY <1>2, <1>4 DEF Usable
  <2>2. v.env \in Chain(v.env)
    BY <1>3 DEF Chain, Closure
  <2>3. QED
    BY <2>1, <2>2
<1>5. QED
  BY <1>2, <1>3, <1>4

\* The program begins with nothing.
LEMMA InitEInv == Init => EInv
<1>1. SUFFICES ASSUME Init PROVE EInv
  OBVIOUS
<1>2. Alive = {} /\ Elements(stack) = {}
  BY <1>1 DEF Init, Alive, Elements
<1>3. EnvironmentTypeOK
  <2>1. stack \in Seq(Envs) /\ created \in 0..MaxEnvs
    BY <1>1, BoundsAssumption DEF Init
  <2>2. freed \subseteq 1..created /\ refCount \in [Envs -> Nat] /\ outer \in [Envs -> Scopes]
    BY <1>1 DEF Init, Scopes
  <2>3. store \in [Scopes -> SUBSET Values]
    BY <1>1 DEF Init
  <2>4. QED
    BY <1>1, <2>1, <2>2, <2>3 DEF Init, EnvironmentTypeOK
<1>4. CountsCover
  BY <1>1 DEF Init, CountsCover, Owed, One
<1>5. QED
  BY <1>1, <1>2, <1>3, <1>4 DEF Init, EInv, HoldersFit, StackFits

------------------------------------------------------------------------------
\* A new environment is nobody's yet.
LEMMA OneMore ==
    ASSUME EnvironmentTypeOK, NEW n \in {1, 2}, created + n \in Envs,
           created' = created + n, freed' = freed
    PROVE  /\ created' \in 0..MaxEnvs
           /\ freed' \subseteq 1..created'
           /\ Alive' = Alive \union (created + 1)..(created + n)
           /\ \A e \in Alive : e <= created
<1>1. created \in Nat /\ freed \subseteq 1..created /\ MaxEnvs \in Nat
  BY BoundsAssumption DEF EnvironmentTypeOK
<1>2. 1..(created + n) = 1..created \union (created + 1)..(created + n)
  BY <1>1
<1>3. \A e \in freed : e \notin (created + 1)..(created + n)
  BY <1>1
<1>4. QED
  BY <1>1, <1>2, <1>3 DEF Alive, Envs

\* A function call: its environment is scheduled, and the one around it pinned.
LEMMA CallStep ==
    ASSUME EInv, NEW f \in Visible, Call(f)
    PROVE  EInv'
<1> DEFINE e == created + 1
<1>1. /\ EnvironmentTypeOK /\ CountsCover /\ HoldersFit /\ StackFits
      /\ phase = "running" /\ phase' = "running"
  BY DEF EInv, Call, Running
<1>2. f.env \in Alive \union {Global} /\ f.env \in Scopes
  BY VisibleValues DEF Call
<1>3. PICK args \in Arguments : Make(e, "function", f.env, args)
  BY DEF Call
<1>4. e \in Envs /\ args \subseteq Values
  BY VisibleValues DEF Call, Enter, Arguments
<1>5. /\ created' \in 0..MaxEnvs
      /\ freed' \subseteq 1..created'
      /\ Alive' = Alive \union {e}
      /\ e \notin Alive
  <2>1. created \in Nat /\ created' = created + 1 /\ freed' = freed
    BY <1>1, <1>3 DEF Make, Call, EnvironmentTypeOK
  <2>2. (created + 1)..(created + 1) = {e}
    BY <2>1
  <2>3. QED
    BY <1>1, <1>4, <2>1, <2>2, OneMore
<1>6. /\ stack' = <<e>> \o stack /\ stack \in Seq(Envs)
      /\ stack' \in Seq(Envs) /\ Elements(stack') = {e} \union Elements(stack)
  BY <1>1, <1>4, PushElements DEF Call, Enter, EnvironmentTypeOK
<1>7. /\ listed' = listed \union {e} /\ scheduled' = scheduled \union {e}
      /\ pinned' = pinned \union ({f.env} \ {Global})
      /\ objects' = objects /\ escaped' = escaped /\ result' = NoValue
  BY DEF Call, Enter
<1>8. /\ kind' = [kind EXCEPT ![e] = "function"]
      /\ outer' = [outer EXCEPT ![e] = f.env]
      /\ store' = [store EXCEPT ![e] = args]
  BY <1>3 DEF Make
<1>9. /\ refCount \in [Envs -> Nat]
      /\ refCount' = Plus(IF f.env = Global THEN refCount ELSE Plus(refCount, f.env), e)
  BY <1>1 DEF Call, EnvironmentTypeOK
<1>10. f.env # Global => f.env \in Envs /\ f.env # e
  BY <1>2, <1>5 DEF Scopes
<1>11. refCount' \in [Envs -> Nat]
  BY <1>4, <1>9, <1>10 DEF Plus
<1>12. /\ refCount'[e] >= 1
       /\ f.env # Global => refCount'[f.env] = refCount[f.env] + 1
       /\ \A x \in Envs : refCount'[x] >= refCount[x]
  BY <1>4, <1>9, <1>10 DEF Plus
<1>13. e \notin scheduled /\ e \notin pinned /\ e \notin objects
  BY <1>1, <1>5 DEF HoldersFit
<1> HIDE DEF e
<1>14. EnvironmentTypeOK'
  BY <1>1, <1>2, <1>4, <1>5, <1>6, <1>7, <1>8, <1>10, <1>11 DEF EnvironmentTypeOK, Scopes
<1>15. CountsCover'
  <2>1. SUFFICES ASSUME NEW x \in Envs PROVE refCount'[x] >= Owed(x)'
    BY DEF CountsCover
  <2>2. refCount[x] >= Owed(x) /\ refCount[x] \in Nat
    BY <1>1, <1>9 DEF CountsCover
  <2>3. CASE x = e
    BY <1>7, <1>10, <1>12, <1>13, <2>3 DEF Owed, One
  <2>4. CASE x # e
    <3>1. x \in scheduled' <=> x \in scheduled
      BY <1>7, <2>4
    <3>2. CASE x = f.env
      <4>1. x # Global
        BY DEF Envs, Global
      <4>2. QED
        BY <1>7, <1>12, <2>2, <3>1, <3>2, <4>1 DEF Owed, One
    <3>3. CASE x # f.env
      BY <1>7, <1>11, <1>12, <2>2, <3>1, <3>3 DEF Owed, One
    <3>4. QED
      BY <3>2, <3>3
  <2>5. QED
    BY <2>3, <2>4
<1>16. HoldersFit'
  <2>1. \A x \in Alive' : kind'[x] = "function" => outer'[x] \in pinned' \union {Global}
    <3>1. SUFFICES ASSUME NEW x \in Alive', kind'[x] = "function"
                   PROVE  outer'[x] \in pinned' \union {Global}
      OBVIOUS
    <3>2. kind \in [Envs -> {"none", "function", "method", "constructor", "instance"}]
          /\ outer \in [Envs -> Scopes]
      BY <1>1 DEF EnvironmentTypeOK
    <3>3. CASE x = e
      BY <1>4, <1>7, <1>8, <3>2, <3>3
    <3>4. CASE x # e
      BY <1>1, <1>5, <1>7, <1>8, <3>1, <3>2, <3>4 DEF HoldersFit
    <3>5. QED
      BY <3>3, <3>4
  <2>2. pinned' \subseteq Alive'
    BY <1>1, <1>2, <1>5, <1>7 DEF HoldersFit
  <2>3. QED
    BY <1>1, <1>5, <1>6, <1>7, <2>1, <2>2 DEF HoldersFit
<1>17. StackFits'
  <2>1. \A x \in Envs : kind'[x] = "constructor" => outer'[x] \in Envs
    BY <1>1, <1>4, <1>8 DEF StackFits, EnvironmentTypeOK
  <2>2. QED
    BY <1>1, <1>5, <1>6, <2>1 DEF StackFits
<1>18. QED
  BY <1>14, <1>15, <1>16, <1>17 DEF EInv

\* A method call: nothing is counted and nothing listed.
LEMMA MethodStep ==
    ASSUME EInv, NEW i \in Receivers, CallMethod(i)
    PROVE  EInv'
<1> DEFINE e == created + 1
<1>1. /\ EnvironmentTypeOK /\ CountsCover /\ HoldersFit /\ StackFits
      /\ phase = "running" /\ phase' = "running"
  BY DEF EInv, CallMethod, Running
<1>2. i \in Scopes
  BY VisibleValues DEF Receivers, IsInstance, Scopes
<1>3. PICK args \in Arguments : Make(e, "method", i, args)
  BY DEF CallMethod
<1>4. e \in Envs /\ args \subseteq Values
  BY VisibleValues DEF CallMethod, Enter, Arguments
<1>5. /\ created' \in 0..MaxEnvs
      /\ freed' \subseteq 1..created'
      /\ Alive' = Alive \union {e}
      /\ e \notin Alive
  <2>1. created \in Nat /\ created' = created + 1 /\ freed' = freed
    BY <1>1, <1>3 DEF Make, CallMethod, memory, EnvironmentTypeOK
  <2>2. (created + 1)..(created + 1) = {e}
    BY <2>1
  <2>3. QED
    BY <1>1, <1>4, <2>1, <2>2, OneMore
<1>6. /\ stack' = <<e>> \o stack
      /\ stack' \in Seq(Envs) /\ Elements(stack') = {e} \union Elements(stack)
  BY <1>1, <1>4, PushElements DEF CallMethod, Enter, EnvironmentTypeOK
<1>7. UNCHANGED <<memory, escaped>> /\ result' = NoValue
  BY DEF CallMethod, Enter
<1>8. /\ kind' = [kind EXCEPT ![e] = "method"]
      /\ outer' = [outer EXCEPT ![e] = i]
      /\ store' = [store EXCEPT ![e] = args]
  BY <1>3 DEF Make
<1> HIDE DEF e
<1>9. EnvironmentTypeOK'
  BY <1>1, <1>2, <1>4, <1>5, <1>6, <1>7, <1>8 DEF EnvironmentTypeOK, memory
<1>10. CountsCover'
  BY <1>1, <1>7 DEF CountsCover, memory, Owed
<1>11. HoldersFit'
  <2>1. \A x \in Alive' : kind'[x] = "function" => outer'[x] \in pinned' \union {Global}
    BY <1>1, <1>4, <1>5, <1>7, <1>8 DEF HoldersFit, EnvironmentTypeOK, memory
  <2>2. QED
    BY <1>1, <1>5, <1>6, <1>7, <2>1 DEF HoldersFit, memory
<1>12. StackFits'
  <2>1. \A x \in Envs : kind'[x] = "constructor" => outer'[x] \in Envs
    BY <1>1, <1>4, <1>8 DEF StackFits, EnvironmentTypeOK
  <2>2. QED
    BY <1>1, <1>5, <1>6, <2>1 DEF StackFits
<1>13. QED
  BY <1>9, <1>10, <1>11, <1>12 DEF EInv

\* An effective consumption gives back what it takes from the schedule, and no
\* count goes below what is still owed.
LEMMA Consumed ==
    ASSUME EnvironmentTypeOK, scheduled' \subseteq Envs,
           NEW counts \in [Envs -> Nat], NEW owed \in [Envs -> Nat],
           \A e \in Envs : counts[e] >= One(e \in scheduled) + owed[e],
           ConsumeScheduled(counts)
    PROVE  /\ refCount' \in [Envs -> Nat]
           /\ scheduled' \subseteq scheduled
           /\ \A e \in Envs : refCount'[e] >= One(e \in scheduled') + owed[e]
<1>1. CASE refCount' = counts /\ UNCHANGED scheduled
  BY <1>1
<1>2. CASE refCount' = Settled(counts) /\ scheduled' = {}
  <2>1. \A e \in Envs : /\ refCount'[e] = IF e \in scheduled THEN counts[e] - 1 ELSE counts[e]
                        /\ counts[e] \in Nat /\ owed[e] \in Nat
    BY <1>2 DEF Settled, Minus
  <2>2. \A e \in Envs : refCount'[e] \in Nat /\ refCount'[e] >= owed[e]
    BY <2>1 DEF One
  <2>3. refCount' \in [Envs -> Nat]
    BY <1>2, <2>2 DEF Settled, Minus
  <2>4. QED
    BY <1>2, <2>2, <2>3 DEF One
<1>3. QED
  BY <1>1, <1>2 DEF ConsumeScheduled

\* An instance without a constructor: counted for its object.
LEMMA NewStep ==
    ASSUME EInv, New
    PROVE  EInv'
<1> DEFINE i == created + 1
           owed == [e \in Envs |-> One(e \in pinned) + One(e \in objects \union {i})]
<1>1. /\ EnvironmentTypeOK /\ CountsCover /\ HoldersFit /\ StackFits
      /\ phase = "running" /\ phase' = "running"
  BY DEF EInv, New, Running
<1>2. Make(i, "instance", Global, {})
  BY DEF New
<1>3. i \in Envs
  BY DEF New
<1>4. /\ created' \in 0..MaxEnvs
      /\ freed' \subseteq 1..created'
      /\ Alive' = Alive \union {i}
      /\ i \notin Alive
  <2>1. created \in Nat /\ created' = created + 1 /\ freed' = freed
    BY <1>1, <1>2 DEF Make, New, EnvironmentTypeOK
  <2>2. (created + 1)..(created + 1) = {i}
    BY <2>1
  <2>3. QED
    BY <1>1, <1>3, <2>1, <2>2, OneMore
<1>5. /\ kind' = [kind EXCEPT ![i] = "instance"]
      /\ outer' = [outer EXCEPT ![i] = Global]
      /\ store' = [store EXCEPT ![i] = {}]
  BY <1>2 DEF Make
<1>6. /\ listed' = listed \union {i} /\ objects' = objects \union {i}
      /\ result' = Instance(i) /\ UNCHANGED <<stack, pinned, escaped>>
      /\ ConsumeScheduled(CountedInstance(i))
  BY DEF New
<1>7. i \notin scheduled /\ i \notin pinned /\ i \notin objects
  BY <1>1, <1>4 DEF HoldersFit
<1> HIDE DEF i
<1>8. CountedInstance(i) \in [Envs -> Nat] /\ owed \in [Envs -> Nat]
  BY <1>1, <1>3 DEF CountedInstance, EnvironmentTypeOK, One
<1>9. \A e \in Envs : CountedInstance(i)[e] >= One(e \in scheduled) + owed[e]
  <2>1. SUFFICES ASSUME NEW e \in Envs
                 PROVE  CountedInstance(i)[e] >= One(e \in scheduled) + owed[e]
    OBVIOUS
  <2>2. refCount \in [Envs -> Nat] /\ refCount[e] >= Owed(e)
    BY <1>1 DEF EnvironmentTypeOK, CountsCover
  <2>3. CASE e = i
    BY <1>3, <1>7, <2>2, <2>3 DEF CountedInstance, One
  <2>4. CASE e # i
    BY <2>2, <2>4 DEF CountedInstance, One, Owed
  <2>5. QED
    BY <2>3, <2>4
<1>10. scheduled' \subseteq scheduled /\ scheduled \subseteq Envs
  BY <1>1, <1>6 DEF ConsumeScheduled, EnvironmentTypeOK
<1> HIDE DEF owed
<1>11. /\ refCount' \in [Envs -> Nat]
       /\ \A e \in Envs : refCount'[e] >= One(e \in scheduled') + owed[e]
  BY <1>1, <1>6, <1>8, <1>9, <1>10, Consumed
<1>12. EnvironmentTypeOK'
  <2>1. result' \in Values
    BY <1>3, <1>6 DEF Values
  <2>2. QED
    BY <1>1, <1>3, <1>4, <1>5, <1>6, <1>10, <1>11, <2>1 DEF EnvironmentTypeOK, Scopes
<1>13. CountsCover'
  BY <1>6, <1>11 DEF CountsCover, Owed, owed, One
<1>14. HoldersFit'
  <2>1. \A x \in Alive' : kind'[x] = "function" => outer'[x] \in pinned' \union {Global}
    BY <1>1, <1>3, <1>4, <1>5, <1>6 DEF HoldersFit, EnvironmentTypeOK
  <2>2. QED
    BY <1>1, <1>4, <1>6, <1>10, <2>1 DEF HoldersFit
<1>15. StackFits'
  <2>1. \A x \in Envs : kind'[x] = "constructor" => outer'[x] \in Envs
    BY <1>1, <1>3, <1>5 DEF StackFits, EnvironmentTypeOK
  <2>2. QED
    BY <1>1, <1>4, <1>6, <2>1 DEF StackFits
<1>16. QED
  BY <1>12, <1>13, <1>14, <1>15 DEF EInv

\* An instance and the call of its constructor.
LEMMA ConstructorStep ==
    ASSUME EInv, NewWithConstructor
    PROVE  EInv'
<1> DEFINE i == created + 1
           e == created + 2
<1>1. /\ EnvironmentTypeOK /\ CountsCover /\ HoldersFit /\ StackFits
      /\ phase = "running" /\ phase' = "running"
  BY DEF EInv, NewWithConstructor, Running
<1>2. /\ i \in Envs /\ e \in Envs /\ i # e
      /\ created' = created + 2 /\ created \in Nat /\ freed' = freed
  BY <1>1, BoundsAssumption DEF NewWithConstructor, Enter, Envs, EnvironmentTypeOK
<1>3. PICK bound \in Arguments : store' = [store EXCEPT ![i] = {}, ![e] = bound]
  BY DEF NewWithConstructor
<1>4. bound \subseteq Values
  BY VisibleValues DEF Arguments
<1>5. /\ created' \in 0..MaxEnvs
      /\ freed' \subseteq 1..created'
      /\ Alive' = Alive \union {i, e}
      /\ i \notin Alive /\ e \notin Alive
  <2>1. (created + 1)..(created + 2) = {i, e}
    BY <1>2
  <2>2. created + 2 \in Envs /\ 2 \in {1, 2}
    BY <1>2
  <2>3. /\ created' \in 0..MaxEnvs
        /\ freed' \subseteq 1..created'
        /\ Alive' = Alive \union (created + 1)..(created + 2)
        /\ \A x \in Alive : x <= created
    BY <1>1, <1>2, <2>2, OneMore
  <2>4. QED
    BY <1>2, <2>1, <2>3
<1>6. /\ kind' = [kind EXCEPT ![i] = "instance", ![e] = "constructor"]
      /\ outer' = [outer EXCEPT ![i] = Global, ![e] = i]
      /\ refCount' = CountedInstance(i)
      /\ listed' = listed \union {i} /\ objects' = objects \union {i}
      /\ UNCHANGED <<scheduled, pinned, escaped>> /\ result' = NoValue
  BY DEF NewWithConstructor, Enter
<1>7. /\ stack' = <<e>> \o stack
      /\ stack' \in Seq(Envs) /\ Elements(stack') = {e} \union Elements(stack)
  BY <1>1, <1>2, PushElements DEF NewWithConstructor, Enter, EnvironmentTypeOK
<1>8. i \notin scheduled /\ i \notin pinned /\ i \notin objects
  BY <1>1, <1>5 DEF HoldersFit
<1> HIDE DEF i, e
<1>9. EnvironmentTypeOK'
  <2>1. refCount' \in [Envs -> Nat]
    BY <1>1, <1>6 DEF CountedInstance, EnvironmentTypeOK
  <2>2. QED
    BY <1>1, <1>2, <1>3, <1>4, <1>5, <1>6, <1>7, <2>1 DEF EnvironmentTypeOK, Scopes
<1>10. CountsCover'
  <2>1. SUFFICES ASSUME NEW x \in Envs PROVE refCount'[x] >= Owed(x)'
    BY DEF CountsCover
  <2>2. refCount \in [Envs -> Nat] /\ refCount[x] >= Owed(x)
    BY <1>1 DEF EnvironmentTypeOK, CountsCover
  <2>3. CASE x = i
    BY <1>2, <1>6, <1>8, <2>2, <2>3 DEF CountedInstance, One, Owed
  <2>4. CASE x # i
    BY <1>6, <2>2, <2>4 DEF CountedInstance, One, Owed
  <2>5. QED
    BY <2>3, <2>4
<1>11. HoldersFit'
  <2>1. \A x \in Alive' : kind'[x] = "function" => outer'[x] \in pinned' \union {Global}
    <3>1. SUFFICES ASSUME NEW x \in Alive', kind'[x] = "function"
                   PROVE  outer'[x] \in pinned' \union {Global}
      OBVIOUS
    <3>2. kind \in [Envs -> {"none", "function", "method", "constructor", "instance"}]
          /\ outer \in [Envs -> Scopes]
      BY <1>1 DEF EnvironmentTypeOK
    <3>3. x # i /\ x # e
      BY <1>2, <1>6, <3>1, <3>2
    <3>4. x \in Alive /\ x \in Envs
      <4>1. Alive \subseteq Envs
        BY <1>1, BoundsAssumption DEF Alive, Envs, EnvironmentTypeOK
      <4>2. QED
        BY <1>5, <3>3, <4>1
    <3>5. kind'[x] = kind[x] /\ outer'[x] = outer[x]
      BY <1>6, <3>2, <3>3, <3>4
    <3>6. QED
      BY <1>1, <1>6, <3>1, <3>4, <3>5 DEF HoldersFit
  <2>2. QED
    BY <1>1, <1>5, <1>6, <1>7, <2>1 DEF HoldersFit
<1>12. StackFits'
  <2>1. \A x \in Envs : kind'[x] = "constructor" => outer'[x] \in Envs
    BY <1>1, <1>2, <1>6 DEF StackFits, EnvironmentTypeOK
  <2>2. QED
    BY <1>1, <1>5, <1>7, <2>1 DEF StackFits
<1>13. QED
  BY <1>9, <1>10, <1>11, <1>12 DEF EInv

\* A return: a method's environment is listed, and that of a returned function
\* pinned.
LEMMA ReturnStep ==
    ASSUME EInv, NEW v \in Visible \union {NoValue}, Return(v)
    PROVE  EInv'
<1> DEFINE e == Head(stack)
           kept == IF Pins(v) THEN pinned \union {e} ELSE pinned
           owed == [x \in Envs |-> One(x \in kept) + One(x \in objects)]
<1>1. /\ EnvironmentTypeOK /\ CountsCover /\ HoldersFit /\ StackFits
      /\ phase = "running" /\ phase' = "running"
  BY DEF EInv, Return, Running
<1>2. /\ e \in Envs /\ stack' = Tail(stack) /\ stack' \in Seq(Envs)
      /\ Elements(stack) = Elements(stack') \union {e}
  BY <1>1, PopElements DEF Return, EnvironmentTypeOK
<1>3. e \in Alive
  BY <1>1, <1>2 DEF StackFits
<1>4. /\ pinned' = kept /\ listed' = listed \union {e}
      /\ UNCHANGED <<created, kind, outer, store, freed, objects, phase>>
  BY DEF Return, ListedAfter
<1>5. Alive' = Alive
  BY <1>4 DEF Alive
<1>6. /\ Unwrapped(e, v) \in [Envs -> Nat] /\ owed \in [Envs -> Nat]
      /\ \A x \in Envs : Unwrapped(e, v)[x] >= One(x \in scheduled) + owed[x]
  <2>1. refCount \in [Envs -> Nat] /\ \A x \in Envs : refCount[x] >= Owed(x)
    BY <1>1 DEF EnvironmentTypeOK, CountsCover
  <2>2. owed \in [Envs -> Nat]
    BY DEF One
  <2>3. CASE Pins(v)
    <3>1. Unwrapped(e, v) = [refCount EXCEPT ![e] = @ + 1] /\ kept = pinned \union {e}
      BY <2>3 DEF Unwrapped, Plus
    <3>2. Unwrapped(e, v) \in [Envs -> Nat]
      BY <1>2, <2>1, <3>1
    <3>3. ASSUME NEW x \in Envs
          PROVE  Unwrapped(e, v)[x] >= One(x \in scheduled) + owed[x]
      <4>1. owed[x] = One(x \in kept) + One(x \in objects)
        OBVIOUS
      <4>2. CASE x = e
        <5>1. Unwrapped(e, v)[x] = refCount[x] + 1
          BY <1>2, <2>1, <3>1, <4>2
        <5>2. QED
          BY <2>1, <4>1, <5>1 DEF Owed, One
      <4>3. CASE x # e
        <5>1. Unwrapped(e, v)[x] = refCount[x] /\ (x \in kept <=> x \in pinned)
          BY <1>2, <2>1, <3>1, <4>3
        <5>2. QED
          BY <2>1, <4>1, <5>1 DEF Owed, One
      <4>4. QED
        BY <4>2, <4>3
    <3>4. QED
      BY <2>2, <3>2, <3>3
  <2>4. CASE ~Pins(v)
    BY <2>1, <2>2, <2>4 DEF Unwrapped, Owed, One
  <2>5. QED
    BY <2>3, <2>4
<1>7. /\ scheduled' \subseteq scheduled /\ scheduled \subseteq Envs
      /\ \/ refCount' = Unwrapped(e, v) /\ UNCHANGED scheduled
         \/ ConsumeScheduled(Unwrapped(e, v))
  <2>1. \/ refCount' = Unwrapped(e, v) /\ UNCHANGED scheduled
        \/ ConsumeScheduled(Unwrapped(e, v))
    BY DEF Return
  <2>2. QED
    BY <1>1, <2>1 DEF ConsumeScheduled, EnvironmentTypeOK
<1> HIDE DEF owed
<1>8. /\ refCount' \in [Envs -> Nat]
      /\ \A x \in Envs : refCount'[x] >= One(x \in scheduled') + owed[x]
  BY <1>1, <1>6, <1>7, Consumed
<1>9. result' \in Values \union {NoValue} /\ escaped' \subseteq Envs
  <2>1. v \in Values \union {NoValue}
    BY VisibleValues
  <2>2. kind[e] = "constructor" => Instance(outer[e]) \in Values
    BY <1>1, <1>2 DEF StackFits, Values
  <2>3. result' = IF kind[e] = "constructor" THEN Instance(outer[e]) ELSE v
    BY DEF Return
  <2>4. escaped' \subseteq escaped \union {e}
    BY DEF Return
  <2>5. QED
    BY <1>1, <1>2, <2>1, <2>2, <2>3, <2>4 DEF EnvironmentTypeOK
<1>10. EnvironmentTypeOK'
  BY <1>1, <1>2, <1>4, <1>7, <1>8, <1>9 DEF EnvironmentTypeOK
<1>11. CountsCover'
  BY <1>4, <1>8 DEF CountsCover, Owed, owed, One
<1> HIDE DEF e
<1>12. HoldersFit'
  BY <1>1, <1>2, <1>3, <1>4, <1>5, <1>7 DEF HoldersFit
<1>13. StackFits'
  BY <1>1, <1>2, <1>4, <1>5 DEF StackFits
<1>14. QED
  BY <1>10, <1>11, <1>12, <1>13 DEF EInv

\* Variables and fields hold values, and nothing depends on which.
LEMMA StoreStep ==
    ASSUME EInv,
           \/ \E v \in Visible, t \in Targets : Assign(v, t)
           \/ \E t \in Targets : \E v \in store[t] : Forget(v, t)
    PROVE  EInv'
<1>1. /\ EnvironmentTypeOK /\ CountsCover /\ HoldersFit /\ StackFits
  BY DEF EInv
<1>2. /\ UNCHANGED <<created, kind, outer, stack, phase, escaped, memory>>
      /\ result' = NoValue
  BY DEF Assign, Forget
<1>3. store' \in [Scopes -> SUBSET Values]
  <2>1. CASE \E v \in Visible, t \in Targets : Assign(v, t)
    <3>1. PICK v \in Visible, t \in Targets : Assign(v, t)
      BY <2>1
    <3>2. v \in Values /\ store' = [store EXCEPT ![t] = @ \union {v}]
      BY <3>1, VisibleValues DEF Assign
    <3>3. store \in [Scopes -> SUBSET Values]
      BY <1>1 DEF EnvironmentTypeOK
    <3>4. QED
      BY <3>2, <3>3
  <2>2. CASE \E t \in Targets : \E v \in store[t] : Forget(v, t)
    <3>1. PICK t \in Targets : \E v \in store[t] : Forget(v, t)
      BY <2>2
    <3>2. PICK v \in store[t] : store' = [store EXCEPT ![t] = @ \ {v}]
      BY <3>1 DEF Forget
    <3>3. store \in [Scopes -> SUBSET Values]
      BY <1>1 DEF EnvironmentTypeOK
    <3>4. QED
      BY <3>2, <3>3
  <2>3. QED
    BY <2>1, <2>2
<1>4. EnvironmentTypeOK'
  BY <1>1, <1>2, <1>3 DEF EnvironmentTypeOK, memory
<1>5. CountsCover' /\ HoldersFit' /\ StackFits'
  BY <1>1, <1>2 DEF CountsCover, Owed, HoldersFit, StackFits, Alive, memory
<1>6. QED
  BY <1>4, <1>5 DEF EInv

\* Objects that are swept give back their count, and only theirs.
LEMMA Swept ==
    ASSUME EnvironmentTypeOK, NEW dead \in SUBSET objects,
           \A e \in Envs : refCount[e] >= Owed(e),
           refCount' = Minus(refCount, dead), objects' = objects \ dead,
           UNCHANGED <<scheduled, pinned>>
    PROVE  /\ refCount' \in [Envs -> Nat]
           /\ \A e \in Envs : refCount'[e] >= Owed(e)'
<1>1. \A e \in Envs : /\ refCount[e] \in Nat
                      /\ refCount'[e] = IF e \in dead THEN refCount[e] - 1 ELSE refCount[e]
  BY DEF Minus, EnvironmentTypeOK
<1>2. \A e \in Envs : refCount'[e] \in Nat /\ refCount'[e] >= Owed(e)'
  <2>1. SUFFICES ASSUME NEW e \in Envs
                 PROVE  refCount'[e] \in Nat /\ refCount'[e] >= Owed(e)'
    OBVIOUS
  <2>2. CASE e \in dead
    BY <1>1, <2>2 DEF Owed, One
  <2>3. CASE e \notin dead
    BY <1>1, <2>3 DEF Owed, One
  <2>4. QED
    BY <2>2, <2>3
<1>3. QED
  BY <1>2 DEF Minus

\* An effective sweep frees nothing that is scheduled, pinned or an instance's.
LEMMA GarbageIsNobodys ==
    ASSUME EnvironmentTypeOK, CountsCover, HoldersFit, phase # "gone"
    PROVE  \A e \in Garbage : e \notin scheduled /\ e \notin pinned /\ e \notin objects
<1>1. SUFFICES ASSUME NEW e \in Garbage
               PROVE  e \notin scheduled /\ e \notin pinned /\ e \notin objects
  OBVIOUS
<1>2. e \in Envs /\ refCount[e] <= 0 /\ refCount[e] \in Nat /\ refCount[e] >= Owed(e)
  BY <1>1 DEF Garbage, EnvironmentTypeOK, CountsCover
<1>3. QED
  BY <1>2 DEF Owed, One

\* A sweep of the environments, between two statements or at the end.
LEMMA SweepHolders ==
    ASSUME EInv, phase # "gone", stack = <<>>, objects' \subseteq objects,
           SweepEnvironments \/ UNCHANGED <<freed, listed>>,
           UNCHANGED <<created, kind, outer, stack, scheduled, pinned>>
    PROVE  /\ freed' \subseteq 1..created' /\ listed' \subseteq Envs
           /\ listed' \subseteq Alive' /\ scheduled' \subseteq listed'
           /\ objects' \subseteq listed' /\ pinned' \subseteq Alive'
           /\ Alive' \subseteq listed' \union Elements(stack')
           /\ \A e \in Alive' : kind'[e] = "function" => outer'[e] \in pinned' \union {Global}
<1>1. EnvironmentTypeOK /\ HoldersFit
      /\ \A e \in Garbage : e \notin scheduled /\ e \notin pinned /\ e \notin objects
  BY GarbageIsNobodys DEF EInv
<1>2. CASE SweepEnvironments
  <2>1. Alive' = Alive \ Garbage /\ listed' = listed \ Garbage /\ Garbage \subseteq listed
    BY <1>2 DEF SweepEnvironments, Alive, Garbage
  <2>2. freed' \subseteq 1..created'
    BY <1>1, <1>2, <2>1 DEF SweepEnvironments, HoldersFit, Alive, EnvironmentTypeOK
  <2>3. QED
    BY <1>1, <2>1, <2>2 DEF HoldersFit, EnvironmentTypeOK
<1>3. CASE UNCHANGED <<freed, listed>>
  BY <1>1, <1>3 DEF HoldersFit, EnvironmentTypeOK, Alive
<1>4. QED
  BY <1>2, <1>3

\* The end of a statement, with or without the turn of the environments.
LEMMA EndStep ==
    ASSUME EInv, EndStatement \/ EndStatementSweeping
    PROVE  EInv'
<1>1. /\ EnvironmentTypeOK /\ CountsCover /\ HoldersFit /\ StackFits
      /\ phase = "running" /\ phase' = "running" /\ stack = <<>>
      /\ result' = NoValue
      /\ UNCHANGED <<created, kind, outer, stack, phase, scheduled, pinned, escaped>>
  BY DEF EInv, EndStatement, EndStatementSweeping, Running
<1>2. SweepEnvironments \/ UNCHANGED <<freed, listed>>
  BY DEF EndStatement, EndStatementSweeping
<1>3. \E kept \in SUBSET listed : MarkAndSweep(kept)
  BY DEF EndStatement, EndStatementSweeping, Garbage
<1>4. PICK kept \in SUBSET listed : MarkAndSweep(kept)
  BY <1>3
<1> DEFINE dead == objects \ Marked(kept)
<1>5. /\ dead \subseteq objects /\ objects' = objects \ dead
      /\ refCount' = Minus(refCount, dead)
  BY <1>4 DEF MarkAndSweep
<1> HIDE DEF dead
<1>6. refCount' \in [Envs -> Nat] /\ CountsCover'
  <2>1. \A e \in Envs : refCount[e] >= Owed(e)
    BY <1>1 DEF CountsCover
  <2>2. QED
    BY <1>1, <1>5, <2>1, Swept DEF CountsCover
<1>7. /\ freed' \subseteq 1..created' /\ listed' \subseteq Envs
      /\ listed' \subseteq Alive' /\ scheduled' \subseteq listed'
      /\ objects' \subseteq listed' /\ pinned' \subseteq Alive'
      /\ Alive' \subseteq listed' \union Elements(stack')
      /\ \A e \in Alive' : kind'[e] = "function" => outer'[e] \in pinned' \union {Global}
  BY <1>1, <1>2, <1>5, SweepHolders
<1>8. store' \in [Scopes -> SUBSET Values]
  BY <1>1 DEF EnvironmentTypeOK, EndStatement, EndStatementSweeping
<1>9. EnvironmentTypeOK'
  BY <1>1, <1>5, <1>6, <1>7, <1>8 DEF EnvironmentTypeOK
<1>10. HoldersFit'
  BY <1>7 DEF HoldersFit
<1>11. StackFits'
  <2>1. Elements(stack') = {}
    BY <1>1 DEF Elements
  <2>2. QED
    BY <1>1, <2>1 DEF StackFits
<1>12. QED
  BY <1>6, <1>9, <1>10, <1>11 DEF EInv

\* The end of the file: every instance gives back its count.
LEMMA EndOfFileStep ==
    ASSUME EInv, EndOfFile
    PROVE  EInv'
<1>1. /\ EnvironmentTypeOK /\ CountsCover /\ HoldersFit /\ StackFits
      /\ phase = "running" /\ phase' = "ended" /\ stack = <<>>
      /\ result' = NoValue /\ objects' = {} /\ refCount' = Minus(refCount, objects)
      /\ store' = [e \in Scopes |-> {}]
      /\ UNCHANGED <<created, kind, outer, stack, scheduled, pinned, escaped>>
      /\ SweepEnvironments \/ UNCHANGED <<freed, listed>>
  BY DEF EInv, EndOfFile, Running
<1>2. refCount' \in [Envs -> Nat] /\ CountsCover'
  <2>1. objects \in SUBSET objects /\ objects' = objects \ objects
        /\ \A e \in Envs : refCount[e] >= Owed(e)
    BY <1>1 DEF CountsCover
  <2>2. QED
    BY <1>1, <2>1, Swept DEF CountsCover
<1>3. /\ freed' \subseteq 1..created' /\ listed' \subseteq Envs
      /\ listed' \subseteq Alive' /\ scheduled' \subseteq listed'
      /\ objects' \subseteq listed' /\ pinned' \subseteq Alive'
      /\ Alive' \subseteq listed' \union Elements(stack')
      /\ \A e \in Alive' : kind'[e] = "function" => outer'[e] \in pinned' \union {Global}
  BY <1>1, SweepHolders
<1>4. EnvironmentTypeOK'
  <2>1. store' \in [Scopes -> SUBSET Values]
    BY <1>1
  <2>2. QED
    BY <1>1, <1>2, <1>3, <2>1 DEF EnvironmentTypeOK
<1>5. HoldersFit'
  BY <1>3 DEF HoldersFit
<1>6. StackFits'
  <2>1. Elements(stack') = {}
    BY <1>1 DEF Elements
  <2>2. QED
    BY <1>1, <2>1 DEF StackFits
<1>7. QED
  BY <1>2, <1>4, <1>5, <1>6 DEF EInv

\* The collector frees what is listed, and with nothing on the stack that is all.
LEMMA QuitStep ==
    ASSUME EInv, Quit
    PROVE  EInv'
<1>1. /\ EnvironmentTypeOK /\ HoldersFit /\ StackFits
      /\ phase = "ended" /\ phase' = "gone" /\ stack = <<>>
      /\ refCount' = [e \in Envs |-> IF e \in listed THEN 0 ELSE refCount[e]]
      /\ freed' = freed \union listed
      /\ UNCHANGED <<created, kind, outer, store, stack, result, listed, scheduled,
                     objects, pinned, escaped>>
  BY DEF EInv, Quit, StackFits
<1>2. Elements(stack) = {} /\ Elements(stack') = {}
  BY <1>1 DEF Elements
<1>3. listed = Alive
  BY <1>1, <1>2 DEF HoldersFit
<1>4. Alive' = {}
  BY <1>1, <1>3 DEF Alive
<1>5. EnvironmentTypeOK'
  <2>1. freed' \subseteq 1..created'
    BY <1>1, <1>3 DEF Alive, EnvironmentTypeOK
  <2>2. refCount' \in [Envs -> Nat]
    BY <1>1 DEF EnvironmentTypeOK
  <2>3. QED
    BY <1>1, <2>1, <2>2 DEF EnvironmentTypeOK
<1>6. CountsCover' /\ HoldersFit'
  BY <1>1 DEF CountsCover, HoldersFit
<1>7. StackFits'
  BY <1>1, <1>2, <1>4 DEF StackFits
<1>8. QED
  BY <1>5, <1>6, <1>7 DEF EInv

\* A step that changes nothing.
LEMMA Stutter == ASSUME EInv, UNCHANGED vars PROVE EInv'
BY DEF EInv, vars, memory, EnvironmentTypeOK, CountsCover, Owed, HoldersFit, StackFits, Alive

\* Every step keeps the invariant.
LEMMA NextEInv == EInv /\ [Next]_vars => EInv'
<1>1. SUFFICES ASSUME EInv, [Next]_vars PROVE EInv'
  OBVIOUS
<1>2. ASSUME NEW f \in Visible, Call(f) PROVE EInv'
  BY <1>1, <1>2, CallStep
<1>3. ASSUME NEW i \in Receivers, CallMethod(i) PROVE EInv'
  BY <1>1, <1>3, MethodStep
<1>4. CASE New
  BY <1>1, <1>4, NewStep
<1>5. CASE NewWithConstructor
  BY <1>1, <1>5, ConstructorStep
<1>6. ASSUME NEW v \in Visible \union {NoValue}, Return(v) PROVE EInv'
  BY <1>1, <1>6, ReturnStep
<1>7. CASE HasRoom /\ \E v \in Visible, t \in Targets : Assign(v, t)
  BY <1>1, <1>7, StoreStep
<1>8. CASE \E t \in Targets : \E v \in store[t] : Forget(v, t)
  BY <1>1, <1>8, StoreStep
<1>9. CASE EndStatement \/ EndStatementSweeping
  BY <1>1, <1>9, EndStep
<1>10. CASE EndOfFile
  BY <1>1, <1>10, EndOfFileStep
<1>11. CASE Quit
  BY <1>1, <1>11, QuitStep
<1>12. CASE UNCHANGED vars
  BY <1>1, <1>12, Stutter
<1>13. QED
  BY <1>1, <1>2, <1>3, <1>4, <1>5, <1>6, <1>7, <1>8, <1>9, <1>10, <1>11, <1>12 DEF Next

THEOREM EInvAlways == Spec => []EInv
BY InitEInv, NextEInv, PTL DEF Spec

------------------------------------------------------------------------------
\* Whatever the program does, and whenever the collector takes its turn, no
\* count of an environment goes below zero.
THEOREM EnvironmentTypes == Spec => []EnvironmentTypeOK
<1>1. EInv => EnvironmentTypeOK
  BY DEF EInv
<1>2. QED
  BY <1>1, EInvAlways, PTL

\* No environment is freed while it is scheduled, listed, an instance's, the
\* frame of an active call or what a function's frame looks names up in.
THEOREM HeldEnvironmentsLive == Spec => []NothingFreedIsHeld
<1>1. EInv => NothingFreedIsHeld
  <2>1. SUFFICES ASSUME EInv PROVE NothingFreedIsHeld
    OBVIOUS
  <2>2. \A i \in DOMAIN stack : stack[i] \in Alive
    BY <2>1 DEF EInv, StackFits, Elements
  <2>3. phase # "gone" => scheduled \union listed \union objects \subseteq Alive
    BY <2>1 DEF EInv, HoldersFit
  <2>4. \A e \in Alive : kind[e] = "function" => outer[e] \in Alive \union {Global}
    BY <2>1 DEF EInv, HoldersFit, StackFits
  <2>5. QED
    BY <2>2, <2>3, <2>4 DEF NothingFreedIsHeld
<1>2. QED
  BY <1>1, EInvAlways, PTL

\* When the collector is gone, so is every environment that was ever made.
THEOREM EverythingFreed == Spec => []NothingLeaks
<1>1. EInv => NothingLeaks
  BY DEF EInv, StackFits, NothingLeaks
<1>2. QED
  BY <1>1, EInvAlways, PTL

------------------------------------------------------------------------------
(* What an environment is the environment of, and what is around it.        *)

InstanceEnvs == {e \in Envs : kind[e] = "instance"}

(* Methods run in an instance, instances in the global environment; an      *)
(* instance is not the frame of a call.                                     *)
KInv ==
    /\ \A e \in Envs : e > created => kind[e] = "none"
    /\ objects \subseteq InstanceEnvs
    /\ \A e \in Envs : kind[e] \in {"none", "instance"} => outer[e] = Global
    /\ \A e \in Envs : kind[e] \in {"method", "constructor"} => outer[e] \in InstanceEnvs
    /\ Elements(stack) \intersect InstanceEnvs = {}

\* The program begins without environments.
LEMMA InitKInv == Init => KInv
BY DEF Init, KInv, InstanceEnvs, Elements

\* A step that makes environments.
LEMMA KindsGrow ==
    ASSUME EInv, EInv', KInv, NEW made \in SUBSET Envs, created \in Nat, created' \in Nat,
           created <= created', \A x \in made : x > created /\ x <= created',
           \A x \in Envs \ made : outer'[x] = outer[x] /\ kind'[x] = kind[x],
           \A x \in made : kind'[x] = "instance" => outer'[x] = Global,
           \A x \in made : kind'[x] # "none",
           \A x \in made : kind'[x] \in {"method", "constructor"} =>
               outer'[x] \in InstanceEnvs \union (made \intersect InstanceEnvs'),
           objects' \subseteq objects \union (made \intersect InstanceEnvs'),
           Elements(stack') \subseteq Elements(stack) \union (made \ InstanceEnvs')
    PROVE  KInv'
<1>1. \A x \in made : kind[x] = "none"
  BY DEF KInv
<1>2. InstanceEnvs' = InstanceEnvs \union (made \intersect InstanceEnvs')
  BY <1>1 DEF InstanceEnvs
<1>3. \A x \in Envs : x > created' => kind'[x] = "none"
  <2>1. \A x \in Envs : x \in Nat
    BY BoundsAssumption DEF Envs
  <2>2. ASSUME NEW x \in Envs, x > created' PROVE kind'[x] = "none"
    <3>1. x \notin made /\ x > created
      BY <2>1, <2>2
    <3>2. QED
      BY <3>1 DEF KInv
  <2>3. QED
    BY <2>2
<1>4. objects' \subseteq InstanceEnvs'
  BY <1>2 DEF KInv
<1>5. \A x \in Envs : kind'[x] \in {"none", "instance"} => outer'[x] = Global
  BY DEF KInv
<1>6. \A x \in Envs : kind'[x] \in {"method", "constructor"} => outer'[x] \in InstanceEnvs'
  BY <1>2 DEF KInv
<1>7. Elements(stack') \intersect InstanceEnvs' = {}
  <2>1. Elements(stack) \intersect made = {}
    <3>1. Elements(stack) \subseteq 1..created
      BY DEF EInv, StackFits, Alive
    <3>2. QED
      BY <3>1, BoundsAssumption DEF Envs
  <2>2. QED
    BY <1>2, <2>1 DEF KInv
<1>8. QED
  BY <1>3, <1>4, <1>5, <1>6, <1>7 DEF KInv

\* A step that makes none.
LEMMA KindsKeep ==
    ASSUME KInv, UNCHANGED <<created, kind, outer>>, objects' \subseteq objects,
           Elements(stack') \subseteq Elements(stack)
    PROVE  KInv'
BY DEF KInv, InstanceEnvs

\* Methods and callbacks run in instances.
LEMMA ReceiversAreInstances == ASSUME KInv PROVE Receivers \subseteq InstanceEnvs
<1>1. ASSUME NEW w \in Visible, w.is = "instance" PROVE w.env \in InstanceEnvs
  <2>1. Usable(w)
    BY DEF Visible
  <2>2. w.env \in objects
    BY <1>1, <2>1 DEF Usable
  <2>3. QED
    BY <2>2 DEF KInv
<1>2. QED
  BY <1>1 DEF Receivers, IsInstance, InstanceEnvs

\* A function call makes a frame.
LEMMA CallKinds == ASSUME EInv, EInv', KInv, NEW f \in Visible, Call(f) PROVE KInv'
<1> DEFINE e == created + 1
<1>1. PICK args \in Arguments : Make(e, "function", f.env, args)
  BY DEF Call
<1>2. /\ e \in Envs /\ created' = e /\ created \in Nat /\ e \in Nat /\ e > created
      /\ kind \in [Envs -> {"none", "function", "method", "constructor", "instance"}]
      /\ outer \in [Envs -> Scopes]
  BY <1>1 DEF Make, Call, Enter, EInv, EnvironmentTypeOK
<1>3. objects' = objects /\ Elements(stack') = {e} \union Elements(stack)
  BY <1>2, PushElements DEF Call, Enter, EInv, EnvironmentTypeOK
<1> HIDE DEF e
<1>4. /\ kind'[e] = "function"
      /\ \A x \in Envs \ {e} : outer'[x] = outer[x] /\ kind'[x] = kind[x]
  BY <1>1, <1>2 DEF Make
<1>5. {e} \in SUBSET Envs /\ e \notin InstanceEnvs'
  BY <1>2, <1>4 DEF InstanceEnvs
<1> DEFINE made == {e}
<1>6. made \in SUBSET Envs
  BY <1>2
<1>7. /\ created <= created' /\ created' \in Nat
      /\ \A x \in made : x > created /\ x <= created'
      /\ \A x \in Envs \ made : outer'[x] = outer[x] /\ kind'[x] = kind[x]
      /\ \A x \in made : kind'[x] = "instance" => outer'[x] = Global
      /\ \A x \in made : kind'[x] # "none"
      /\ \A x \in made : kind'[x] \in {"method", "constructor"} =>
             outer'[x] \in InstanceEnvs \union (made \intersect InstanceEnvs')
      /\ objects' \subseteq objects \union (made \intersect InstanceEnvs')
      /\ Elements(stack') \subseteq Elements(stack) \union (made \ InstanceEnvs')
  BY <1>2, <1>3, <1>4, <1>5
<1> HIDE DEF made
<1>8. QED
  BY <1>2, <1>6, <1>7, KindsGrow

\* A method runs in an instance.
LEMMA MethodKinds == ASSUME EInv, EInv', KInv, NEW i \in Receivers, CallMethod(i) PROVE KInv'
<1> DEFINE e == created + 1
<1>1. PICK args \in Arguments : Make(e, "method", i, args)
  BY DEF CallMethod
<1>2. /\ e \in Envs /\ created' = e /\ created \in Nat /\ e \in Nat /\ e > created
      /\ kind \in [Envs -> {"none", "function", "method", "constructor", "instance"}]
      /\ outer \in [Envs -> Scopes]
  BY <1>1 DEF Make, CallMethod, Enter, EInv, EnvironmentTypeOK
<1>3. objects' = objects /\ Elements(stack') = {e} \union Elements(stack)
  BY <1>2, PushElements DEF CallMethod, Enter, EInv, EnvironmentTypeOK, memory
<1>4. i \in InstanceEnvs
  BY ReceiversAreInstances
<1> HIDE DEF e
<1>5. /\ kind'[e] = "method" /\ outer'[e] = i
      /\ \A x \in Envs \ {e} : outer'[x] = outer[x] /\ kind'[x] = kind[x]
  BY <1>1, <1>2 DEF Make
<1>6. e \notin InstanceEnvs'
  BY <1>2, <1>5 DEF InstanceEnvs
<1> DEFINE made == {e}
<1>7. made \in SUBSET Envs
  BY <1>2
<1>8. /\ created <= created' /\ created' \in Nat
      /\ \A x \in made : x > created /\ x <= created'
      /\ \A x \in Envs \ made : outer'[x] = outer[x] /\ kind'[x] = kind[x]
      /\ \A x \in made : kind'[x] = "instance" => outer'[x] = Global
      /\ \A x \in made : kind'[x] # "none"
      /\ \A x \in made : kind'[x] \in {"method", "constructor"} =>
             outer'[x] \in InstanceEnvs \union (made \intersect InstanceEnvs')
      /\ objects' \subseteq objects \union (made \intersect InstanceEnvs')
      /\ Elements(stack') \subseteq Elements(stack) \union (made \ InstanceEnvs')
  BY <1>2, <1>3, <1>4, <1>5, <1>6
<1> HIDE DEF made
<1>9. QED
  BY <1>2, <1>7, <1>8, KindsGrow

\* A new instance is in the global environment.
LEMMA NewKinds == ASSUME EInv, EInv', KInv, New PROVE KInv'
<1> DEFINE i == created + 1
<1>1. Make(i, "instance", Global, {})
  BY DEF New
<1>2. /\ i \in Envs /\ created' = i /\ created \in Nat /\ i \in Nat /\ i > created
      /\ kind \in [Envs -> {"none", "function", "method", "constructor", "instance"}]
      /\ outer \in [Envs -> Scopes]
  BY <1>1 DEF Make, New, EInv, EnvironmentTypeOK
<1>3. objects' = objects \union {i} /\ stack' = stack
  BY DEF New
<1> HIDE DEF i
<1>4. /\ kind'[i] = "instance" /\ outer'[i] = Global
      /\ \A x \in Envs \ {i} : outer'[x] = outer[x] /\ kind'[x] = kind[x]
  BY <1>1, <1>2 DEF Make
<1>5. i \in InstanceEnvs'
  BY <1>2, <1>4 DEF InstanceEnvs
<1> DEFINE made == {i}
<1>6. made \in SUBSET Envs
  BY <1>2
<1>7. /\ created <= created' /\ created' \in Nat
      /\ \A x \in made : x > created /\ x <= created'
      /\ \A x \in Envs \ made : outer'[x] = outer[x] /\ kind'[x] = kind[x]
      /\ \A x \in made : kind'[x] = "instance" => outer'[x] = Global
      /\ \A x \in made : kind'[x] # "none"
      /\ \A x \in made : kind'[x] \in {"method", "constructor"} =>
             outer'[x] \in InstanceEnvs \union (made \intersect InstanceEnvs')
      /\ objects' \subseteq objects \union (made \intersect InstanceEnvs')
      /\ Elements(stack') \subseteq Elements(stack) \union (made \ InstanceEnvs')
  BY <1>2, <1>3, <1>4, <1>5
<1> HIDE DEF made
<1>8. QED
  BY <1>2, <1>6, <1>7, KindsGrow

\* A constructor runs in the instance that is made with it.
LEMMA ConstructorKinds == ASSUME EInv, EInv', KInv, NewWithConstructor PROVE KInv'
<1> DEFINE i == created + 1
           e == created + 2
<1>1. /\ e \in Envs /\ created' = e
      /\ kind' = [kind EXCEPT ![i] = "instance", ![e] = "constructor"]
      /\ outer' = [outer EXCEPT ![i] = Global, ![e] = i]
      /\ objects' = objects \union {i} /\ stack' = <<e>> \o stack
  BY DEF NewWithConstructor, Enter
<1>2. /\ created \in Nat /\ e \in Nat /\ created <= e
      /\ i \in Envs /\ i # e /\ i > created /\ e > created /\ i <= e
      /\ kind \in [Envs -> {"none", "function", "method", "constructor", "instance"}]
      /\ outer \in [Envs -> Scopes]
  BY <1>1, BoundsAssumption DEF EInv, EnvironmentTypeOK, Envs
<1>3. Elements(stack') = {e} \union Elements(stack)
  BY <1>1, PushElements DEF EInv, EnvironmentTypeOK
<1> HIDE DEF i, e
<1>4. /\ kind'[i] = "instance" /\ outer'[i] = Global
      /\ kind'[e] = "constructor" /\ outer'[e] = i
      /\ \A x \in Envs \ {i, e} : outer'[x] = outer[x] /\ kind'[x] = kind[x]
  BY <1>1, <1>2
<1>5. i \in InstanceEnvs' /\ e \notin InstanceEnvs'
  BY <1>2, <1>4 DEF InstanceEnvs
<1> DEFINE made == {i, e}
<1>6. made \in SUBSET Envs
  BY <1>1, <1>2
<1>7. \A x \in made : x > created /\ x <= created'
  BY <1>1, <1>2
<1>8. /\ \A x \in Envs \ made : outer'[x] = outer[x] /\ kind'[x] = kind[x]
      /\ \A x \in made : kind'[x] = "instance" => outer'[x] = Global
      /\ \A x \in made : kind'[x] # "none"
      /\ \A x \in made : kind'[x] \in {"method", "constructor"} =>
             outer'[x] \in InstanceEnvs \union (made \intersect InstanceEnvs')
      /\ objects' \subseteq objects \union (made \intersect InstanceEnvs')
      /\ Elements(stack') \subseteq Elements(stack) \union (made \ InstanceEnvs')
  BY <1>1, <1>3, <1>4, <1>5
<1> HIDE DEF made
<1>9. QED
  BY <1>1, <1>2, <1>6, <1>7, <1>8, KindsGrow

\* Every step keeps the kinds.
LEMMA NextKInv == EInv /\ EInv' /\ KInv /\ [Next]_vars => KInv'
<1>1. SUFFICES ASSUME EInv, EInv', KInv, [Next]_vars PROVE KInv'
  OBVIOUS
<1>2. ASSUME NEW f \in Visible, Call(f) PROVE KInv'
  BY <1>1, <1>2, CallKinds
<1>3. ASSUME NEW i \in Receivers, CallMethod(i) PROVE KInv'
  BY <1>1, <1>3, MethodKinds
<1>4. CASE New
  BY <1>1, <1>4, NewKinds
<1>5. CASE NewWithConstructor
  BY <1>1, <1>5, ConstructorKinds
<1>6. ASSUME NEW v \in Visible \union {NoValue}, Return(v) PROVE KInv'
  <2>1. UNCHANGED <<created, kind, outer>> /\ objects' = objects
    BY <1>6 DEF Return
  <2>2. Elements(stack') \subseteq Elements(stack)
    BY <1>1, <1>6, PopElements DEF Return, EInv, EnvironmentTypeOK
  <2>3. QED
    BY <1>1, <2>1, <2>2, KindsKeep
<1>7. CASE HasRoom /\ \E v \in Visible, t \in Targets : Assign(v, t)
  BY <1>1, <1>7, KindsKeep DEF Assign, memory
<1>8. CASE \E t \in Targets : \E v \in store[t] : Forget(v, t)
  BY <1>1, <1>8, KindsKeep DEF Forget, memory
<1>9. CASE EndStatement \/ EndStatementSweeping
  <2>1. UNCHANGED <<created, kind, outer, stack>> /\ objects' \subseteq objects
    BY <1>9 DEF EndStatement, EndStatementSweeping, MarkAndSweep
  <2>2. QED
    BY <1>1, <2>1, KindsKeep
<1>10. CASE EndOfFile \/ Quit
  <2>1. UNCHANGED <<created, kind, outer, stack>> /\ objects' \subseteq objects
    BY <1>10 DEF EndOfFile, Quit
  <2>2. QED
    BY <1>1, <2>1, KindsKeep
<1>11. CASE UNCHANGED vars
  BY <1>1, <1>11, KindsKeep DEF vars, memory
<1>12. QED
  BY <1>1, <1>2, <1>3, <1>4, <1>5, <1>6, <1>7, <1>8, <1>9, <1>10, <1>11 DEF Next

------------------------------------------------------------------------------
(* What the program can reach.                                              *)

Reached == ReachedFrom(store, Roots(stack, result))

(* The scopes whose names can all be looked up.                             *)
Complete == {e \in Scopes : Chain(e) \subseteq Alive \union {Global}}

(* What is reachable is held by somebody, unless it is the frame of a call  *)
(* that left it behind or an instance's environment.                        *)
ReachedHeld ==
    Reached \subseteq
        Elements(stack) \union pinned \union InstanceEnvs \union escaped \union {Global}

InstancesLive ==
    /\ \A e \in Reached \intersect (Alive \union {Global}) :
           \A v \in store[e] : v.is = "instance" => v.env \in objects
    /\ result.is = "instance" => result.env \in objects

(* An active call sees everything around it, a constructor its instance.    *)
FramesSee ==
    \A e \in Elements(stack) :
        /\ e \in Complete
        /\ kind[e] = "constructor" => outer[e] \in objects

CInv == phase = "running" => ReachedHeld /\ InstancesLive /\ FramesSee

\* A closure contains where it starts from and is closed.
LEMMA ClosureClosed ==
    ASSUME NEW from \in SUBSET Scopes, NEW next \in [Scopes -> SUBSET Scopes]
    PROVE  /\ from \subseteq Closure(from, next)
           /\ Closure(from, next) \subseteq Scopes
           /\ \A e \in Closure(from, next) : next[e] \subseteq Closure(from, next)
<1> DEFINE larger == {from \union S : S \in SUBSET (Scopes \ from)}
           closed == {S \in larger : \A e \in S : next[e] \subseteq S}
           C == {e \in Scopes : \A S \in closed : e \in S}
<1>1. Closure(from, next) = C
  BY DEF Closure
<1>2. \A S \in closed : from \subseteq S /\ S \subseteq Scopes /\ \A e \in S : next[e] \subseteq S
  OBVIOUS
<1> HIDE DEF closed
<1>3. from \subseteq C /\ C \subseteq Scopes
  BY <1>2
<1>4. ASSUME NEW e \in C, NEW x \in next[e] PROVE x \in C
  <2>1. x \in Scopes
    BY <1>4
  <2>2. \A S \in closed : x \in S
    BY <1>2, <1>4
  <2>3. QED
    BY <2>1, <2>2
<1>5. QED
  BY <1>1, <1>3, <1>4

\* It is the least such set.
LEMMA ClosureLeast ==
    ASSUME NEW from, NEW next, NEW S \in SUBSET Scopes, from \subseteq S,
           \A e \in S : next[e] \subseteq S
    PROVE  Closure(from, next) \subseteq S
<1> DEFINE larger == {from \union T : T \in SUBSET (Scopes \ from)}
           closed == {T \in larger : \A e \in T : next[e] \subseteq T}
<1>1. S = from \union (S \ from) /\ S \ from \in SUBSET (Scopes \ from)
  OBVIOUS
<1>2. S \in larger
  BY <1>1
<1>3. S \in closed
  BY <1>2
<1>4. Closure(from, next) = {e \in Scopes : \A T \in closed : e \in T}
  BY DEF Closure
<1> HIDE DEF closed
<1>5. QED
  BY <1>3, <1>4

\* Environments are scopes, and the variables that refer to them are typed.
LEMMA ScopeTypes ==
    ASSUME EnvironmentTypeOK
    PROVE  /\ Alive \subseteq Envs /\ Global \notin Alive /\ Global \notin Envs
           /\ \A v \in Values \union {NoValue} : v.env \in Scopes
           /\ Around \in [Scopes -> SUBSET Scopes]
           /\ Refers(store) \in [Scopes -> SUBSET Scopes]
           /\ Roots(stack, result) \in SUBSET Scopes
<1>1. Alive \subseteq Envs /\ Global \notin Alive /\ Global \notin Envs
  BY BoundsAssumption DEF EnvironmentTypeOK, Alive, Envs, Global
<1>2. \A v \in Values \union {NoValue} : v.env \in Scopes
  BY DEF Values, NoValue, Function, Instance, Scopes
<1>3. \A e \in Envs : outer[e] \in Scopes
  BY DEF EnvironmentTypeOK
<1>4. Around \in [Scopes -> SUBSET Scopes]
  BY <1>3 DEF Around, Scopes
<1>5. \A e \in Scopes : {v.env : v \in store[e]} \subseteq Scopes
  BY <1>2 DEF EnvironmentTypeOK
<1>6. Refers(store) \in [Scopes -> SUBSET Scopes]
  BY <1>1, <1>3, <1>5 DEF Refers
<1>7. Roots(stack, result) \in SUBSET Scopes
  <2>1. result.env \in Scopes
    BY <1>2 DEF EnvironmentTypeOK
  <2>2. {stack[i] : i \in DOMAIN stack} \subseteq Envs
    BY DEF EnvironmentTypeOK
  <2>3. QED
    BY <2>1, <2>2 DEF Roots, Scopes
<1>8. QED
  BY <1>1, <1>2, <1>4, <1>6, <1>7

\* What is reached is closed under the names and outer scopes of what is alive.
LEMMA ReachedClosed ==
    ASSUME EnvironmentTypeOK, NEW from \in SUBSET Scopes
    PROVE  LET reached == ReachedFrom(store, from)
           IN  /\ from \subseteq reached /\ reached \subseteq Scopes
               /\ \A e \in reached \intersect Alive : outer[e] \in reached
               /\ \A e \in reached \intersect (Alive \union {Global}) :
                      \A v \in store[e] : v.env \in reached
<1> DEFINE reached == ReachedFrom(store, from)
<1>1. /\ from \subseteq reached /\ reached \subseteq Scopes
      /\ \A e \in reached : Refers(store)[e] \subseteq reached
  BY ScopeTypes, ClosureClosed DEF ReachedFrom
<1> HIDE DEF reached
<1>2. ASSUME NEW e \in reached \intersect Alive
      PROVE  outer[e] \in reached /\ \A v \in store[e] : v.env \in reached
  <2>1. Refers(store)[e] = {outer[e]} \union {v.env : v \in store[e]}
    BY <1>1, ScopeTypes DEF Refers
  <2>2. QED
    BY <1>1, <2>1
<1>3. ASSUME Global \in reached PROVE \A v \in store[Global] : v.env \in reached
  <2>1. Refers(store)[Global] = {v.env : v \in store[Global]}
    BY DEF Refers, Scopes
  <2>2. QED
    BY <1>1, <1>3, <2>1
<1>4. QED
  BY <1>1, <1>2, <1>3 DEF reached

\* After a step no more is reached than any set that is closed then.
LEMMA ReachedLeast ==
    ASSUME EnvironmentTypeOK', NEW S \in SUBSET Scopes, Roots(stack, result)' \subseteq S,
           \A e \in S \intersect Alive' : outer'[e] \in S,
           \A e \in S \intersect (Alive' \union {Global}) : \A v \in store'[e] : v.env \in S
    PROVE  Reached' \subseteq S
<1>1. ASSUME NEW e \in S PROVE Refers(store)'[e] \subseteq S
  <2>1. e \in Scopes
    OBVIOUS
  <2>2. Refers(store)'[e] = IF e = Global THEN {v.env : v \in store'[e]}
                            ELSE IF e \in Alive' THEN {outer'[e]} \union {v.env : v \in store'[e]}
                            ELSE {}
    BY <2>1 DEF Refers
  <2>3. QED
    BY <1>1, <2>2
<1>2. Reached' = Closure(Roots(stack, result)', Refers(store)')
  BY DEF Reached, ReachedFrom
<1>3. QED
  BY <1>1, <1>2, ClosureLeast

\* A set of scopes that look names up in each other, what is complete and the
\* global one is complete.
LEMMA CompleteLeast ==
    ASSUME EnvironmentTypeOK', NEW S \in SUBSET Scopes, S \subseteq Alive' \union {Global},
           \A e \in S \ {Global} : outer'[e] \in S
    PROVE  S \subseteq Complete'
<1>1. SUFFICES ASSUME NEW e \in S PROVE e \in Complete'
  OBVIOUS
<1>2. \A x \in S : Around'[x] \subseteq S
  BY DEF Around
<1>3. Chain(e)' = Closure({e}, Around')
  BY DEF Chain
<1>4. Chain(e)' \subseteq S
  BY <1>2, <1>3, ClosureLeast
<1>5. QED
  BY <1>4 DEF Complete

\* A complete scope exists, and what is around it is complete.
LEMMA CompleteClosed ==
    ASSUME EnvironmentTypeOK
    PROVE  /\ Complete \subseteq Alive \union {Global} /\ Global \in Complete
           /\ \A e \in Complete \ {Global} : outer[e] \in Complete
           /\ \A e \in Complete : Chain(e) \subseteq Complete
<1>1. Around \in [Scopes -> SUBSET Scopes]
  BY ScopeTypes
<1>2. ASSUME NEW e \in Scopes
      PROVE  /\ e \in Chain(e) /\ Chain(e) \subseteq Scopes
             /\ \A x \in Chain(e) : Around[x] \subseteq Chain(e)
  BY <1>1, ClosureClosed DEF Chain
<1>3. Complete \subseteq Alive \union {Global}
  BY <1>2 DEF Complete
<1>4. Global \in Complete
  <2>1. Around[Global] \subseteq {Global} /\ Global \in Scopes
    BY DEF Around, Scopes
  <2>2. Chain(Global) \subseteq {Global}
    BY <2>1, ClosureLeast DEF Chain
  <2>3. QED
    BY <2>1, <2>2 DEF Complete
<1>5. ASSUME NEW e \in Complete, NEW x \in Chain(e) PROVE x \in Complete
  <2>1. x \in Scopes /\ Chain(e) \subseteq Scopes /\ \A y \in Chain(e) : Around[y] \subseteq Chain(e)
    BY <1>2 DEF Complete
  <2>2. Chain(x) \subseteq Chain(e)
    BY <2>1, ClosureLeast DEF Chain
  <2>3. QED
    BY <2>1, <2>2 DEF Complete
<1>6. ASSUME NEW e \in Complete \ {Global} PROVE outer[e] \in Complete
  <2>1. e \in Scopes /\ Around[e] = {outer[e]}
    BY DEF Complete, Around
  <2>2. outer[e] \in Chain(e)
    BY <1>2, <2>1
  <2>3. QED
    BY <1>5, <2>2
<1>7. QED
  BY <1>3, <1>4, <1>5, <1>6

\* What the program sees, and where it can assign, is reached; the scopes that
\* it can call into are complete.
LEMMA VisibleReached ==
    ASSUME EInv, KInv, CInv, phase = "running"
    PROVE  /\ Chain(Current) \subseteq Reached
           /\ \A v \in Visible : /\ v.env \in Reached /\ v.env \in Complete
                                 /\ v.is = "instance" => v.env \in objects
           /\ Receivers \subseteq Reached \intersect Complete
           /\ Targets \subseteq Reached
<1>1. /\ EnvironmentTypeOK /\ HoldersFit /\ StackFits /\ FramesSee
      /\ \A i \in objects : outer[i] = Global
  BY DEF EInv, CInv, KInv, InstanceEnvs
<1>2. /\ Roots(stack, result) \subseteq Reached /\ Reached \subseteq Scopes
      /\ \A e \in Reached \intersect Alive : outer[e] \in Reached
      /\ \A e \in Reached \intersect (Alive \union {Global}) : \A v \in store[e] : v.env \in Reached
  BY <1>1, ScopeTypes, ReachedClosed DEF Reached
<1>3. Global \in Reached /\ result.env \in Reached /\ Elements(stack) \subseteq Reached
  BY <1>2 DEF Roots, Elements
<1>4. Current \in Reached /\ Current \in Complete /\ Current \in Scopes
  <2>1. CASE stack = <<>>
    BY <1>1, <1>3, <2>1, CompleteClosed DEF Current, Scopes
  <2>2. CASE stack # <<>>
    <3>1. Current \in Elements(stack)
      BY <1>1, <2>2, PopElements DEF Current, EnvironmentTypeOK
    <3>2. QED
      BY <1>1, <1>3, <3>1 DEF FramesSee, Complete
  <2>3. QED
    BY <2>1, <2>2
<1>5. Around \in [Scopes -> SUBSET Scopes]
  BY <1>1, ScopeTypes
<1>6. /\ Chain(Current) \subseteq Complete /\ Current \in Chain(Current) /\ Chain(Current) \subseteq Scopes
      /\ \A x \in Chain(Current) : Around[x] \subseteq Chain(Current)
  BY <1>1, <1>4, <1>5, CompleteClosed, ClosureClosed DEF Chain
<1>7. Complete \subseteq Alive \union {Global}
  BY <1>1, CompleteClosed
<1>8. Chain(Current) \subseteq Reached
  <2> DEFINE S == Chain(Current) \intersect Reached
  <2>1. ASSUME NEW x \in S PROVE Around[x] \subseteq S
    <3>1. CASE x = Global
      BY <1>6, <3>1 DEF Around, Scopes
    <3>2. CASE x # Global
      <4>1. x \in Scopes /\ Around[x] = {outer[x]} /\ x \in Alive
        BY <1>6, <1>7, <3>2 DEF Around
      <4>2. QED
        BY <1>2, <1>6, <2>1, <4>1
    <3>3. QED
      BY <3>1, <3>2
  <2>2. S \in SUBSET Scopes /\ {Current} \subseteq S
    BY <1>2, <1>4, <1>6
  <2> HIDE DEF S
  <2>3. Chain(Current) \subseteq S
    BY <2>1, <2>2, ClosureLeast DEF Chain
  <2>4. QED
    BY <2>3 DEF S
<1>9. \A e \in Reached \intersect (Alive \union {Global}) : \A v \in Bound(e) : v.env \in Reached
  BY <1>2 DEF Bound, Function
<1>10. \A v \in Named \union This : v.env \in Reached
  <2>1. \A v \in Named : v.env \in Reached
    BY <1>3, <1>6, <1>7, <1>8, <1>9 DEF Named
  <2>2. ASSUME NEW v \in This PROVE v.env \in Reached
    <3>1. Current # Global /\ v = Instance(outer[Current])
      BY <2>2 DEF This
    <3>2. Current \in Alive
      BY <1>4, <1>7, <3>1
    <3>3. QED
      BY <1>2, <1>4, <3>1, <3>2 DEF Instance
  <2>3. QED
    BY <2>1, <2>2
<1>11. objects \subseteq Alive
  BY <1>1 DEF HoldersFit, CInv
<1>12. \A v \in Fields(Named \union This) : v.env \in Reached
  <2>1. SUFFICES ASSUME NEW w \in Named \union This, w.is = "instance", Usable(w),
                        NEW v \in Bound(w.env)
                 PROVE  v.env \in Reached
    BY DEF Fields
  <2>2. w.env \in objects
    BY <2>1 DEF Usable
  <2>3. QED
    BY <1>9, <1>10, <1>11, <2>2
<1>13. \A v \in Visible : v.env \in Reached /\ Usable(v) /\ v \in Values
  BY <1>10, <1>12 DEF Visible
<1>14. objects \subseteq Complete
  <2>1. objects \union {Global} \in SUBSET Scopes
    BY <1>1 DEF EnvironmentTypeOK, Scopes
  <2>2. ASSUME NEW i \in objects PROVE Chain(i) \subseteq objects \union {Global}
    <3> DEFINE S == objects \union {Global}
    <3>1. {i} \subseteq S /\ \A x \in S : Around[x] \subseteq S
      BY <1>1, <2>1 DEF Around
    <3> HIDE DEF S
    <3>2. Closure({i}, Around) \subseteq S
      BY <2>1, <3>1, ClosureLeast DEF S
    <3>3. QED
      BY <3>2 DEF Chain, S
  <2>3. QED
    BY <1>11, <2>1, <2>2 DEF Complete
<1>15. \A v \in Values : Usable(v) =>
          v.env \in Complete /\ (v.is = "instance" => v.env \in objects)
  <2>1. SUFFICES ASSUME NEW v \in Values, Usable(v)
                 PROVE  v.env \in Complete /\ (v.is = "instance" => v.env \in objects)
    OBVIOUS
  <2>2. v.env \in Scopes /\ v.is \in {"function", "instance"}
    BY DEF Values, Function, Instance, Scopes
  <2>3. CASE v.is = "function"
    BY <2>1, <2>2, <2>3 DEF Usable, Complete
  <2>4. CASE v.is = "instance"
    BY <1>14, <2>1, <2>4 DEF Usable
  <2>5. QED
    BY <2>2, <2>3, <2>4
<1>16. Receivers \subseteq Reached \intersect Complete
  <2>1. ASSUME NEW w \in Visible, w.is = "instance"
        PROVE  w.env \in Reached \intersect Complete /\ w.env \in Alive
    BY <1>11, <1>13, <1>15, <2>1
  <2>2. ASSUME NEW w \in Visible, w.is = "instance", NEW v \in Bound(w.env),
               v.is = "function", Usable(v)
        PROVE  v.env \in Reached \intersect Complete
    <3>1. w.env \in Scopes
      BY <1>2, <2>1, <2>2
    <3>2. v \in Values
      BY <1>1, <3>1 DEF Bound, EnvironmentTypeOK, Values
    <3>3. QED
      BY <1>9, <1>15, <2>1, <2>2, <3>2
  <2>3. QED
    BY <2>1, <2>2 DEF Receivers
<1>17. Targets \subseteq Reached
  <2> DEFINE inner == [e \in Scopes |-> IF e = Global \/ IsInstance(e) THEN {} ELSE {outer[e]}]
  <2>1. \A e \in Chain(Current) : inner[e] \subseteq Chain(Current)
    <3>1. \A e \in Scopes : inner[e] \subseteq Around[e]
      BY DEF Around
    <3> HIDE DEF inner
    <3>2. QED
      BY <1>6, <3>1
  <2> HIDE DEF inner
  <2>2. Closure({Current}, inner) \subseteq Chain(Current)
    BY <1>6, <2>1, ClosureLeast
  <2>3. SetTargets(Current) \subseteq Chain(Current)
    BY <2>2 DEF SetTargets, inner
  <2>4. QED
    BY <1>8, <1>13, <2>3 DEF Targets
<1>18. QED
  BY <1>8, <1>13, <1>15, <1>16, <1>17

\* A step that makes environments: what they refer to was reached before, and
\* each is the frame of a call or an instance.
LEMMA GrowStep ==
    ASSUME EInv, EInv', KInv, KInv', CInv, phase = "running",
           NEW made \in SUBSET Envs, Alive' = Alive \union made, made \intersect Alive = {},
           \A x \in made : kind[x] = "none",
           \A x \in Scopes \ made : store'[x] = store[x],
           \A x \in Envs \ made : outer'[x] = outer[x] /\ kind'[x] = kind[x],
           \A x \in made : outer'[x] \in made \union (Reached \intersect Complete),
           \A x \in made : \A v \in store'[x] :
               v.env \in Reached /\ (v.is = "instance" => v.env \in objects),
           \A x \in made : kind'[x] = "constructor" => outer'[x] \in objects',
           Elements(stack) \subseteq Elements(stack'), Elements(stack') \subseteq Elements(stack) \union made,
           result'.env \in made \union {Global}, result'.is = "instance" => result'.env \in objects',
           objects \subseteq objects', objects' \subseteq objects \union made,
           made \subseteq Elements(stack') \union objects',
           pinned \subseteq pinned', escaped' = escaped
    PROVE  CInv'
<1>1. /\ EnvironmentTypeOK /\ EnvironmentTypeOK' /\ HoldersFit /\ StackFits
      /\ ReachedHeld /\ InstancesLive /\ FramesSee
  BY DEF EInv, CInv
<1>2. /\ Roots(stack, result) \subseteq Reached /\ Reached \subseteq Scopes
      /\ \A e \in Reached \intersect Alive : outer[e] \in Reached
      /\ \A e \in Reached \intersect (Alive \union {Global}) : \A v \in store[e] : v.env \in Reached
  BY <1>1, ScopeTypes, ReachedClosed DEF Reached
<1>3. Global \in Reached /\ Elements(stack) \subseteq Reached
  BY <1>2 DEF Roots, Elements
<1>4. Alive \subseteq Envs /\ Global \notin Envs
  BY <1>1, ScopeTypes
<1>5. Reached' \subseteq Reached \union made
  <2>1. Roots(stack, result)' \subseteq Reached \union made
    BY <1>3 DEF Roots, Elements
  <2>2. Reached \union made \in SUBSET Scopes
    BY <1>2 DEF Scopes
  <2>3. ASSUME NEW e \in (Reached \union made) \intersect Alive'
        PROVE  outer'[e] \in Reached \union made
    BY <1>2, <1>4
  <2>4. ASSUME NEW e \in (Reached \union made) \intersect (Alive' \union {Global}), NEW v \in store'[e]
        PROVE  v.env \in Reached \union made
    <3>1. CASE e \in made
      BY <2>4, <3>1
    <3>2. CASE e \notin made
      BY <1>2, <2>4, <3>2
    <3>3. QED
      BY <3>1, <3>2
  <2>5. QED
    BY <1>1, <2>1, <2>2, <2>3, <2>4, ReachedLeast
<1>6. ReachedHeld'
  <2>1. InstanceEnvs \subseteq InstanceEnvs' /\ objects' \subseteq InstanceEnvs'
    BY DEF InstanceEnvs, KInv
  <2>2. QED
    BY <1>1, <1>5, <2>1 DEF ReachedHeld
<1>7. InstancesLive'
  <2>1. ASSUME NEW e \in Reached' \intersect (Alive' \union {Global}), NEW v \in store'[e],
               v.is = "instance"
        PROVE  v.env \in objects'
    <3>1. CASE e \in made
      BY <2>1, <3>1
    <3>2. CASE e \notin made
      <4>1. e \in Reached \intersect (Alive \union {Global}) /\ v \in store[e]
        BY <1>2, <1>5, <2>1, <3>2
      <4>2. QED
        BY <1>1, <2>1, <4>1 DEF InstancesLive
    <3>3. QED
      BY <3>1, <3>2
  <2>2. QED
    BY <2>1 DEF InstancesLive
<1>8. Complete \union made \subseteq Complete'
  <2>1. /\ Complete \subseteq Alive \union {Global} /\ Global \in Complete
        /\ \A e \in Complete \ {Global} : outer[e] \in Complete
    BY <1>1, CompleteClosed
  <2>2. Complete \union made \in SUBSET Scopes
    BY DEF Complete, Scopes
  <2>3. \A e \in (Complete \union made) \ {Global} : outer'[e] \in Complete \union made
    BY <1>4, <2>1
  <2>4. QED
    BY <1>1, <2>1, <2>2, <2>3, CompleteLeast
<1>9. FramesSee'
  <2>1. SUFFICES ASSUME NEW e \in Elements(stack')
                 PROVE  e \in Complete' /\ (kind'[e] = "constructor" => outer'[e] \in objects')
    BY DEF FramesSee
  <2>2. CASE e \in made
    BY <1>8, <2>2
  <2>3. CASE e \notin made
    <3>1. e \in Elements(stack) /\ e \in Alive
      BY <1>1, <2>1, <2>3 DEF StackFits
    <3>2. QED
      BY <1>1, <1>4, <1>8, <2>3, <3>1 DEF FramesSee
  <2>4. QED
    BY <2>2, <2>3
<1>10. QED
  BY <1>6, <1>7, <1>9 DEF CInv

\* The program begins with nothing to reach.
LEMMA InitCInv == Init => CInv
<1>1. SUFFICES ASSUME Init PROVE CInv
  OBVIOUS
<1>2. EnvironmentTypeOK
  BY <1>1, InitEInv DEF EInv
<1>3. /\ stack = <<>> /\ result = NoValue /\ objects = {}
      /\ store = [e \in Scopes |-> {}] /\ outer = [e \in Envs |-> Global]
      /\ Alive = {} /\ Elements(stack) = {}
  BY <1>1 DEF Init, Alive, Elements
<1>4. Reached \subseteq {Global}
  <2>1. Roots(stack, result) \subseteq {Global}
    BY <1>3 DEF Roots, NoValue
  <2>2. {Global} \in SUBSET Scopes /\ Refers(store)[Global] = {}
    BY <1>3 DEF Refers, Scopes
  <2>3. QED
    BY <2>1, <2>2, ClosureLeast DEF Reached, ReachedFrom
<1>5. ReachedHeld
  BY <1>4 DEF ReachedHeld
<1>6. InstancesLive
  <2>1. \A e \in Reached : store[e] = {}
    BY <1>3, <1>4 DEF Scopes
  <2>2. QED
    BY <1>3, <2>1 DEF InstancesLive, NoValue
<1>7. FramesSee
  BY <1>3 DEF FramesSee
<1>8. QED
  BY <1>5, <1>6, <1>7 DEF CInv

\* The arguments of a call are values that the caller sees.
LEMMA ArgumentsReached ==
    ASSUME EInv, KInv, CInv, phase = "running", NEW args \in Arguments
    PROVE  \A v \in args : v.env \in Reached /\ (v.is = "instance" => v.env \in objects)
<1>1. args \subseteq Visible
  BY DEF Arguments
<1>2. QED
  BY <1>1, VisibleReached

\* A call of a function: its frame looks names up in what the closure keeps.
LEMMA CallReaches ==
    ASSUME EInv, EInv', KInv, KInv', CInv, NEW f \in Visible, Call(f)
    PROVE  CInv'
<1> DEFINE e == created + 1
<1>1. /\ EnvironmentTypeOK /\ phase = "running" /\ phase' = "running"
  BY DEF EInv, Call, Running
<1>2. PICK args \in Arguments : Make(e, "function", f.env, args)
  BY DEF Call
<1>3. /\ e \in Envs /\ created' = e
      /\ kind' = [kind EXCEPT ![e] = "function"]
      /\ outer' = [outer EXCEPT ![e] = f.env]
      /\ store' = [store EXCEPT ![e] = args]
  BY <1>2 DEF Make, Call, Enter
<1>4. Alive' = Alive \union {e} /\ {e} \intersect Alive = {}
  <2>1. created \in Nat /\ freed' = freed /\ (created + 1)..(created + 1) = {e}
    BY <1>1 DEF Call, EnvironmentTypeOK
  <2>2. QED
    BY <1>1, <1>3, <2>1, OneMore
<1>5. /\ Elements(stack') = {e} \union Elements(stack) /\ result' = NoValue
      /\ objects' = objects /\ pinned \subseteq pinned' /\ escaped' = escaped
  BY <1>1, <1>3, PushElements DEF Call, Enter, EnvironmentTypeOK
<1>6. f.env \in Reached \intersect Complete
  BY <1>1, VisibleReached
<1>7. \A v \in args : v.env \in Reached /\ (v.is = "instance" => v.env \in objects)
  BY <1>1, ArgumentsReached
<1>8. kind[e] = "none"
  <2>1. created \in Nat /\ e > created
    BY <1>1 DEF EnvironmentTypeOK
  <2>2. QED
    BY <1>3, <2>1 DEF KInv
<1> HIDE DEF e
<1>9. /\ outer'[e] = f.env /\ store'[e] = args /\ kind'[e] = "function"
      /\ \A x \in Scopes \ {e} : store'[x] = store[x]
      /\ \A x \in Envs \ {e} : outer'[x] = outer[x] /\ kind'[x] = kind[x]
  BY <1>1, <1>3 DEF EnvironmentTypeOK, Scopes
<1>10. result'.env \in {e} \union {Global} /\ result'.is # "instance"
  BY <1>5 DEF NoValue
<1> DEFINE made == {e}
<1>11. made \in SUBSET Envs
  BY <1>3
<1>12. QED
  BY <1>1, <1>4, <1>5, <1>6, <1>7, <1>8, <1>9, <1>10, <1>11, GrowStep

\* A call of a method: its frame looks names up in its instance.
LEMMA MethodReaches ==
    ASSUME EInv, EInv', KInv, KInv', CInv, NEW i \in Receivers, CallMethod(i)
    PROVE  CInv'
<1> DEFINE e == created + 1
<1>1. /\ EnvironmentTypeOK /\ phase = "running" /\ phase' = "running"
  BY DEF EInv, CallMethod, Running
<1>2. PICK args \in Arguments : Make(e, "method", i, args)
  BY DEF CallMethod
<1>3. /\ e \in Envs /\ created' = e
      /\ kind' = [kind EXCEPT ![e] = "method"]
      /\ outer' = [outer EXCEPT ![e] = i]
      /\ store' = [store EXCEPT ![e] = args]
  BY <1>2 DEF Make, CallMethod, Enter
<1>4. Alive' = Alive \union {e} /\ {e} \intersect Alive = {}
  <2>1. created \in Nat /\ freed' = freed /\ (created + 1)..(created + 1) = {e}
    BY <1>1 DEF CallMethod, memory, EnvironmentTypeOK
  <2>2. QED
    BY <1>1, <1>3, <2>1, OneMore
<1>5. /\ Elements(stack') = {e} \union Elements(stack) /\ result' = NoValue
      /\ objects' = objects /\ pinned \subseteq pinned' /\ escaped' = escaped
  BY <1>1, <1>3, PushElements DEF CallMethod, Enter, memory, EnvironmentTypeOK
<1>6. i \in Reached \intersect Complete
  BY <1>1, VisibleReached
<1>7. \A v \in args : v.env \in Reached /\ (v.is = "instance" => v.env \in objects)
  BY <1>1, ArgumentsReached
<1>8. kind[e] = "none"
  <2>1. created \in Nat /\ e > created
    BY <1>1 DEF EnvironmentTypeOK
  <2>2. QED
    BY <1>3, <2>1 DEF KInv
<1> HIDE DEF e
<1>9. /\ outer'[e] = i /\ store'[e] = args /\ kind'[e] = "method"
      /\ \A x \in Scopes \ {e} : store'[x] = store[x]
      /\ \A x \in Envs \ {e} : outer'[x] = outer[x] /\ kind'[x] = kind[x]
  BY <1>1, <1>3 DEF EnvironmentTypeOK, Scopes
<1>10. result'.env \in {e} \union {Global} /\ result'.is # "instance"
  BY <1>5 DEF NoValue
<1> DEFINE made == {e}
<1>11. made \in SUBSET Envs
  BY <1>3
<1>12. QED
  BY <1>1, <1>4, <1>5, <1>6, <1>7, <1>8, <1>9, <1>10, <1>11, GrowStep

\* A new instance is handed to whoever made it.
LEMMA NewReaches ==
    ASSUME EInv, EInv', KInv, KInv', CInv, New
    PROVE  CInv'
<1> DEFINE i == created + 1
<1>1. /\ EnvironmentTypeOK /\ phase = "running" /\ phase' = "running"
  BY DEF EInv, New, Running
<1>2. Make(i, "instance", Global, {})
  BY DEF New
<1>3. /\ i \in Envs /\ created' = i
      /\ kind' = [kind EXCEPT ![i] = "instance"]
      /\ outer' = [outer EXCEPT ![i] = Global]
      /\ store' = [store EXCEPT ![i] = {}]
  BY <1>2 DEF Make, New
<1>4. Alive' = Alive \union {i} /\ {i} \intersect Alive = {}
  <2>1. created \in Nat /\ freed' = freed /\ (created + 1)..(created + 1) = {i}
    BY <1>1 DEF New, EnvironmentTypeOK
  <2>2. QED
    BY <1>1, <1>3, <2>1, OneMore
<1>5. /\ stack' = stack /\ result' = Instance(i)
      /\ objects' = objects \union {i} /\ pinned' = pinned /\ escaped' = escaped
  BY DEF New
<1>6. Global \in Reached \intersect Complete
  <2>1. Roots(stack, result) \subseteq Reached
    BY <1>1, ScopeTypes, ReachedClosed DEF Reached
  <2>2. QED
    BY <1>1, <2>1, CompleteClosed DEF Roots
<1>7. kind[i] = "none"
  <2>1. created \in Nat /\ i > created
    BY <1>1 DEF EnvironmentTypeOK
  <2>2. QED
    BY <1>3, <2>1 DEF KInv
<1> HIDE DEF i
<1>8. /\ outer'[i] = Global /\ store'[i] = {} /\ kind'[i] = "instance"
      /\ \A x \in Scopes \ {i} : store'[x] = store[x]
      /\ \A x \in Envs \ {i} : outer'[x] = outer[x] /\ kind'[x] = kind[x]
  BY <1>1, <1>3 DEF EnvironmentTypeOK, Scopes
<1>9. result'.env = i
  BY <1>5 DEF Instance
<1> DEFINE made == {i}
<1>10. made \in SUBSET Envs
  BY <1>3
<1>11. QED
  BY <1>1, <1>4, <1>5, <1>6, <1>7, <1>8, <1>9, <1>10, GrowStep

\* A constructor runs in a frame of the instance that it is to return.
LEMMA ConstructorReaches ==
    ASSUME EInv, EInv', KInv, KInv', CInv, NewWithConstructor
    PROVE  CInv'
<1> DEFINE i == created + 1
           e == created + 2
<1>1. /\ EnvironmentTypeOK /\ phase = "running" /\ phase' = "running"
  BY DEF EInv, NewWithConstructor, Running
<1>2. PICK args \in Arguments : store' = [store EXCEPT ![i] = {}, ![e] = args]
  BY DEF NewWithConstructor
<1>3. /\ e \in Envs /\ created' = e
      /\ kind' = [kind EXCEPT ![i] = "instance", ![e] = "constructor"]
      /\ outer' = [outer EXCEPT ![i] = Global, ![e] = i]
      /\ objects' = objects \union {i} /\ pinned' = pinned /\ escaped' = escaped
      /\ freed' = freed /\ Enter(e)
  BY DEF NewWithConstructor, Enter
<1>4. created \in Nat /\ i \in Envs /\ i # e /\ i > created /\ e > created
  BY <1>1, <1>3, BoundsAssumption DEF EnvironmentTypeOK, Envs
<1>5. Alive' = Alive \union {i, e} /\ {i, e} \intersect Alive = {}
  <2>1. (created + 1)..(created + 2) = {i, e}
    BY <1>4
  <2>2. /\ Alive' = Alive \union (created + 1)..(created + 2)
        /\ \A x \in Alive : x <= created
    BY <1>1, <1>3, OneMore
  <2>3. i \notin Alive /\ e \notin Alive
    BY <1>4, <2>2
  <2>4. QED
    BY <2>1, <2>2, <2>3
<1>6. Elements(stack') = {e} \union Elements(stack) /\ result' = NoValue
  BY <1>1, <1>3, PushElements DEF Enter, EnvironmentTypeOK
<1>7. Global \in Reached \intersect Complete
  <2>1. Roots(stack, result) \subseteq Reached
    BY <1>1, ScopeTypes, ReachedClosed DEF Reached
  <2>2. QED
    BY <1>1, <2>1, CompleteClosed DEF Roots
<1>8. \A v \in args : v.env \in Reached /\ (v.is = "instance" => v.env \in objects)
  BY <1>1, ArgumentsReached
<1>9. kind[i] = "none" /\ kind[e] = "none"
  BY <1>3, <1>4 DEF KInv
<1> HIDE DEF i, e
<1>10. /\ outer'[i] = Global /\ outer'[e] = i /\ store'[i] = {} /\ store'[e] = args
       /\ kind'[i] = "instance" /\ kind'[e] = "constructor"
       /\ \A x \in Scopes \ {i, e} : store'[x] = store[x]
       /\ \A x \in Envs \ {i, e} : outer'[x] = outer[x] /\ kind'[x] = kind[x]
  BY <1>1, <1>2, <1>3, <1>4 DEF EnvironmentTypeOK, Scopes
<1> DEFINE made == {i, e}
<1>11. made \in SUBSET Envs
  BY <1>3, <1>4
<1>12. result'.env \in made \union {Global} /\ result'.is # "instance"
  BY <1>6 DEF NoValue
<1>13. \A x \in made : kind[x] = "none"
  BY <1>9
<1>14. /\ \A x \in made : outer'[x] \in made \union (Reached \intersect Complete)
       /\ \A x \in made : \A v \in store'[x] :
              v.env \in Reached /\ (v.is = "instance" => v.env \in objects)
       /\ \A x \in made : kind'[x] = "constructor" => outer'[x] \in objects'
  <2>1. \A x \in made : outer'[x] \in made \union (Reached \intersect Complete)
    BY <1>7, <1>10
  <2>2. ASSUME NEW x \in made, NEW v \in store'[x]
        PROVE  v.env \in Reached /\ (v.is = "instance" => v.env \in objects)
    BY <1>8, <1>10, <2>2
  <2>3. \A x \in made : kind'[x] = "constructor" => outer'[x] \in objects'
    BY <1>3, <1>10
  <2>4. QED
    BY <2>1, <2>2, <2>3
<1>15. /\ Elements(stack) \subseteq Elements(stack') /\ Elements(stack') \subseteq Elements(stack) \union made
       /\ objects \subseteq objects' /\ objects' \subseteq objects \union made
       /\ made \subseteq Elements(stack') \union objects'
  BY <1>3, <1>6
<1> HIDE DEF made
<1>16. QED
  BY <1>1, <1>3, <1>5, <1>10, <1>11, <1>12, <1>13, <1>14, <1>15, GrowStep DEF made

\* A return: what its caller can still reach was reached.  The frame itself is
\* kept by a returned function; otherwise only a closure over it that was left
\* somewhere leads to it.
LEMMA ReturnReaches ==
    ASSUME EInv, EInv', KInv, KInv', CInv, NEW v \in Visible \union {NoValue}, Return(v)
    PROVE  CInv'
<1> DEFINE e == Head(stack)
           handed == IF kind[e] = "constructor" THEN Instance(outer[e]) ELSE v
<1>1. /\ EnvironmentTypeOK /\ EnvironmentTypeOK' /\ HoldersFit /\ StackFits /\ phase = "running"
      /\ ReachedHeld /\ InstancesLive /\ FramesSee
  BY DEF EInv, CInv, Return, Running
<1>2. /\ stack' = Tail(stack) /\ Elements(stack) = Elements(stack') \union {e}
  BY <1>1, PopElements DEF Return, EnvironmentTypeOK
<1>3. /\ result' = handed
      /\ pinned' = IF Pins(v) THEN pinned \union {e} ELSE pinned
      /\ escaped' = IF /\ v.is # "function" /\ e \notin pinned
                       /\ LeftBehind(e, ReachedFrom(store, Roots(Tail(stack), handed)))
                    THEN escaped \union {e} ELSE escaped
      /\ UNCHANGED <<created, kind, outer, store, freed, objects, phase>>
  BY DEF Return
<1>4. e \in Elements(stack) /\ e \in Alive
  BY <1>1, <1>2 DEF StackFits
<1>5. /\ Roots(stack, result) \subseteq Reached /\ Reached \subseteq Scopes
      /\ \A x \in Reached \intersect Alive : outer[x] \in Reached
      /\ \A x \in Reached \intersect (Alive \union {Global}) : \A w \in store[x] : w.env \in Reached
  BY <1>1, ScopeTypes, ReachedClosed DEF Reached
<1>6. Global \in Reached /\ Elements(stack) \subseteq Reached
  BY <1>5 DEF Roots, Elements
<1>7. handed.env \in Reached /\ (handed.is = "instance" => handed.env \in objects)
  <2>1. CASE kind[e] = "constructor"
    BY <1>1, <1>4, <1>5, <1>6, <2>1 DEF FramesSee, Instance
  <2>2. CASE kind[e] # "constructor" /\ v = NoValue
    BY <1>6, <2>2 DEF NoValue
  <2>3. CASE kind[e] # "constructor" /\ v \in Visible
    BY <1>1, <2>3, VisibleReached
  <2>4. QED
    BY <2>1, <2>2, <2>3
<1> HIDE DEF e, handed
<1>8. Alive' = Alive
  BY <1>3 DEF Alive
<1>9. Reached' = ReachedFrom(store, Roots(Tail(stack), handed))
  BY <1>2, <1>3, <1>8 DEF Reached, ReachedFrom, Refers
<1>10. Reached' \subseteq Reached
  <2>1. Roots(stack, result)' \subseteq Reached
    BY <1>2, <1>3, <1>6, <1>7 DEF Roots, Elements
  <2>2. QED
    BY <1>1, <1>3, <1>5, <1>8, <2>1, ReachedLeast
<1>11. InstanceEnvs' = InstanceEnvs
  BY <1>3 DEF InstanceEnvs
<1>12. ASSUME ~Pins(v), e \notin Elements(stack'), e \notin pinned, e \notin escaped'
       PROVE  e \notin Reached'
  <2> DEFINE S == Reached' \ {e}
  <2>1. v.is # "function" /\ ~LeftBehind(e, Reached')
    BY <1>3, <1>9, <1>12 DEF Pins
  <2>2. /\ Roots(stack, result)' \subseteq Reached' /\ Reached' \subseteq Scopes
        /\ \A x \in Reached' \intersect Alive : outer[x] \in Reached'
        /\ \A x \in Reached' \intersect (Alive \union {Global}) :
               \A w \in store[x] : w.env \in Reached'
    <3>1. Roots(stack, result)' = Roots(Tail(stack), handed)
      BY <1>2, <1>3 DEF Roots
    <3>2. Roots(Tail(stack), handed) \in SUBSET Scopes
      <4>1. Elements(Tail(stack)) \subseteq Scopes /\ handed.env \in Scopes
        BY <1>2, <1>5, <1>6, <1>7
      <4>2. Roots(Tail(stack), handed) = {Global} \union Elements(Tail(stack)) \union {handed.env}
        BY DEF Roots, Elements
      <4>3. QED
        BY <4>1, <4>2 DEF Scopes
    <3>3. QED
      BY <1>1, <1>9, <3>1, <3>2, ReachedClosed
  <2>3. e \in Envs /\ e # Global /\ e \notin InstanceEnvs
    BY <1>1, <1>4, ScopeTypes DEF KInv
  <2>4. \A w : w.is = "instance" /\ w.env \in objects => w.env # e
    BY <2>3 DEF KInv
  <2>5. handed.env # e
    <3>1. CASE handed = NoValue
      BY <2>3, <3>1 DEF NoValue
    <3>2. CASE handed # NoValue
      <4>1. handed.is = "instance"
        BY <2>1, <3>2, VisibleValues DEF handed, Instance, Values, Function
      <4>2. QED
        BY <1>7, <2>4, <4>1
    <3>3. QED
      BY <3>1, <3>2
  <2>6. Roots(stack, result)' \subseteq S
    <3>1. Roots(stack, result)' = {Global} \union Elements(stack') \union {handed.env}
      BY <1>3 DEF Roots, Elements
    <3>2. QED
      BY <1>12, <2>2, <2>3, <2>5, <3>1
  <2>7. ASSUME NEW x \in S \intersect Alive PROVE outer[x] \in S
    <3>1. outer[x] \in Reached' /\ x \in Envs
      BY <1>1, <2>2, ScopeTypes
    <3>2. outer[x] # e
      <4>1. kind[x] \in {"none", "function", "method", "constructor", "instance"}
        BY <1>1, <3>1 DEF EnvironmentTypeOK
      <4>2. CASE kind[x] = "function"
        BY <1>1, <1>12, <2>3, <2>7, <4>2 DEF HoldersFit
      <4>3. CASE kind[x] # "function"
        BY <2>3, <3>1, <4>1, <4>3 DEF KInv
      <4>4. QED
        BY <4>2, <4>3
    <3>3. QED
      BY <3>1, <3>2
  <2>8. ASSUME NEW x \in S \intersect (Alive \union {Global}), NEW w \in store[x]
        PROVE  w.env \in S
    <3>1. w.env \in Reached' /\ x \in Scopes /\ x # e
      BY <2>2, <2>8
    <3>2. w \in Values
      BY <1>1, <3>1 DEF EnvironmentTypeOK
    <3>3. w.env # e
      <4>1. CASE w.is = "instance"
        BY <1>1, <1>10, <2>4, <2>8, <4>1 DEF InstancesLive
      <4>2. CASE w.is # "instance"
        <5>1. w = Function(w.env)
          BY <3>2, <4>2 DEF Values, Function, Instance
        <5>2. QED
          BY <2>1, <2>8, <5>1 DEF LeftBehind
      <4>3. QED
        BY <4>1, <4>2
    <3>4. QED
      BY <3>1, <3>3
  <2>9. S \in SUBSET Scopes
    BY <2>2
  <2> HIDE DEF S
  <2>10. Reached' \subseteq S
    BY <1>1, <1>3, <1>8, <2>6, <2>7, <2>8, <2>9, ReachedLeast
  <2>11. QED
    BY <2>10 DEF S
<1>13. ReachedHeld'
  <2>1. SUFFICES ASSUME NEW x \in Reached', x # Global, x \notin escaped'
                 PROVE  x \in Elements(stack') \union pinned' \union InstanceEnvs'
    BY DEF ReachedHeld
  <2>2. x \in Elements(stack) \union pinned \union InstanceEnvs
    BY <1>1, <1>3, <1>10, <2>1 DEF ReachedHeld
  <2>3. CASE x = e /\ ~Pins(v)
    BY <1>3, <1>12, <2>1, <2>3
  <2>4. CASE x = e /\ Pins(v)
    BY <1>3, <2>4
  <2>5. CASE x # e
    BY <1>2, <1>3, <1>11, <2>2, <2>5
  <2>6. QED
    BY <2>3, <2>4, <2>5
<1>14. InstancesLive'
  BY <1>1, <1>3, <1>7, <1>8, <1>10 DEF InstancesLive
<1>15. Complete' = Complete
  BY <1>3, <1>8 DEF Complete, Chain, Around
<1>16. FramesSee'
  BY <1>1, <1>2, <1>3, <1>15 DEF FramesSee
<1>17. QED
  BY <1>13, <1>14, <1>16 DEF CInv

\* An assignment makes nothing reachable: the value and the place were.
LEMMA StoreReaches ==
    ASSUME EInv, EInv', KInv, KInv', CInv,
           \/ \E v \in Visible, t \in Targets : Assign(v, t)
           \/ \E t \in Targets : \E v \in store[t] : Forget(v, t)
    PROVE  CInv'
<1>1. /\ EnvironmentTypeOK /\ EnvironmentTypeOK' /\ phase = "running"
      /\ ReachedHeld /\ InstancesLive /\ FramesSee
  BY DEF EInv, CInv, Assign, Forget, Running
<1>2. /\ UNCHANGED <<created, kind, outer, stack, phase, escaped, memory>>
      /\ result' = NoValue
  BY DEF Assign, Forget
<1>3. Alive' = Alive
  BY <1>2 DEF Alive, memory
<1>4. /\ Roots(stack, result) \subseteq Reached /\ Reached \subseteq Scopes
      /\ \A e \in Reached \intersect Alive : outer[e] \in Reached
      /\ \A e \in Reached \intersect (Alive \union {Global}) : \A v \in store[e] : v.env \in Reached
  BY <1>1, ScopeTypes, ReachedClosed DEF Reached
<1>5. \A e \in Scopes : \A v \in store'[e] :
          \/ v \in store[e]
          \/ v.env \in Reached /\ (v.is = "instance" => v.env \in objects)
  <2>1. store \in [Scopes -> SUBSET Values]
    BY <1>1 DEF EnvironmentTypeOK
  <2>2. CASE \E v \in Visible, t \in Targets : Assign(v, t)
    <3>1. PICK v \in Visible, t \in Targets : store' = [store EXCEPT ![t] = @ \union {v}]
      BY <2>2 DEF Assign
    <3>2. v.env \in Reached /\ (v.is = "instance" => v.env \in objects)
      BY <1>1, VisibleReached
    <3>3. QED
      BY <2>1, <3>1, <3>2
  <2>3. CASE \E t \in Targets : \E v \in store[t] : Forget(v, t)
    <3>1. PICK t \in Targets : \E v \in store[t] : store' = [store EXCEPT ![t] = @ \ {v}]
      BY <2>3 DEF Forget
    <3>2. QED
      BY <2>1, <3>1
  <2>4. QED
    BY <2>2, <2>3
<1>6. Reached' \subseteq Reached
  <2>1. Roots(stack, result)' \subseteq Reached
    BY <1>2, <1>4 DEF Roots, NoValue
  <2>2. QED
    BY <1>1, <1>2, <1>3, <1>4, <1>5, <2>1, ReachedLeast
<1>7. ReachedHeld'
  BY <1>1, <1>2, <1>6 DEF ReachedHeld, InstanceEnvs, memory
<1>8. InstancesLive'
  <2>1. ASSUME NEW e \in Reached' \intersect (Alive' \union {Global}), NEW v \in store'[e],
               v.is = "instance"
        PROVE  v.env \in objects'
    BY <1>1, <1>2, <1>3, <1>4, <1>5, <1>6, <2>1 DEF InstancesLive, memory
  <2>2. QED
    BY <1>2, <2>1 DEF InstancesLive, NoValue
<1>9. Complete' = Complete
  BY <1>2, <1>3 DEF Complete, Chain, Around
<1>10. FramesSee'
  BY <1>1, <1>2, <1>9 DEF FramesSee, memory
<1>11. QED
  BY <1>7, <1>8, <1>10 DEF CInv

\* The end of a statement: an instance that a scope that is left names is marked.
LEMMA EndReaches ==
    ASSUME EInv, EInv', KInv, KInv', CInv, EndStatement \/ EndStatementSweeping
    PROVE  CInv'
<1>1. /\ EnvironmentTypeOK /\ EnvironmentTypeOK' /\ HoldersFit /\ phase = "running" /\ stack = <<>>
      /\ ReachedHeld /\ InstancesLive
      /\ result' = NoValue
      /\ UNCHANGED <<created, kind, outer, stack, phase, scheduled, pinned, escaped>>
  BY DEF EInv, CInv, EndStatement, EndStatementSweeping, Running
<1>2. \E kept : /\ MarkAndSweep(kept)
                /\ Alive' \subseteq Alive /\ Alive' \subseteq kept
                /\ \A e \in Scopes : store'[e] \subseteq store[e]
  <2>1. Elements(stack) = {} /\ store \in [Scopes -> SUBSET Values]
    BY <1>1 DEF Elements, EnvironmentTypeOK
  <2>2. Alive \subseteq listed
    BY <1>1, <2>1 DEF HoldersFit
  <2>3. CASE EndStatement
    <3>1. MarkAndSweep(listed) /\ Alive' = Alive /\ store' = store
      BY <2>3 DEF EndStatement, Alive
    <3>2. QED
      BY <2>2, <3>1
  <2>4. CASE EndStatementSweeping
    <3>1. /\ MarkAndSweep(listed \ Garbage) /\ freed' = freed \union Garbage /\ created' = created
          /\ store' = [e \in Scopes |-> IF e \in Garbage THEN {} ELSE store[e]]
      BY <2>4 DEF EndStatementSweeping, SweepEnvironments
    <3>2. Alive' = Alive \ Garbage
      BY <3>1 DEF Alive
    <3>3. QED
      BY <2>2, <3>1, <3>2
  <2>5. QED
    BY <2>3, <2>4
<1>3. PICK kept : /\ MarkAndSweep(kept)
                  /\ Alive' \subseteq Alive /\ Alive' \subseteq kept
                  /\ \A e \in Scopes : store'[e] \subseteq store[e]
  BY <1>2
<1> DEFINE dead == objects \ Marked(kept)
           left == ReachedFrom(store, {Global})
<1>4. objects' = objects \ dead
  BY <1>3 DEF MarkAndSweep
<1>5. /\ Roots(stack, result) \subseteq Reached /\ Reached \subseteq Scopes
      /\ \A e \in Reached : Refers(store)[e] \subseteq Reached
  BY <1>1, ScopeTypes, ClosureClosed DEF Reached, ReachedFrom
<1>6. left \subseteq Reached
  <2>1. {Global} \subseteq Reached
    BY <1>5 DEF Roots
  <2>2. QED
    BY <1>5, <2>1, ClosureLeast DEF ReachedFrom
<1>7. /\ Global \in left /\ left \subseteq Scopes
      /\ \A e \in left \intersect Alive : outer[e] \in left
      /\ \A e \in left \intersect (Alive \union {Global}) : \A v \in store[e] : v.env \in left
  <2>1. {Global} \in SUBSET Scopes
    BY DEF Scopes
  <2>2. QED
    BY <1>1, <2>1, ReachedClosed
<1> HIDE DEF left
<1>8. Reached' \subseteq left
  <2>1. Roots(stack, result)' \subseteq left
    BY <1>1, <1>7 DEF Roots, NoValue
  <2>2. QED
    BY <1>1, <1>3, <1>7, <2>1, ReachedLeast
<1>9. Elements(stack') = {} /\ Elements(stack) = {}
  BY <1>1 DEF Elements
<1>10. ReachedHeld'
  BY <1>1, <1>6, <1>8, <1>9 DEF ReachedHeld, InstanceEnvs
<1>11. InstancesLive'
  <2>1. ASSUME NEW e \in Reached' \intersect (Alive' \union {Global}), NEW v \in store'[e],
               v.is = "instance"
        PROVE  v.env \in objects'
    <3>1. e \in Reached /\ e \in Alive \union {Global} /\ e \in kept \union {Global} /\ v \in store[e]
      BY <1>3, <1>6, <1>7, <1>8, <2>1
    <3>2. v.env \in objects
      BY <1>1, <2>1, <3>1 DEF InstancesLive
    <3>3. v.env \in Marked(kept)
      BY <2>1, <3>1 DEF Marked
    <3>4. QED
      BY <1>4, <3>2, <3>3
  <2>2. QED
    BY <1>1, <2>1 DEF InstancesLive, NoValue
<1>12. FramesSee'
  BY <1>9 DEF FramesSee
<1>13. QED
  BY <1>10, <1>11, <1>12 DEF CInv

\* Every step keeps what is reachable held.
LEMMA NextCInv == EInv /\ EInv' /\ KInv /\ KInv' /\ CInv /\ [Next]_vars => CInv'
<1>1. SUFFICES ASSUME EInv, EInv', KInv, KInv', CInv, [Next]_vars PROVE CInv'
  OBVIOUS
<1>2. ASSUME NEW f \in Visible, Call(f) PROVE CInv'
  BY <1>1, <1>2, CallReaches
<1>3. ASSUME NEW i \in Receivers, CallMethod(i) PROVE CInv'
  BY <1>1, <1>3, MethodReaches
<1>4. CASE New
  BY <1>1, <1>4, NewReaches
<1>5. CASE NewWithConstructor
  BY <1>1, <1>5, ConstructorReaches
<1>6. ASSUME NEW v \in Visible \union {NoValue}, Return(v) PROVE CInv'
  BY <1>1, <1>6, ReturnReaches
<1>7. CASE HasRoom /\ \E v \in Visible, t \in Targets : Assign(v, t)
  BY <1>1, <1>7, StoreReaches
<1>8. CASE \E t \in Targets : \E v \in store[t] : Forget(v, t)
  BY <1>1, <1>8, StoreReaches
<1>9. CASE EndStatement \/ EndStatementSweeping
  BY <1>1, <1>9, EndReaches
<1>10. CASE EndOfFile \/ Quit
  BY <1>10 DEF EndOfFile, Quit, CInv
<1>11. CASE UNCHANGED vars
  BY <1>1, <1>11 DEF vars, memory, CInv, ReachedHeld, InstancesLive, FramesSee, InstanceEnvs,
                     Reached, ReachedFrom, Refers, Complete, Chain, Around, Alive
<1>12. QED
  BY <1>1, <1>2, <1>3, <1>4, <1>5, <1>6, <1>7, <1>8, <1>9, <1>10, <1>11 DEF Next

\* The frame of a call that returned a function stays, with the frames around it,
\* and an instance that the program can name has not been collected; what it can
\* reach that is gone was left behind by a call that returned no function, or is
\* the environment of an instance.
THEOREM ReturnedClosuresKeepScopes == Spec => []ClosuresKeepScopes
<1>1. Spec => []EInv /\ []KInv
  BY InitKInv, NextKInv, EInvAlways, PTL DEF Spec
<1>2. Spec => []CInv
  BY <1>1, InitCInv, NextCInv, PTL DEF Spec
<1>3. EInv /\ KInv /\ CInv => ClosuresKeepScopes
  <2>1. SUFFICES ASSUME EInv, KInv, CInv, phase = "running" PROVE ClosuresKeepScopes
    BY DEF ClosuresKeepScopes
  <2>2. EnvironmentTypeOK /\ ReachedHeld /\ InstancesLive /\ HoldersFit /\ StackFits
    BY <2>1 DEF EInv, CInv
  <2>3. Elements(stack) \union pinned \subseteq Alive
    BY <2>1, <2>2 DEF HoldersFit, StackFits
  <2>4. \A e \in Reached \ (Alive \union {Global}) : IsInstance(e) \/ e \in escaped
    BY <2>2, <2>3 DEF ReachedHeld, IsInstance, InstanceEnvs
  <2>5. \A v \in {result} \union UNION {store[e] : e \in Reached \intersect (Alive \union {Global})} :
            v.is = "instance" => v.env \in objects
    BY <2>2 DEF InstancesLive
  <2>6. ASSUME NEW e \in pinned PROVE Chain(e) \subseteq pinned \union InstanceEnvs \union {Global}
    <3> DEFINE S == pinned \union InstanceEnvs \union {Global}
    <3>1. S \in SUBSET Scopes
      BY <2>2 DEF EnvironmentTypeOK, InstanceEnvs, Scopes
    <3>2. ASSUME NEW x \in S, x # Global PROVE outer[x] \in S
      <4>1. x \in Envs /\ kind[x] \in {"none", "function", "method", "constructor", "instance"}
        BY <2>2, <3>1, <3>2 DEF EnvironmentTypeOK, Scopes
      <4>2. CASE kind[x] = "function"
        BY <2>1, <2>2, <2>3, <3>2, <4>2 DEF HoldersFit, InstanceEnvs
      <4>3. CASE kind[x] # "function"
        BY <2>1, <4>1, <4>3 DEF KInv
      <4>4. QED
        BY <4>2, <4>3
    <3>3. {e} \subseteq S /\ \A x \in S : Around[x] \subseteq S
      BY <3>1, <3>2 DEF Around
    <3> HIDE DEF S
    <3>4. Closure({e}, Around) \subseteq S
      BY <3>1, <3>3, ClosureLeast
    <3>5. QED
      BY <3>4 DEF Chain, S
  <2>7. \A e \in pinned : \A x \in Chain(e) : x \in Alive \union {Global} \/ IsInstance(x)
    BY <2>3, <2>6 DEF IsInstance, InstanceEnvs
  <2>8. QED
    BY <2>4, <2>5, <2>7 DEF ClosuresKeepScopes, Reached
<1>4. QED
  BY <1>1, <1>2, <1>3, PTL
=============================================================================
