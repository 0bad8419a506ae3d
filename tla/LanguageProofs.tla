--------------------------- MODULE LanguageProofs ---------------------------
(***************************************************************************)
(* Proofs about the virtual machine under the bytecode of Compiler: an      *)
(* invariant of everything that a loaded machine holds, kept by every       *)
(* instruction, and from it that the stack is balanced.  Before them, what  *)
(* a slice takes, for lists of any length and any bounds.                   *)
(***************************************************************************)
EXTENDS Language, SymbolTableProofs, SequenceTheorems, FiniteSetTheorems

-----------------------------------------------------------------------------
(* The invariant.                                                           *)

(* The slots of the operand stack, and the closure that the program itself  *)
(* runs in.                                                                 *)
Slots == 0..StackSize - 1

Main == Closure(0, <<>>)

(* How many captured variables the code of every function is right for.     *)
Callable == [f \in DOMAIN bytecode.functions |-> {n \in Nat : IsFunction(f, n)}]

(* W is a set of values in which everything that a value refers to exists.  *)
Valid(W, callable, classes, ids, n) ==
    /\ {NullPtr, NullObject, ErrorObject} \subseteq W
    /\ \A i \in Int : IntObject(i) \in W
    /\ \A b \in BOOLEAN : BoolObject(b) \in W
    /\ \A i \in Nat : BuiltinObject(i) \in W
    /\ \A f \in DOMAIN callable : 0 \in callable[f] => Closure(f, <<>>) \in W
    /\ \A v \in W :
          /\ v.v = "int" => v.n \in Int
          /\ v.v = "closure" => 
                v.free \in Seq(W) /\ v.fn \in DOMAIN callable /\ Len(v.free) \in callable[v.fn]
          /\ v.v = "bound" => v.owner \in 1..n /\ v.cl \in W /\ v.cl.v = "closure"
          /\ v.v = "list" => v.id \in ids
          /\ v.v = "instance" => v.id \in 1..n
          /\ v.v = "class" => v.class \in classes

(* The values that there are, and those that the bytecode can bring up.     *)
World(W) ==
    /\ Valid(W, Callable, DOMAIN bytecode.classes, DOMAIN lists, Len(instances))
    /\ \A i \in DOMAIN bytecode.constants : bytecode.constants[i] \in W
    /\ \A f \in DOMAIN bytecode.functions :
          \A i \in DOMAIN bytecode.functions[f].defaults : bytecode.functions[f].defaults[i] \in W

(* What the variables hold is made of these values.                         *)
Objects(W) == [class : DOMAIN bytecode.classes, fields : Seq(W)]

Data(W) ==
    /\ stack \in [Slots -> W]
    /\ globals \in [DOMAIN globals -> W]
    /\ lists \in [DOMAIN lists -> Seq(W)] /\ IsFiniteSet(DOMAIN lists)
    /\ instances \in Seq(Objects(W))
    /\ \A i \in DOMAIN instances : Len(instances[i].fields) <= Dynamic
    /\ DOMAIN fieldIndex = DOMAIN bytecode.classes
    /\ \A k \in DOMAIN fieldIndex : \A name \in DOMAIN fieldIndex[k] : fieldIndex[k][name] \in 0..Dynamic - 1

(* What the frames and the constructions are made of.                       *)
Frames(W) == [cl : W \union {Main}, ip : Nat, base : 0..StackSize, bound : Nat]
Dues(W) == [fn : DOMAIN bytecode.functions, args : Seq(W)]
Constructions(W) ==
    [instance : Nat, due : Seq(Dues(W)), callee : Slots, kept : [Slots -> W], depth : Nat]

(* The program is in the first frame, and values are in the others.         *)
Calls(W) ==
    /\ frames \in Seq(Frames(W))
    /\ \A k \in DOMAIN frames : frames[k].cl \in IF k = 1 THEN {Main} ELSE W
    /\ constructions \in Seq(Constructions(W))

(* The frames that are in the middle of call_class.                         *)
ConstructionDepths == {constructions[c].depth : c \in DOMAIN constructions}

(* A frame is at a position of its code that is reached on some path.       *)
FrameFits(k) ==
    /\ frames[k].cl.v = "closure"
    /\ frames[k].ip \in DOMAIN Depths(CodeOf(frames[k].cl))
    /\ frames[k].bound \in 0..Len(instances)

(* A frame begins where the operands of its caller end: the call has        *)
(* counted its callee and its arguments as popped and its value as pushed.  *)
CallerFits(k) == frames[k + 1].base = Balance(k) /\ frames[k + 1].base >= 1

(* The same for a caller that makes an instance: the instance will be in    *)
(* the slot of the class.                                                   *)
ConstructionFits(c) ==
    /\ constructions[c].instance \in 1..Len(instances)
    /\ constructions[c].depth \in 1..Len(frames)
    /\ constructions[c].callee + 1 = Balance(constructions[c].depth)
    /\ \A d \in DOMAIN constructions[c].due : 0 \in Callable[constructions[c].due[d].fn]

(* The callers, one over the other.  The inner constructions are those of   *)
(* the upper frames.                                                        *)
Framed ==
    /\ \A k \in DOMAIN frames : FrameFits(k)
    /\ \A k \in 1..Len(frames) - 1 : k \notin ConstructionDepths => CallerFits(k)
    /\ \A c \in DOMAIN constructions : ConstructionFits(c)
    /\ \A c, d \in DOMAIN constructions : c < d => constructions[c].depth < constructions[d].depth
    /\ status = "running" => frames # <<>>
    /\ sp \in 0..StackSize /\ executed \in 0..MaxInstructions
    /\ status \in {"running", "halted", "crashed", "out of budget"}

(* The invariant of a machine that has been loaded.                         *)
Live(W) == World(W) /\ Data(W) /\ Calls(W) /\ Framed /\ StackBalanced

(* A sequence over a set is one over a larger set.                          *)
LEMMA SeqMono == \A S, T : S \subseteq T => Seq(S) \subseteq Seq(T)
  BY SeqMonotonic

(* Data stays what it is when there are more values.                        *)
LEMMA DataGrows ==
    ASSUME NEW W, NEW V, W \subseteq V, Data(W)
    PROVE  Data(V)
<1> DEFINE classes == DOMAIN bytecode.classes
<1>1. Seq(W) \subseteq Seq(V)
  BY SeqMonotonic
<1>2. Seq(Objects(W)) \subseteq Seq(Objects(V))
  <2>1. Objects(W) \subseteq Objects(V)
    BY <1>1 DEF Objects
  <2> QED BY <2>1, SeqMonotonic
<1>3. stack \in [Slots -> V] /\ globals \in [DOMAIN globals -> V]
  BY DEF Data
<1>4. lists \in [DOMAIN lists -> Seq(V)]
  BY <1>1 DEF Data
<1> QED BY <1>1, <1>2, <1>3, <1>4 DEF Data

(* Calls stay what they are when there are more values.                     *)
LEMMA CallsGrow ==
    ASSUME NEW W, NEW V, W \subseteq V, Calls(W)
    PROVE  Calls(V)
<1>1. Frames(W) \subseteq Frames(V)
  BY DEF Frames
<1>2. Dues(W) \subseteq Dues(V)
  BY SeqMonotonic DEF Dues
<1>3. Seq(Dues(W)) \subseteq Seq(Dues(V))
  BY <1>2, SeqMonotonic
<1>4. [Slots -> W] \subseteq [Slots -> V]
  OBVIOUS
<1>5. Constructions(W) \subseteq Constructions(V)
  BY <1>3, <1>4 DEF Constructions
<1>6. Seq(Frames(W)) \subseteq Seq(Frames(V)) /\ Seq(Constructions(W)) \subseteq Seq(Constructions(V))
  BY <1>1, <1>5, SeqMonotonic
<1>7. \A k \in DOMAIN frames : frames[k].cl \in IF k = 1 THEN {Main} ELSE V
  BY DEF Calls
<1> QED BY <1>6, <1>7 DEF Calls

(* Values refer to nothing less when there are more lists and more          *)
(* instances.                                                               *)
LEMMA ValidKept ==
    ASSUME NEW W, NEW callable, NEW classes, NEW ids, NEW n \in Nat, NEW more, NEW m \in Nat,
           Valid(W, callable, classes, ids, n), ids \subseteq more, n <= m
    PROVE  Valid(W, callable, classes, more, m)
  BY DEF Valid

(* A new value can be added when what it refers to is there.                *)
Joins(v, W, callable, ids, n) ==
    \/ v.v = "bool"
    \/ \E fn \in DOMAIN callable, free \in Seq(W) : v = Closure(fn, free) /\ Len(free) \in callable[fn]
    \/ \E owner \in 1..n, cl \in W : cl.v = "closure" /\ v = BoundMethod(owner, cl)
    \/ \E id \in ids : v = ListObject(id)
    \/ \E id \in 1..n : v = Instance(id)

(* Values that can join a set of values join it all at once.                *)
LEMMA ValidWith ==
    ASSUME NEW W, NEW callable, NEW classes, NEW ids, NEW n, NEW new,
           Valid(W, callable, classes, ids, n),
           \A v \in new : Joins(v, W, callable, ids, n)
    PROVE  Valid(W \union new, callable, classes, ids, n)
<1> DEFINE V == W \union new
<1>1. Seq(W) \subseteq Seq(V)
  BY SeqMonotonic
<1>2. ASSUME NEW v \in new
      PROVE  /\ v.v = "int" => v.n \in Int
             /\ v.v = "closure" => 
                v.free \in Seq(V) /\ v.fn \in DOMAIN callable /\ Len(v.free) \in callable[v.fn]
             /\ v.v = "bound" => v.owner \in 1..n /\ v.cl \in V /\ v.cl.v = "closure"
             /\ v.v = "list" => v.id \in ids
             /\ v.v = "instance" => v.id \in 1..n
             /\ v.v = "class" => v.class \in classes
  <2>1. CASE \E fn \in DOMAIN callable, free \in Seq(W) : v = Closure(fn, free) /\ Len(free) \in callable[fn]
    BY <1>1, <2>1 DEF Closure
  <2>2. CASE \E owner \in 1..n, cl \in W : cl.v = "closure" /\ v = BoundMethod(owner, cl)
    BY <2>2 DEF BoundMethod
  <2>3. CASE \E id \in ids : v = ListObject(id)
    BY <2>3 DEF ListObject
  <2>4. CASE \E id \in 1..n : v = Instance(id)
    BY <2>4 DEF Instance
  <2>5. CASE v.v = "bool"
    BY <2>5
  <2> QED BY <2>1, <2>2, <2>3, <2>4, <2>5 DEF Joins
<1>3. ASSUME NEW v \in W
      PROVE  /\ v.v = "int" => v.n \in Int
             /\ v.v = "closure" => 
                v.free \in Seq(V) /\ v.fn \in DOMAIN callable /\ Len(v.free) \in callable[v.fn]
             /\ v.v = "bound" => v.owner \in 1..n /\ v.cl \in V /\ v.cl.v = "closure"
             /\ v.v = "list" => v.id \in ids
             /\ v.v = "instance" => v.id \in 1..n
             /\ v.v = "class" => v.class \in classes
  BY <1>1 DEF Valid
<1> HIDE DEF V
<1>4. /\ {NullPtr, NullObject, ErrorObject} \subseteq V
      /\ \A i \in Int : IntObject(i) \in V
      /\ \A b \in BOOLEAN : BoolObject(b) \in V
      /\ \A i \in Nat : BuiltinObject(i) \in V
      /\ \A f \in DOMAIN callable : 0 \in callable[f] => Closure(f, <<>>) \in V
  BY DEF Valid, V
<1>5. \A v \in V : v \in W \/ v \in new
  BY DEF V
<1>6. Valid(V, callable, classes, ids, n)
  BY <1>2, <1>3, <1>4, <1>5 DEF Valid
<1> QED BY <1>6 DEF V

-----------------------------------------------------------------------------
(* The code of a frame.                                                     *)

(* Max of two.                                                              *)
LEMMA MaxOf ==
    ASSUME NEW a \in Nat, NEW b \in Nat
    PROVE  Max({a, b}) \in Nat /\ Max({a, b}) >= a /\ Max({a, b}) >= b /\ (Max({a, b}) = a \/ Max({a, b}) = b)
<1>1. \E x \in {a, b} : \A y \in {a, b} : x >= y
  BY a <= b \/ b <= a
<1> QED BY <1>1 DEF Max

(* Min of two.                                                              *)
LEMMA MinOf ==
    ASSUME NEW a \in Int, NEW b \in Int
    PROVE  Min({a, b}) \in Int /\ Min({a, b}) <= a /\ Min({a, b}) <= b /\ (Min({a, b}) = a \/ Min({a, b}) = b)
<1>1. \E x \in {a, b} : \A y \in {a, b} : x <= y
  BY a <= b \/ b <= a
<1> QED BY <1>1 DEF Min

(* What IsSequence says of the length and the domain.                       *)
LEMMA Sequences == \A s : IsSequence(s) => Len(s) \in Nat /\ DOMAIN s = 1..Len(s)
  BY DEF IsSequence

(* The frame of a function has its locals, one at least.                    *)
LEMMA FunctionCode ==
    ASSUME Runnable, NEW cl, cl.fn \in DOMAIN bytecode.functions
    PROVE  /\ cl.fn # 0
           /\ FunctionOf(cl).numLocals \in Nat
           /\ LocalsOf(cl) \in Nat
           /\ LocalsOf(cl) >= FunctionOf(cl).numLocals
           /\ LocalsOf(cl) = Max({FunctionOf(cl).numLocals, 1})
           /\ CodeOf(cl) = FunctionOf(cl).code
<1>1. cl.fn # 0
  BY Sequences DEF Runnable
<1>2. FunctionOf(cl).numLocals \in Nat
  BY DEF Runnable, FunctionWellFormed, FunctionOf
<1> QED BY <1>1, <1>2, MaxOf DEF LocalsOf, CodeOf

(* The locals that the compiler has counted.                                *)
NamedLocals(cl) == IF cl.fn = 0 THEN 0 ELSE FunctionOf(cl).numLocals

(* What the code of a closure fulfils.                                      *)
Fits(cl, W) ==
    /\ cl.free \in Seq(W)
    /\ LocalsOf(cl) \in Nat /\ NamedLocals(cl) \in Nat /\ NamedLocals(cl) <= LocalsOf(cl)
    /\ WellFormed(CodeOf(cl), NamedLocals(cl), Len(cl.free))

(* A closure among the values runs code that was made for as many captured  *)
(* variables as it has, and that does not run off its end.                  *)
LEMMA ClosureCode ==
    ASSUME Runnable, NEW W, World(W), NEW cl \in W, cl.v = "closure"
    PROVE  /\ cl.fn \in DOMAIN bytecode.functions /\ cl.fn # 0
           /\ Fits(cl, W)
           /\ Len(CodeOf(cl)) \notin DOMAIN Depths(CodeOf(cl))
<1>1. cl.free \in Seq(W) /\ cl.fn \in DOMAIN Callable /\ Len(cl.free) \in Callable[cl.fn]
  BY DEF World, Valid
<1>2. cl.fn \in DOMAIN bytecode.functions /\ IsFunction(cl.fn, Len(cl.free))
  BY <1>1 DEF Callable
<1>3. /\ WellFormed(FunctionOf(cl).code, FunctionOf(cl).numLocals, Len(cl.free))
      /\ Len(FunctionOf(cl).code) \notin DOMAIN Depths(FunctionOf(cl).code)
  BY <1>2 DEF IsFunction, FunctionOf
<1> QED BY <1>1, <1>2, <1>3, FunctionCode DEF NamedLocals, Fits

(* The program runs without locals and captured variables.                  *)
LEMMA MainCode ==
    ASSUME Runnable, NEW W
    PROVE  /\ Main.fn = 0 /\ Main.v = "closure" /\ LocalsOf(Main) = 0 /\ CodeOf(Main) = bytecode.code
           /\ Fits(Main, W)
           /\ IsProgram(CodeOf(Main))
<1>1. Main.fn = 0 /\ Main.free = <<>> /\ Main.v = "closure"
  BY DEF Main, Closure
<1>2. CodeOf(Main) = bytecode.code /\ LocalsOf(Main) = 0 /\ NamedLocals(Main) = 0
  BY <1>1 DEF CodeOf, LocalsOf, NamedLocals
<1>3. Main.free \in Seq(W) /\ Len(Main.free) = 0
  BY <1>1, EmptySeq
<1>4. IsProgram(bytecode.code)
  BY DEF Runnable
<1> QED BY <1>1, <1>2, <1>3, <1>4 DEF IsProgram, Fits

(* So every frame runs code that fits it, and its stack has a depth.        *)
LEMMA FrameCode ==
    ASSUME Runnable, NEW W, World(W), Calls(W), Framed, NEW k \in DOMAIN frames
    PROVE  /\ k \in 1..Len(frames) /\ Len(frames) \in Nat
           /\ frames[k] \in Frames(W)
           /\ frames[k].cl.v = "closure"
           /\ frames[k].cl = Main \/ (k # 1 /\ frames[k].cl \in W)
           /\ frames[k].cl.fn = 0 <=> k = 1
           /\ Fits(frames[k].cl, W)
           /\ IF k = 1 THEN IsProgram(CodeOf(frames[k].cl))
              ELSE Len(CodeOf(frames[k].cl)) \notin DOMAIN Depths(CodeOf(frames[k].cl))
           /\ Balance(k) \in Nat
<1> DEFINE cl == frames[k].cl
<1>1. k \in 1..Len(frames) /\ Len(frames) \in Nat /\ frames[k] \in Frames(W)
  BY DEF Calls
<1>2. cl \in IF k = 1 THEN {Main} ELSE W
  BY DEF Calls
<1>3. cl.v = "closure"
  BY DEF Framed, FrameFits
<1>4. /\ cl = Main \/ (k # 1 /\ cl \in W)
      /\ cl.fn = 0 <=> k = 1
      /\ Fits(cl, W)
      /\ IF k = 1 THEN IsProgram(CodeOf(cl)) ELSE Len(CodeOf(cl)) \notin DOMAIN Depths(CodeOf(cl))
  <2> HIDE DEF cl
  <2>1. CASE k = 1
    <3>1. cl = Main
      BY <1>2, <2>1
    <3> QED BY <2>1, <3>1, MainCode
  <2>2. CASE k # 1
    BY <1>2, <1>3, <2>2, ClosureCode
  <2> QED BY <2>1, <2>2
<1>5. Depths(CodeOf(cl))[frames[k].ip] \in Nat
  <2>1. frames[k].ip \in DOMAIN Depths(CodeOf(cl))
    BY DEF Framed, FrameFits
  <2> QED BY <1>4, <2>1 DEF WellFormed, Fits
<1>6. frames[k].base \in Nat
  BY <1>1 DEF Frames, MachineAssumption
<1>7. Balance(k) \in Nat
  BY <1>4, <1>5, <1>6 DEF Balance, Fits
<1> HIDE DEF cl
<1> QED BY <1>1, <1>3, <1>4, <1>7 DEF cl

-----------------------------------------------------------------------------
(* An instruction inside a frame.                                           *)

(* The machine is about to execute an instruction, with so many operands in *)
(* the frame.                                                               *)
Ready == status = "running" /\ ~ConstructionDue /\ ~AtEnd

Operands == Depths(CodeOf(Current.cl))[Current.ip]

(* What the instruction finds.                                              *)
LEMMA Fetched ==
    ASSUME Runnable, NEW W, Live(W), Ready
    PROVE  /\ Len(frames) \in DOMAIN frames /\ Len(frames) \in Nat \ {0}
           /\ Current = frames[Len(frames)] /\ Current \in Frames(W)
           /\ Fits(Current.cl, W)
           /\ Instruction \in [op : STRING, x : 0..Dynamic, y : Nat]
           /\ Operands \in Nat
           /\ OperandsExist(Instruction, Operands, NamedLocals(Current.cl), Len(Current.cl.free))
           /\ sp = Current.base + LocalsOf(Current.cl) + Operands
           /\ \A j \in Successors(Instruction, Current.ip) :
                 /\ j \in DOMAIN Depths(CodeOf(Current.cl)) /\ j \in Nat
                 /\ Depths(CodeOf(Current.cl))[j] = Operands + Growth(Instruction)
           /\ Len(frames) = 1 => Instruction.op # "CURRENT_CLOSURE"
           /\ \A c \in DOMAIN constructions : constructions[c].depth < Len(frames)
<1> DEFINE n == Len(frames)
           cl == Current.cl
           code == CodeOf(cl)
           p == Current.ip
<1>1. n \in Nat \ {0} /\ n \in DOMAIN frames /\ Current = frames[n] /\ Current \in Frames(W)
  <2>1. frames # <<>> /\ frames \in Seq(Frames(W))
    BY DEF Live, Framed, Calls, Ready
  <2> QED BY <2>1 DEF Current, Last
<1>2. Fits(cl, W) /\ (n = 1 => IsProgram(code))
  BY <1>1, FrameCode DEF Live
<1>3. p \in DOMAIN Depths(code)
  BY <1>1 DEF Live, Framed, FrameFits
<1>4. WellFormed(code, NamedLocals(cl), Len(cl.free))
  BY <1>2 DEF Fits
<1>5. p \in 0..Len(code) /\ p # Len(code) /\ Len(code) \in Nat /\ p \in Nat
  <2>1. code \in Seq([op : STRING, x : 0..Dynamic, y : Nat]) /\ p \in 0..Len(code)
    BY <1>3, <1>4 DEF WellFormed
  <2>2. ~(p >= Len(code))
    BY DEF Ready, AtEnd
  <2> HIDE DEF code, p
  <2> QED BY <2>1, <2>2
<1>6. Instruction = code[p + 1] /\ Operands = Depths(code)[p]
  BY DEF Instruction, Operands
<1>7. /\ Operands \in Nat
      /\ OperandsExist(Instruction, Operands, NamedLocals(cl), Len(cl.free))
      /\ \A j \in Successors(Instruction, p) :
           j \in DOMAIN Depths(code) /\ Depths(code)[j] = Operands + Growth(Instruction)
      /\ \A j \in DOMAIN Depths(code) : j \in Nat
  <2> HIDE DEF code, p, cl
  <2> QED BY <1>3, <1>4, <1>5, <1>6 DEF WellFormed
<1>8. Instruction \in [op : STRING, x : 0..Dynamic, y : Nat] /\ p + 1 \in DOMAIN code
  <2>1. code \in Seq([op : STRING, x : 0..Dynamic, y : Nat])
    BY <1>4 DEF WellFormed
  <2>2. p + 1 \in 1..Len(code)
    BY <1>5
  <2> HIDE DEF code, p
  <2>3. code[p + 1] \in [op : STRING, x : 0..Dynamic, y : Nat]
    BY <2>1, <2>2, ElementOfSeq
  <2> QED BY <1>6, <2>1, <2>2, <2>3
<1>9. n = 1 => Instruction.op # "CURRENT_CLOSURE"
  <2> HIDE DEF code, p, n
  <2> QED BY <1>2, <1>6, <1>8 DEF IsProgram
<1>10. sp = Current.base + LocalsOf(cl) + Operands
  BY <1>1 DEF Live, StackBalanced, Ready, Balance, Operands
<1>11. ASSUME NEW c \in DOMAIN constructions
       PROVE  constructions[c].depth < n
  <2> DEFINE last == Len(constructions)
  <2>1. last \in Nat /\ DOMAIN constructions = 1..last /\ constructions # <<>> /\ c \in 1..last
    BY DEF Live, Calls
  <2>2. last \in DOMAIN constructions /\ (c = last \/ c < last)
    BY <2>1
  <2>3. constructions[last].depth # n
    BY <2>1 DEF Ready, ConstructionDue, Last
  <2>4. constructions[last].depth \in 1..n /\ constructions[c].depth \in 1..n
    BY <2>2 DEF Live, Framed, ConstructionFits
  <2>5. c < last => constructions[c].depth < constructions[last].depth
    BY <2>2 DEF Live, Framed
  <2> HIDE DEF last
  <2> QED BY <2>2, <2>3, <2>4, <2>5
<1> QED BY <1>1, <1>2, <1>7, <1>8, <1>9, <1>10, <1>11

(* What is defined from the bytecode alone stays with it.                   *)
LEMMA SameCallable ==
    ASSUME UNCHANGED bytecode
    PROVE  Callable' = Callable
  BY DEF Callable, IsFunction, WellFormed, OperandsExist

(* So does the code of a closure, with its locals.                          *)
LEMMA SameCode ==
    ASSUME UNCHANGED bytecode, NEW cl
    PROVE  CodeOf(cl)' = CodeOf(cl) /\ LocalsOf(cl)' = LocalsOf(cl)
  BY DEF LocalsOf, CodeOf, FunctionOf

(* The end of a frame's operands depends on nothing but the frame and the   *)
(* bytecode.                                                                *)
BalanceOf(fr) == fr.base + LocalsOf(fr.cl) + Depths(CodeOf(fr.cl))[fr.ip]

(* A frame ends where its new value says.                                   *)
LEMMA BalanceAt ==
    ASSUME UNCHANGED bytecode, NEW k, NEW fr, frames'[k] = fr
    PROVE  Balance(k)' = BalanceOf(fr)
  BY DEF Balance, BalanceOf, LocalsOf, CodeOf, FunctionOf

(* A frame that stays ends where it ended.                                  *)
LEMMA SameBalance ==
    ASSUME UNCHANGED bytecode, NEW k, frames'[k] = frames[k]
    PROVE  Balance(k)' = Balance(k)
  BY BalanceAt DEF Balance, BalanceOf

(* The stack is balanced when it ends where the topmost frame does.         *)
LEMMA BalancedAt ==
    ASSUME NEW n, Len(frames)' = n, status' = "running" => sp' = Balance(n)'
    PROVE  StackBalanced'
  BY DEF StackBalanced, Balance

(* An instruction changes the depth by a number.                            *)
LEMMA GrowthIsInt ==
    ASSUME NEW instr \in [op : STRING, x : 0..Dynamic, y : Nat]
    PROVE  Growth(instr) \in Int
<1>1. instr.x \in Int /\ instr.y \in Int
  OBVIOUS
<1> QED BY <1>1 DEF Growth

(* A step inside a frame: nothing changes in the calls but where it goes on. *)
LEMMA Advances ==
    ASSUME Runnable, NEW W, Live(W), Ready, NEW V, W \subseteq V,
           NEW j \in Successors(Instruction, Current.ip), GoTo(j),
           UNCHANGED <<bytecode, constructions>>,
           Len(instances) \in Nat, Len(instances)' \in Nat, Len(instances) <= Len(instances)',
           sp' \in 0..StackSize, executed' \in 0..MaxInstructions,
           status' \in {"running", "halted", "crashed"}, sp' = sp + Growth(Instruction)
    PROVE  Calls(V)' /\ Framed' /\ StackBalanced'
<1>a. PICK n : n = Len(frames)
  OBVIOUS
<1>0. /\ n \in DOMAIN frames /\ n \in Nat \ {0} /\ Current = frames[n] /\ Current \in Frames(V)
      /\ Operands \in Nat
      /\ sp = Current.base + LocalsOf(Current.cl) + Operands
      /\ j \in DOMAIN Depths(CodeOf(Current.cl)) /\ j \in Nat
      /\ Depths(CodeOf(Current.cl))[j] = Operands + Growth(Instruction)
      /\ \A c \in DOMAIN constructions : constructions[c].depth < n
  <2>1. Current \in Frames(W) => Current \in Frames(V)
    BY DEF Frames
  <2> QED BY <1>a, <2>1, Fetched
<1>b. Calls(V)
  BY CallsGrow DEF Live
<1>1. frames \in Seq(Frames(V)) /\ DOMAIN frames = 1..n
  BY <1>a, <1>b DEF Calls
<1>2. frames' = [frames EXCEPT ![n].ip = j]
  BY <1>a DEF GoTo
<1>3. /\ frames' \in Seq(Frames(V)) /\ Len(frames') = n /\ DOMAIN frames' = 1..n
      /\ \A k \in 1..n : k # n => frames'[k] = frames[k]
      /\ frames'[n].ip = j /\ frames'[n].cl = frames[n].cl /\ frames'[n].base = frames[n].base
      /\ frames'[n].bound = frames[n].bound
  <2>1. [frames[n] EXCEPT !.ip = j] \in Frames(V)
    BY <1>0 DEF Frames
  <2> QED BY <1>0, <1>1, <1>2, <2>1 DEF Frames
<1>4. Calls(V)'
  <2>1. \A k \in 1..n : frames'[k].cl = frames[k].cl
    BY <1>3
  <2>2. \A k \in 1..n : frames[k].cl \in IF k = 1 THEN {Main} ELSE V
    BY <1>1, <1>b DEF Calls
  <2>3. constructions' \in Seq(Constructions(V))'
    BY <1>b DEF Calls, Constructions, Dues
  <2>4. frames' \in Seq(Frames(V))'
    BY <1>3 DEF Frames, Main, Closure
  <2>5. \A k \in DOMAIN frames' : frames'[k].cl \in IF k = 1 THEN {Main} ELSE V
    BY <1>3, <2>1, <2>2
  <2> QED BY <2>3, <2>4, <2>5 DEF Calls, Main, Closure
<1>5. \A k \in 1..n : k # n => Balance(k)' = Balance(k)
  BY <1>3, SameBalance
<1>7. Balance(n)' = sp'
  <2>1. Balance(n)' = frames'[n].base + LocalsOf(frames[n].cl) + Depths(CodeOf(frames[n].cl))[j]
    <3>1. PICK fr : fr = frames'[n]
      OBVIOUS
    <3>2. Balance(n)' = BalanceOf(fr)
      BY <3>1, BalanceAt
    <3>3. fr.ip = j /\ fr.cl = frames[n].cl
      BY <1>3, <3>1
    <3> QED BY <3>1, <3>2, <3>3 DEF BalanceOf
  <2>2. Current.base \in Nat /\ LocalsOf(Current.cl) \in Nat
    BY <1>0, Fetched, MachineAssumption DEF Frames, Fits
  <2>3. Balance(n)' = Current.base + LocalsOf(Current.cl) + (Operands + Growth(Instruction))
    BY <1>0, <1>3, <2>1
  <2>4. Growth(Instruction) \in Int
    BY Fetched, GrowthIsInt
  <2> QED BY <1>0, <2>2, <2>3, <2>4
<1>8. \A k \in 1..n : FrameFits(k)'
  <2> TAKE k \in 1..n
  <2>1. FrameFits(k)
    BY <1>1 DEF Live, Framed
  <2>2. CASE k = n
    <3>1. j \in DOMAIN Depths(CodeOf(frames[n].cl))
      BY <1>0
    <3> QED BY <1>3, <2>1, <2>2, <3>1 DEF FrameFits, CodeOf, FunctionOf
  <2>3. CASE k # n
    <3>1. frames'[k] = frames[k]
      BY <1>3, <2>3
    <3> QED BY <2>1, <3>1 DEF FrameFits, CodeOf, FunctionOf
  <2> QED BY <2>2, <2>3
<1>9. \A k \in 1..n - 1 : k \notin ConstructionDepths' => CallerFits(k)'
  <2> TAKE k \in 1..n - 1
  <2>1. k \notin ConstructionDepths => CallerFits(k)
    BY <1>0, <1>1, <1>a DEF Live, Framed
  <2>2. frames'[k + 1].base = frames[k + 1].base /\ Balance(k)' = Balance(k)
    BY <1>0, <1>3, <1>5
  <2> QED BY <2>1, <2>2 DEF CallerFits, ConstructionDepths
<1>10. \A c \in DOMAIN constructions : ConstructionFits(c)'
  <2> TAKE c \in DOMAIN constructions
  <2>1. ConstructionFits(c)
    BY DEF Live, Framed
  <2>2. Balance(constructions[c].depth)' = Balance(constructions[c].depth)
    BY <1>0, <1>5, <2>1 DEF ConstructionFits
  <2>3. Len(frames)' = Len(frames)
    BY <1>3, <1>a
  <2> QED BY <2>1, <2>2, <2>3, SameCallable DEF ConstructionFits
<1>11. Framed'
  <2>1. \A c, d \in DOMAIN constructions : c < d => constructions[c].depth < constructions[d].depth
    BY DEF Live, Framed
  <2>2. frames' # <<>>
    BY <1>0, <1>3
  <2> QED BY <1>3, <1>8, <1>9, <1>10, <2>1, <2>2 DEF Framed
<1>12. StackBalanced'
  <2>1. Len(frames)' = n
    BY <1>3
  <2> QED BY <1>7, <2>1, BalancedAt
<1> QED BY <1>4, <1>11, <1>12

(* The parts of the invariant, and the ranges in it.                        *)
LEMMA LiveFacts ==
    ASSUME NEW W, Live(W)
    PROVE  /\ sp \in Nat /\ sp \in 0..StackSize /\ sp <= StackSize
           /\ stack \in [Slots -> W] /\ DOMAIN stack = Slots
           /\ executed \in 0..MaxInstructions
           /\ World(W) /\ Data(W) /\ Calls(W) /\ Framed /\ StackBalanced
<1>1. sp \in 0..StackSize /\ executed \in 0..MaxInstructions
  BY DEF Live, Framed
<1>2. stack \in [Slots -> W]
  BY DEF Live, Data
<1> QED BY <1>1, <1>2, MachineAssumption DEF Live

(* New values that refer to what there is after the step can be added to    *)
(* the world.                                                               *)
LEMMA WorldWith ==
    ASSUME NEW W, World(W), UNCHANGED bytecode,
           DOMAIN lists \subseteq DOMAIN lists',
           Len(instances) \in Nat, Len(instances') \in Nat, Len(instances) <= Len(instances'),
           NEW new, \A v \in new : Joins(v, W, Callable, DOMAIN lists', Len(instances')),
           NEW V, V = W \union new
    PROVE  World(V)'
<1>1. Valid(W, Callable, DOMAIN bytecode.classes, DOMAIN lists', Len(instances'))
  BY ValidKept DEF World
<1>2. Valid(V, Callable, DOMAIN bytecode.classes, DOMAIN lists', Len(instances'))
  <2>1. Valid(W \union new, Callable, DOMAIN bytecode.classes, DOMAIN lists', Len(instances'))
    BY <1>1, ValidWith
  <2> QED BY <2>1
<1> QED BY <1>2, SameCallable DEF World

(* Data of a step that changes stack and globals only.                      *)
LEMMA DataKept ==
    ASSUME NEW W, Data(W), NEW V, W \subseteq V, UNCHANGED <<bytecode, heapVars>>,
           stack' \in [Slots -> V], globals' \in [DOMAIN globals' -> V]
    PROVE  Data(V)'
<1>1. Data(V)
  BY DataGrows
<1> QED BY <1>1 DEF Data, Objects, heapVars, memberVars, Slots

(* There is a number of instances.                                          *)
LEMMA InstancesCount ==
    ASSUME NEW W, Data(W)
    PROVE  Len(instances) \in Nat
  BY DEF Data

(* A step inside a frame that makes no object.                              *)
LEMMA StepsOn ==
    ASSUME Runnable, NEW W, Live(W), Ready,
           NEW j \in Successors(Instruction, Current.ip), GoTo(j),
           UNCHANGED <<bytecode, objectVars>>,
           NEW new, \A v \in new : Joins(v, W, Callable, DOMAIN lists, Len(instances)),
           stack' \in [Slots -> W \union new], globals' \in [DOMAIN globals' -> W \union new],
           sp' \in 0..StackSize, executed' \in 0..MaxInstructions,
           status' \in {"running", "halted", "crashed"}, sp' = sp + Growth(Instruction)
    PROVE  \E V : Live(V)'
<1>1. PICK V : V = W \union new
  OBVIOUS
<1>2. UNCHANGED <<lists, instances, constructions>>
  BY DEF objectVars, heapVars, memberVars
<1>3. Len(instances) \in Nat /\ W \subseteq V
  BY <1>1, InstancesCount DEF Live
<1>4. World(V)'
  <2>1. DOMAIN lists' = DOMAIN lists /\ Len(instances') = Len(instances)
    BY <1>2
  <2>2. \A v \in new : Joins(v, W, Callable, DOMAIN lists', Len(instances'))
    BY <2>1
  <2>3. World(W) /\ UNCHANGED bytecode
    BY DEF Live
  <2>4. DOMAIN lists \subseteq DOMAIN lists' /\ Len(instances') \in Nat /\ Len(instances) <= Len(instances')
    BY <1>3, <2>1
  <2> QED BY <1>1, <1>3, <2>1, <2>2, <2>3, <2>4, WorldWith
<1>5. Data(V)'
  BY <1>1, <1>3, DataKept DEF Live, objectVars
<1>6. Calls(V)' /\ Framed' /\ StackBalanced'
  BY <1>2, <1>3, Advances
<1> QED BY <1>4, <1>5, <1>6 DEF Live

(* What every instruction that is executed has in common.                   *)
LEMMA ExecutesFacts ==
    ASSUME NEW W, Live(W), NEW ops, Executes(ops)
    PROVE  /\ Ready /\ Instruction.op \in ops
           /\ executed' \in 0..MaxInstructions /\ UNCHANGED bytecode /\ status = "running"
  BY MachineAssumption DEF Executes, Ready, Live, Framed

(* What is popped is a value, a null pointer on an empty stack.             *)
LEMMA BelowIsValue ==
    ASSUME NEW W, Live(W), NEW i \in Nat
    PROVE  Below(i) \in W
<1>1. NullPtr \in W
  BY DEF Live, World, Valid
<1>2. CASE sp > i
  <2>1. sp - i - 1 \in Slots
    BY <1>2, LiveFacts, MachineAssumption DEF Slots
  <2> QED BY <1>2, <2>1, LiveFacts DEF Below
<1>3. CASE ~(sp > i)
  BY <1>1, <1>3 DEF Below
<1> QED BY <1>2, <1>3

(* A push of one value in a slot of the stack.                              *)
LEMMA PushOne ==
    ASSUME NEW V, stack \in [Slots -> V], NEW at \in 0..StackSize - 1, NEW v \in V, Push(at, <<v>>)
    PROVE  sp' = at + 1 /\ sp' \in 0..StackSize /\ stack' \in [Slots -> V] /\ stack'[at] = v
<1>1. Len(<<v>>) = 1 /\ <<v>>[1] = v /\ Floor(StackSize - at) >= 1
  BY MachineAssumption DEF Floor
<1>2. /\ stack' = [i \in DOMAIN stack |-> IF i >= at /\ i < at + 1 THEN <<v>>[i - at + 1] ELSE stack[i]]
      /\ sp' = at + 1
  BY <1>1, MachineAssumption DEF Push, Floor
<1>3. \A i \in Slots : i >= at /\ i < at + 1 => i - at + 1 = 1
  BY MachineAssumption DEF Slots
<1>4. \A i \in Slots : (IF i >= at /\ i < at + 1 THEN <<v>>[i - at + 1] ELSE stack[i]) \in V
  BY <1>1, <1>3
<1>5. at \in Slots /\ at >= at /\ at < at + 1 /\ at - at + 1 = 1
  BY MachineAssumption DEF Slots
<1> QED BY <1>1, <1>2, <1>4, <1>5, MachineAssumption

(* A push of nothing moves the stack pointer only.                          *)
LEMMA PushNone ==
    ASSUME NEW V, stack \in [Slots -> V], NEW at \in 0..StackSize, Push(at, <<>>)
    PROVE  sp' = at /\ sp' \in 0..StackSize /\ stack' \in [Slots -> V] /\ stack' = stack
<1>1. Len(<<>>) = 0 /\ Floor(StackSize - at) >= 0
  BY MachineAssumption DEF Floor
<1>2. /\ stack' = [i \in DOMAIN stack |-> IF i >= at /\ i < at + 0 THEN <<>>[i - at + 1] ELSE stack[i]]
      /\ sp' = at + 0
  BY <1>1, MachineAssumption DEF Push, Floor
<1>3. \A i \in Slots : ~(i >= at /\ i < at + 0)
  BY MachineAssumption DEF Slots
<1>4. stack' = stack
  BY <1>2, <1>3
<1> QED BY <1>2, <1>4, MachineAssumption

(* One value in the place of the topmost n.                                 *)
LEMMA PopPushOne ==
    ASSUME NEW W, Live(W), NEW V, W \subseteq V, NEW n \in Nat, n <= sp, sp - n < StackSize,
           NEW v \in V, PopPush(n, <<v>>)
    PROVE  sp' = sp - n + 1 /\ sp' \in 0..StackSize /\ stack' \in [Slots -> V]
<1>1. sp \in Nat /\ stack \in [Slots -> V]
  BY LiveFacts
<1>2. Floor(sp - n) = sp - n /\ sp - n \in 0..StackSize - 1
  BY <1>1, MachineAssumption DEF Floor
<1> QED BY <1>1, <1>2, PushOne DEF PopPush

(* The topmost n are popped.                                                *)
LEMMA PopPushNone ==
    ASSUME NEW W, Live(W), NEW V, W \subseteq V, NEW n \in Nat, n <= sp, PopPush(n, <<>>)
    PROVE  sp' = sp - n /\ sp' \in 0..StackSize /\ stack' \in [Slots -> V] /\ stack' = stack
<1>1. sp \in Nat /\ sp <= StackSize /\ stack \in [Slots -> V]
  BY LiveFacts
<1>2. Floor(sp - n) = sp - n /\ sp - n \in 0..StackSize
  BY <1>1, MachineAssumption DEF Floor
<1> QED BY <1>1, <1>2, PushNone DEF PopPush

(* How many operands there are.                                             *)
LEMMA OperandsOnStack ==
    ASSUME Runnable, NEW W, Live(W), Ready
    PROVE  sp \in Nat /\ Operands \in Nat /\ sp >= Operands
<1>1. Current.base \in Nat /\ LocalsOf(Current.cl) \in Nat
  BY Fetched, MachineAssumption DEF Frames, Fits
<1> QED BY <1>1, Fetched

(* The same for an instruction that the next one follows.                   *)
LEMMA StepsToNext ==
    ASSUME Runnable, NEW W, Live(W), NEW ops, Executes(ops),
           Instruction.op \notin {"JUMP", "RETURN_VALUE", "RETURN"}, Next1,
           UNCHANGED <<globals, objectVars>>,
           NEW new, \A v \in new : Joins(v, W, Callable, DOMAIN lists, Len(instances)),
           stack' \in [Slots -> W \union new],
           sp' \in 0..StackSize, sp' = sp + Growth(Instruction), status' \in {"running", "halted", "crashed"}
    PROVE  \E V : Live(V)'
<1>1. Ready /\ executed' \in 0..MaxInstructions /\ UNCHANGED bytecode
  BY ExecutesFacts
<1>2. PICK j : j = Current.ip + 1
  OBVIOUS
<1>3. j \in Successors(Instruction, Current.ip)
  BY <1>2 DEF Successors
<1>4. GoTo(j)
  BY <1>2 DEF Next1
<1>5. globals' \in [DOMAIN globals' -> W \union new]
  BY DEF Live, Data
<1>6. UNCHANGED <<bytecode, objectVars>>
  BY <1>1
<1> QED BY <1>1, <1>3, <1>4, <1>5, <1>6, StepsOn

(* A value, there already or new, in the place of n operands.               *)
LEMMA YieldsOne ==
    ASSUME Runnable, NEW W, Live(W), NEW ops, Executes(ops),
           Instruction.op \notin {"JUMP", "RETURN_VALUE", "RETURN"}, Next1,
           UNCHANGED <<status, globals, objectVars>>,
           NEW n \in Nat, n <= sp, sp - n < StackSize, Growth(Instruction) = 1 - n,
           NEW v, v \in W \/ Joins(v, W, Callable, DOMAIN lists, Len(instances)),
           PopPush(n, <<v>>)
    PROVE  \E V : Live(V)'
<1>1. \E new : (\A u \in new : Joins(u, W, Callable, DOMAIN lists, Len(instances))) /\ v \in W \union new
  <2>1. CASE v \in W
    <3>1. PICK new : new = {}
      OBVIOUS
    <3>2. \A u \in new : Joins(u, W, Callable, DOMAIN lists, Len(instances))
      BY <3>1
    <3>3. v \in W \union new
      BY <2>1
    <3> QED BY <3>2, <3>3
  <2>2. CASE v \notin W
    <3>1. PICK new : new = {v}
      OBVIOUS
    <3>2. \A u \in new : Joins(u, W, Callable, DOMAIN lists, Len(instances))
      <4> TAKE u \in new
      <4>1. u = v
        BY <3>1
      <4> QED BY <2>2, <4>1
    <3>3. v \in W \union new
      BY <3>1
    <3> QED BY <3>2, <3>3
  <2> QED BY <2>1, <2>2
<1>2. PICK new : (\A u \in new : Joins(u, W, Callable, DOMAIN lists, Len(instances))) /\ v \in W \union new
  BY <1>1
<1>3. PICK V : V = W \union new
  OBVIOUS
<1>4. sp' = sp - n + 1 /\ sp' \in 0..StackSize /\ stack' \in [Slots -> V]
  <2>1. W \subseteq V /\ v \in V
    BY <1>2, <1>3
  <2> QED BY <2>1, PopPushOne
<1>5. sp' = sp + Growth(Instruction)
  BY <1>4, LiveFacts
<1>6. status' \in {"running", "halted", "crashed"}
  BY ExecutesFacts
<1>7. stack' \in [Slots -> W \union new] /\ sp' \in 0..StackSize
  BY <1>3, <1>4
<1>8. \A u \in new : Joins(u, W, Callable, DOMAIN lists, Len(instances))
  BY <1>2
<1>9. UNCHANGED <<globals, objectVars>>
  OBVIOUS
<1> QED BY <1>5, <1>6, <1>7, <1>8, <1>9, StepsToNext

(* An instruction that pops n operands and pushes none.                     *)
LEMMA YieldsNone ==
    ASSUME Runnable, NEW W, Live(W), NEW ops, Executes(ops),
           Instruction.op \notin {"JUMP", "RETURN_VALUE", "RETURN"}, Next1,
           UNCHANGED <<globals, objectVars>>, status' \in {"running", "halted", "crashed"},
           NEW n \in Nat, n <= sp, Growth(Instruction) = -n, PopPush(n, <<>>)
    PROVE  \E V : Live(V)'
<1>1. sp' = sp - n /\ sp' \in 0..StackSize /\ stack' \in [Slots -> W]
  BY PopPushNone
<1>2. sp' = sp + Growth(Instruction)
  BY <1>1, LiveFacts
<1>3. PICK new : new = {}
  OBVIOUS
<1>4. \A u \in new : Joins(u, W, Callable, DOMAIN lists, Len(instances))
  BY <1>3
<1>5. stack' \in [Slots -> W \union new] /\ sp' \in 0..StackSize
  BY <1>1, <1>3
<1>6. UNCHANGED <<globals, objectVars>>
  OBVIOUS
<1> QED BY <1>2, <1>4, <1>5, <1>6, StepsToNext

(* A field that an instance does not have is a null pointer.                *)
LEMMA FieldIsValue ==
    ASSUME NEW W, Live(W), NEW instance \in 1..Len(instances), NEW index
    PROVE  FieldAt(instance, index) \in W
<1>1. NullPtr \in W
  BY DEF Live, World, Valid
<1>2. instances[instance].fields \in Seq(W)
  <2>1. instances \in Seq(Objects(W))
    BY DEF Live, Data
  <2>2. instances[instance] \in Objects(W)
    BY <2>1
  <2> QED BY <2>2 DEF Objects
<1>3. CASE index \in 0..Len(instances[instance].fields) - 1
  <2>1. index + 1 \in 1..Len(instances[instance].fields)
    BY <1>2, <1>3
  <2>2. instances[instance].fields[index + 1] \in W
    BY <1>2, <2>1
  <2> QED BY <1>3, <2>2 DEF FieldAt
<1> QED BY <1>1, <1>3 DEF FieldAt

(* The instance of the current frame exists.                                *)
LEMMA CurrentFits ==
    ASSUME Runnable, NEW W, Live(W), Ready
    PROVE  Current.bound \in 0..Len(instances) /\ Current.base \in Nat
<1>1. Len(frames) \in DOMAIN frames /\ Current = frames[Len(frames)] /\ Current \in Frames(W)
  BY Fetched
<1>2. FrameFits(Len(frames))
  BY <1>1 DEF Live, Framed
<1> QED BY <1>1, <1>2, MachineAssumption DEF FrameFits, Frames

(* A global without a value is a null pointer.                              *)
LEMMA GlobalIsValue ==
    ASSUME NEW W, Live(W), NEW i
    PROVE  GlobalValue(i) \in W
  BY DEF Live, World, Valid, Data, GlobalValue

(* The same of a field that a method reads as a global.                     *)
LEMMA FieldOfGlobalIsValue ==
    ASSUME Runnable, NEW W, Live(W), Ready, NEW i
    PROVE  FieldOfGlobal(i) \in W
<1>1. NullPtr \in W
  BY DEF Live, World, Valid
<1>2. Len(instances) \in Nat
  BY InstancesCount DEF Live
<1>3. CASE Current.bound = 0
  BY <1>1, <1>3 DEF FieldOfGlobal
<1>4. CASE Current.bound # 0
  <2>1. Current.bound \in 1..Len(instances)
    BY <1>2, <1>4, CurrentFits
  <2>2. FieldNamed(Current.bound, bytecode.globalNames[i]) \in W
    BY <2>1, FieldIsValue DEF FieldNamed
  <2> QED BY <1>1, <2>2 DEF FieldOfGlobal
<1> QED BY <1>3, <1>4

(* What an instruction loads is a value: constants, locals and captured     *)
(* variables exist.  GET_THIS makes one instead.                            *)
LEMMA LoadedIsValue ==
    ASSUME Runnable, NEW W, Live(W), Ready,
           Instruction.op \in {"CONSTANT", "TRUE", "FALSE", "NULL", "GET_GLOBAL", "GET_LOCAL",
                               "GET_BUILTIN", "GET_FREE", "CURRENT_CLOSURE"}
    PROVE  Loaded(Instruction) \in W
<1> DEFINE x == Instruction.x
<1>1. x \in Nat /\ OperandsExist(Instruction, Operands, NamedLocals(Current.cl), Len(Current.cl.free))
  BY Fetched
<1>2. /\ NullObject \in W /\ ErrorObject \in W
      /\ BoolObject(TRUE) \in W /\ BoolObject(FALSE) \in W
      /\ BuiltinObject(x) \in W
  BY <1>1 DEF Live, World, Valid
<1>3. CASE Instruction.op = "CONSTANT"
  <2>1. x < Len(bytecode.constants)
    BY <1>1, <1>3 DEF OperandsExist
  <2>2. x + 1 \in DOMAIN bytecode.constants
    BY <1>1, <2>1, Sequences DEF Runnable
  <2>3. bytecode.constants[x + 1] \in W
    BY <2>2 DEF Live, World
  <2> QED BY <1>3, <2>3 DEF Loaded
<1>4. CASE Instruction.op \in {"TRUE", "FALSE", "NULL", "GET_BUILTIN"}
  BY <1>2, <1>4 DEF Loaded
<1>5. CASE Instruction.op = "GET_GLOBAL"
  <2>1. GlobalValue(x) \in W /\ FieldOfGlobal(x) \in W
    BY GlobalIsValue, FieldOfGlobalIsValue
  <2> QED BY <1>2, <1>5, <2>1 DEF Loaded
<1>6. CASE Instruction.op = "GET_LOCAL"
  <2>1. x < NamedLocals(Current.cl) /\ NamedLocals(Current.cl) <= LocalsOf(Current.cl)
    BY <1>1, <1>6, Fetched DEF OperandsExist, Fits
  <2>2. /\ sp = Current.base + LocalsOf(Current.cl) + Operands /\ Operands \in Nat
        /\ NamedLocals(Current.cl) \in Nat /\ LocalsOf(Current.cl) \in Nat /\ Current.base \in Nat
    BY Fetched, CurrentFits DEF Fits
  <2>3. Slot(x) \in Slots
    BY <1>1, <2>1, <2>2, LiveFacts, MachineAssumption DEF Slot, Slots
  <2>4. stack[Slot(x)] \in W
    BY <2>3, LiveFacts
  <2> QED BY <1>6, <2>4 DEF Loaded
<1>7. CASE Instruction.op = "GET_FREE"
  <2>1. x < Len(Current.cl.free) /\ Current.cl.free \in Seq(W)
    BY <1>1, <1>7, Fetched DEF OperandsExist, Fits
  <2>2. Current.cl.free[x + 1] \in W
    BY <1>1, <2>1
  <2> QED BY <1>2, <1>7, <2>2 DEF Loaded
<1>8. CASE Instruction.op = "CURRENT_CLOSURE"
  <2>1. Len(frames) # 1 /\ Len(frames) \in DOMAIN frames /\ Current = frames[Len(frames)]
    BY <1>8, Fetched
  <2>2. Current.cl \in W
    BY <2>1, FrameCode, MainCode DEF Live
  <2> QED BY <1>8, <2>2 DEF Loaded
<1> QED BY <1>3, <1>4, <1>5, <1>6, <1>7, <1>8

(* LoadValue keeps the invariant, given room for a value more.              *)
LEMMA LoadValueLives ==
    ASSUME Runnable, NEW W, Live(W), MeetsNoError, LoadValue
    PROVE  \E V : Live(V)'
<1> DEFINE ops == {"CONSTANT", "TRUE", "FALSE", "NULL", "GET_GLOBAL", "GET_LOCAL", "GET_BUILTIN",
                   "GET_FREE", "CURRENT_CLOSURE", "GET_THIS"}
<1>1. Executes(ops) /\ Next1 /\ UNCHANGED <<status, globals, objectVars>>
  BY DEF LoadValue
<1>2. Ready /\ Instruction.op \in ops /\ status = "running" /\ sp < StackSize
  BY <1>1, ExecutesFacts DEF MeetsNoError, HasRoom
<1>3. ~(Instruction.op = "GET_LOCAL" /\ Slot(Instruction.x) >= StackSize)
  <2> SUFFICES ASSUME Instruction.op = "GET_LOCAL"
               PROVE  ~(Slot(Instruction.x) >= StackSize)
    OBVIOUS
  <2>1. /\ Instruction.x < NamedLocals(Current.cl) /\ NamedLocals(Current.cl) <= LocalsOf(Current.cl)
        /\ Instruction.x \in Nat
    BY <1>2, Fetched DEF OperandsExist, Fits
  <2>2. /\ sp = Current.base + LocalsOf(Current.cl) + Operands /\ Operands \in Nat
        /\ NamedLocals(Current.cl) \in Nat /\ LocalsOf(Current.cl) \in Nat /\ Current.base \in Nat
    BY <1>2, Fetched, CurrentFits DEF Fits
  <2> QED BY <2>1, <2>2, LiveFacts, MachineAssumption DEF Slot
<1>4. PopPush(0, <<Loaded(Instruction)>>)
  BY <1>3 DEF LoadValue
<1>5. Growth(Instruction) = 1 /\ Instruction.op \notin {"JUMP", "RETURN_VALUE", "RETURN"}
  BY <1>2 DEF Growth
<1>6. PICK v : v = Loaded(Instruction)
  OBVIOUS
<1>7. v \in W \/ Joins(v, W, Callable, DOMAIN lists, Len(instances))
  <2>1. CASE Instruction.op # "GET_THIS"
    BY <1>2, <1>6, <2>1, LoadedIsValue
  <2>2. CASE Instruction.op = "GET_THIS" /\ Current.bound = 0
    <3>1. NullObject \in W
      BY DEF Live, World, Valid
    <3> QED BY <1>6, <2>2, <3>1 DEF Loaded
  <2>3. CASE Instruction.op = "GET_THIS" /\ Current.bound # 0
    <3>1. v = Instance(Current.bound)
      BY <1>6, <2>3 DEF Loaded
    <3>2. Current.bound \in 1..Len(instances)
      BY <1>2, <2>3, CurrentFits, InstancesCount DEF Live
    <3> QED BY <3>1, <3>2 DEF Joins
  <2> QED BY <2>1, <2>2, <2>3
<1>8. PopPush(0, <<v>>)
  BY <1>4, <1>6
<1>9. 0 <= sp /\ sp - 0 < StackSize
  BY <1>2, LiveFacts
<1>10. Growth(Instruction) = 1 - 0
  BY <1>5
<1> HIDE DEF ops
<1> QED BY <1>1, <1>5, <1>7, <1>8, <1>9, <1>10, YieldsOne

-----------------------------------------------------------------------------
(* Operators and instructions that pop.                                     *)

(* A step that leaves everything as it is, or ends the machine.             *)
LEMMA Rests ==
    ASSUME NEW W, Live(W), UNCHANGED <<bytecode, stack, sp, frames, globals, objectVars>>,
           executed' \in 0..MaxInstructions, status' \in {"running", "crashed", "halted", "out of budget"},
           status' = "running" => status = "running"
    PROVE  Live(W)'
<1>1. UNCHANGED <<bytecode, stack, sp, frames, globals, lists, instances, fieldIndex, constructions>>
  BY DEF objectVars, heapVars, memberVars
<1>2. Callable' = Callable
  BY SameCallable
<1>3. World(W)'
  BY <1>1, <1>2 DEF Live, World
<1>4. Data(W)'
  BY <1>1 DEF Live, Data, Objects, Slots
<1>5. Calls(W)'
  BY <1>1 DEF Live, Calls, Frames, Constructions, Dues, Slots, Main, Closure
<1>6. \A k : Balance(k)' = Balance(k)
  BY <1>1, SameBalance
<1>7. Framed'
  <2>1. \A k \in DOMAIN frames : FrameFits(k)'
    BY <1>1 DEF Live, Framed, FrameFits, CodeOf, FunctionOf
  <2>2. ConstructionDepths' = ConstructionDepths
    BY <1>1 DEF ConstructionDepths
  <2>3. \A k \in 1..Len(frames) - 1 : k \notin ConstructionDepths => CallerFits(k)'
    BY <1>1, <1>6 DEF Live, Framed, CallerFits
  <2>4. \A c \in DOMAIN constructions : ConstructionFits(c)'
    BY <1>1, <1>2, <1>6 DEF Live, Framed, ConstructionFits
  <2>5. \A c, d \in DOMAIN constructions : c < d => constructions[c].depth < constructions[d].depth
    BY DEF Live, Framed
  <2>6. status' = "running" => frames # <<>>
    BY DEF Live, Framed
  <2> QED BY <1>1, <2>1, <2>2, <2>3, <2>4, <2>5, <2>6, LiveFacts DEF Framed
<1>8. StackBalanced'
  <2>1. Len(frames)' = Len(frames) /\ ConstructionDue' = ConstructionDue
    BY <1>1 DEF ConstructionDue
  <2>2. StackBalanced
    BY DEF Live
  <2> QED BY <1>1, <1>6, <2>1, <2>2 DEF StackBalanced
<1> QED BY <1>3, <1>4, <1>5, <1>7, <1>8 DEF Live

(* A step that ends the machine.                                            *)
LEMMA Stops ==
    ASSUME NEW W, Live(W), UNCHANGED <<bytecode, stack, sp, frames, globals, objectVars>>,
           executed' \in 0..MaxInstructions, status' \in {"crashed", "halted", "out of budget"}
    PROVE  \E V : Live(V)'
<1>1. status' \in {"running", "crashed", "halted", "out of budget"} /\ status' # "running"
  OBVIOUS
<1> QED BY <1>1, Rests

(* An operator with a result gives a number.                                *)
LEMMA ArithmeticIsValue ==
    ASSUME NEW W, World(W), NEW op \in {"ADD", "SUB", "MULTIPLY", "DIVIDE", "MOD"},
           NEW left \in W, NEW right \in W, Arithmetic(op, left, right) # <<>>
    PROVE  \E v \in W : Arithmetic(op, left, right) = <<v>>
<1>1. left.v = "int" /\ right.v = "int"
  BY DEF Arithmetic
<1>2. left.n \in Int /\ right.n \in Int
  BY <1>1 DEF World, Valid
<1>3. PICK a \in Int, b \in Int : a = left.n /\ b = right.n
  BY <1>2
<1>4. /\ a + b \in Int /\ a - b \in Int /\ a * b \in Int
      /\ b # 0 => Quotient(a, b) \in Int /\ Remainder(a, b) \in Int
  <2>1. a + b \in Int /\ a - b \in Int /\ a * b \in Int
    OBVIOUS
  <2>2. ASSUME b # 0 PROVE Quotient(a, b) \in Int
    <3>1. Magnitude(a) \in Int /\ Magnitude(b) \in Int /\ Magnitude(b) > 0
      BY <2>2 DEF Magnitude
    <3>2. Magnitude(a) \div Magnitude(b) \in Int
      BY <3>1
    <3> QED BY <3>2 DEF Quotient
  <2>3. ASSUME b # 0 PROVE Remainder(a, b) \in Int
    <3>1. PICK q \in Int : q = Quotient(a, b)
      BY <2>2, <2>3
    <3>2. b * q \in Int
      OBVIOUS
    <3> QED BY <3>1, <3>2 DEF Remainder
  <2> QED BY <2>1, <2>2, <2>3
<1>5. \A i \in Int : IntObject(i) \in W
  BY DEF World, Valid
<1>6. \E i \in Int : Arithmetic(op, left, right) = <<IntObject(i)>>
  <2>1. op = "DIVIDE" \/ op = "MOD" => b # 0
    BY <1>1, <1>3 DEF Arithmetic
  <2>2. CASE op = "ADD"
    BY <1>1, <1>3, <1>4, <2>2 DEF Arithmetic
  <2>3. CASE op = "SUB"
    BY <1>1, <1>3, <1>4, <2>3 DEF Arithmetic
  <2>4. CASE op = "MULTIPLY"
    BY <1>1, <1>3, <1>4, <2>4 DEF Arithmetic
  <2>5. CASE op = "DIVIDE"
    BY <1>1, <1>3, <1>4, <2>1, <2>5 DEF Arithmetic
  <2>6. CASE op = "MOD"
    BY <1>1, <1>3, <1>4, <2>1, <2>6 DEF Arithmetic
  <2> QED BY <2>2, <2>3, <2>4, <2>5, <2>6
<1> QED BY <1>5, <1>6

(* A comparison with a result gives a boolean.                              *)
LEMMA ComparisonIsValue ==
    ASSUME NEW W, World(W), NEW op \in {"EQUAL", "NOTEQUAL", "GREATERTHAN", "GREATERTHAN_EQUAL"},
           NEW left \in W, NEW right \in W, Comparison(op, left, right) # <<>>
    PROVE  \E v : v.v = "bool" /\ Comparison(op, left, right) = <<v>>
<1>1. CASE left.v = "int" /\ right.v = "int"
  <2>1. left.n \in Int /\ right.n \in Int
    BY <1>1 DEF World, Valid
  <2>2. CASE op = "EQUAL"
    BY <1>1, <2>2 DEF Comparison, BoolObject
  <2>3. CASE op = "NOTEQUAL"
    BY <1>1, <2>3 DEF Comparison, BoolObject
  <2>4. CASE op = "GREATERTHAN"
    BY <1>1, <2>1, <2>4 DEF Comparison, BoolObject
  <2>5. CASE op = "GREATERTHAN_EQUAL"
    BY <1>1, <2>1, <2>5 DEF Comparison, BoolObject
  <2> QED BY <2>2, <2>3, <2>4, <2>5
<1>2. CASE ~(left.v = "int" /\ right.v = "int")
  BY <1>2 DEF Comparison, BoolObject
<1> QED BY <1>1, <1>2

(* The instructions of BinaryOperation and of Compare.                      *)
ArithmeticOps == {"ADD", "SUB", "MULTIPLY", "DIVIDE", "MOD"}
ComparisonOps == {"EQUAL", "NOTEQUAL", "GREATERTHAN", "GREATERTHAN_EQUAL"}

(* Two operands are replaced by a result, or the machine dereferences a     *)
(* null pointer.                                                            *)
LEMMA OperateLives ==
    ASSUME Runnable, NEW W, Live(W), MeetsNoError,
           NEW ops, Executes(ops), Instruction.op \in ArithmeticOps \union ComparisonOps,
           NEW v, v \in W \/ Joins(v, W, Callable, DOMAIN lists, Len(instances)),
           Operate(<<v>>), UNCHANGED <<globals, objectVars>>
    PROVE  \E V : Live(V)'
<1>1. Ready /\ status = "running" /\ UNCHANGED bytecode /\ executed' \in 0..MaxInstructions
  BY ExecutesFacts
<1>2. /\ Growth(Instruction) = 1 - 2
      /\ Instruction.op \notin {"JUMP", "RETURN_VALUE", "RETURN"}
      /\ Instruction.op \in LeavingValue
      /\ Instruction.op \notin {"CONSTANT", "CLOSURE", "GET_LOCAL", "SET_LOCAL", "GET_FREE", "CALL",
                                "CALL_KW", "GET_PROPERTY_SYM"}
  BY DEF Growth, ArithmeticOps, ComparisonOps, LeavingValue
<1>3. Operands + Growth(Instruction) >= 1
  BY <1>1, <1>2, Fetched DEF OperandsExist
<1>4. sp \in Nat /\ 2 <= sp /\ sp <= StackSize /\ sp - 2 < StackSize
  BY <1>1, <1>2, <1>3, OperandsOnStack, LiveFacts, MachineAssumption
<1>5. CASE Below(0) = NullPtr \/ Below(1) = NullPtr
  <2>1. status' = "crashed" /\ UNCHANGED <<stack, sp, frames>>
    BY <1>4, <1>5 DEF Operate
  <2> QED BY <1>1, <2>1, Stops
<1>6. CASE ~(Below(0) = NullPtr \/ Below(1) = NullPtr)
  <2>1. PopPush(2, <<v>>) /\ Next1 /\ UNCHANGED status
    BY <1>4, <1>6 DEF Operate
  <2>2. UNCHANGED <<status, globals, objectVars>>
    BY <2>1
  <2> QED BY <1>2, <1>4, <2>1, <2>2, YieldsOne
<1> QED BY <1>5, <1>6

(* Arithmetic keeps the invariant where it has a result; without one the    *)
(* code would pop the operands all the same.                                *)
LEMMA BinaryOperationLives ==
    ASSUME Runnable, NEW W, Live(W), MeetsNoError, BinaryOperation
    PROVE  \E V : Live(V)'
<1>1. Executes(ArithmeticOps) /\ UNCHANGED <<globals, objectVars>>
  BY DEF BinaryOperation, ArithmeticOps
<1>2. Ready /\ Instruction.op \in ArithmeticOps /\ status = "running"
  BY <1>1, ExecutesFacts
<1>3. Arithmetic(Instruction.op, Below(1), Below(0)) # <<>>
  BY <1>2 DEF MeetsNoError, HasResult, Ready, ArithmeticOps
<1>4. Below(0) \in W /\ Below(1) \in W
  BY BelowIsValue
<1>5. PICK v \in W : Arithmetic(Instruction.op, Below(1), Below(0)) = <<v>>
  <2>1. World(W)
    BY DEF Live
  <2>2. PICK a \in W, b \in W : a = Below(1) /\ b = Below(0)
    BY <1>4
  <2>3. PICK op : op = Instruction.op
    OBVIOUS
  <2>4. op \in ArithmeticOps /\ Arithmetic(op, a, b) # <<>>
    BY <1>2, <1>3, <2>2, <2>3
  <2>5. \E v \in W : Arithmetic(op, a, b) = <<v>>
    BY <2>1, <2>4, ArithmeticIsValue DEF ArithmeticOps
  <2> QED BY <2>2, <2>3, <2>5
<1>6. Operate(<<v>>)
  BY <1>5 DEF BinaryOperation
<1> QED BY <1>1, <1>2, <1>6, OperateLives

(* Comparisons keep the invariant in the same way.                          *)
LEMMA CompareLives ==
    ASSUME Runnable, NEW W, Live(W), MeetsNoError, Compare
    PROVE  \E V : Live(V)'
<1>1. Executes(ComparisonOps) /\ UNCHANGED <<globals, objectVars>>
  BY DEF Compare, ComparisonOps
<1>2. Ready /\ Instruction.op \in ComparisonOps /\ status = "running"
  BY <1>1, ExecutesFacts
<1>3. Comparison(Instruction.op, Below(1), Below(0)) # <<>>
  BY <1>2 DEF MeetsNoError, HasResult, Ready, ComparisonOps
<1>4. Below(0) \in W /\ Below(1) \in W
  BY BelowIsValue
<1>5. PICK v : v.v = "bool" /\ Comparison(Instruction.op, Below(1), Below(0)) = <<v>>
  <2>1. World(W)
    BY DEF Live
  <2>2. Instruction.op \in {"EQUAL", "NOTEQUAL", "GREATERTHAN", "GREATERTHAN_EQUAL"}
    BY <1>2 DEF ComparisonOps
  <2>3. PICK a \in W, b \in W : a = Below(1) /\ b = Below(0)
    BY <1>4
  <2>4. PICK op : op = Instruction.op
    OBVIOUS
  <2>5. op \in {"EQUAL", "NOTEQUAL", "GREATERTHAN", "GREATERTHAN_EQUAL"} /\ Comparison(op, a, b) # <<>>
    BY <1>3, <2>2, <2>3, <2>4
  <2>6. \E v : v.v = "bool" /\ Comparison(op, a, b) = <<v>>
    BY <2>1, <2>5, ComparisonIsValue
  <2> QED BY <2>3, <2>4, <2>6
<1>6. Operate(<<v>>)
  BY <1>5 DEF Compare
<1>7. Joins(v, W, Callable, DOMAIN lists, Len(instances))
  BY <1>5 DEF Joins
<1> QED BY <1>1, <1>2, <1>6, <1>7, OperateLives

(* Negations keep the invariant: one operand is replaced by one result.     *)
LEMMA UnaryOperationLives ==
    ASSUME Runnable, NEW W, Live(W), MeetsNoError, UnaryOperation
    PROVE  \E V : Live(V)'
<1>1. Executes({"BANG", "MINUS"}) /\ Next1 /\ UNCHANGED <<status, globals, objectVars>>
  BY DEF UnaryOperation
<1>2. Ready /\ Instruction.op \in {"BANG", "MINUS"} /\ status = "running"
  BY <1>1, ExecutesFacts
<1>3. Growth(Instruction) = 1 - 1 /\ Instruction.op \notin {"JUMP", "RETURN_VALUE", "RETURN"}
  BY <1>2 DEF Growth
<1>4. Operands + Growth(Instruction) >= 1
  BY <1>2, Fetched DEF OperandsExist, LeavingValue
<1>5. sp \in Nat /\ 1 <= sp /\ sp <= StackSize /\ sp - 1 < StackSize
  BY <1>2, <1>3, <1>4, OperandsOnStack, LiveFacts, MachineAssumption
<1>6. \E v : /\ v \in W \/ Joins(v, W, Callable, DOMAIN lists, Len(instances))
             /\ PopPush(1, <<v>>)
  <2>1. CASE Instruction.op = "BANG"
    <3>1. PICK v : v = BoolObject(~IsTruthy(Below(0)))
      OBVIOUS
    <3>2. v.v = "bool"
      BY <3>1 DEF BoolObject
    <3>3. PopPush(1, <<v>>)
      BY <2>1, <3>1 DEF UnaryOperation
    <3> QED BY <3>2, <3>3 DEF Joins
  <2>2. CASE Instruction.op = "MINUS"
    <3>1. Below(0).v = "int"
      BY <1>2, <2>2 DEF MeetsNoError, HasResult, Ready
    <3>2. Below(0).n \in Int
      BY <3>1, BelowIsValue DEF Live, World, Valid
    <3>3. PICK v : v = IntObject(-Below(0).n)
      OBVIOUS
    <3>4. v \in W
      BY <3>2, <3>3 DEF Live, World, Valid
    <3>5. PopPush(1, <<v>>)
      BY <2>2, <3>1, <3>3 DEF UnaryOperation
    <3> QED BY <3>4, <3>5
  <2> QED BY <1>2, <2>1, <2>2
<1> QED BY <1>1, <1>3, <1>5, <1>6, YieldsOne

(* Instructions that take one operand.                                      *)
LEMMA OneOperand ==
    ASSUME Runnable, NEW W, Live(W), NEW ops, Executes(ops),
           Instruction.op \in {"POP", "FILE_STMT_OUTPUT", "SET_GLOBAL", "SET_LOCAL", "JUMP_NOT_TRUTHY"}
    PROVE  Growth(Instruction) = -1 /\ 1 <= sp /\ sp \in Nat /\ sp - 1 \in 0..StackSize
<1>1. Ready
  BY ExecutesFacts
<1>2. Growth(Instruction) = -1
  BY DEF Growth
<1>3. Operands + Growth(Instruction) >= 0
  BY <1>1, Fetched DEF OperandsExist, LeavingValue
<1> QED BY <1>1, <1>2, <1>3, OperandsOnStack, LiveFacts, MachineAssumption

(* Pop keeps the invariant.                                                 *)
LEMMA PopLives ==
    ASSUME Runnable, NEW W, Live(W), Pop
    PROVE  \E V : Live(V)'
<1>1. Executes({"POP"}) /\ PopPush(1, <<>>) /\ Next1 /\ UNCHANGED <<status, globals, objectVars>>
  BY DEF Pop
<1>2. status = "running" /\ Instruction.op = "POP"
  BY <1>1, ExecutesFacts
<1>3. Growth(Instruction) = -1 /\ 1 <= sp
  BY <1>1, <1>2, OneOperand
<1> QED BY <1>1, <1>2, <1>3, YieldsNone

(* The output of a statement keeps the invariant, or ends the machine.      *)
LEMMA FileStmtOutputLives ==
    ASSUME Runnable, NEW W, Live(W), FileStmtOutput
    PROVE  \E V : Live(V)'
<1>1. /\ Executes({"FILE_STMT_OUTPUT"}) /\ PopPush(1, <<>>) /\ Next1 /\ UNCHANGED <<globals, objectVars>>
      /\ status' \in {"crashed", "halted", status}
  BY DEF FileStmtOutput
<1>2. status = "running" /\ Instruction.op = "FILE_STMT_OUTPUT"
  BY <1>1, ExecutesFacts
<1>3. Growth(Instruction) = -1 /\ 1 <= sp
  BY <1>1, <1>2, OneOperand
<1>4. status' \in {"running", "halted", "crashed"}
  BY <1>1, <1>2
<1> QED BY <1>1, <1>2, <1>3, <1>4, YieldsNone

(* A step inside a frame that makes no value.                               *)
LEMMA StepsOnKept ==
    ASSUME Runnable, NEW W, Live(W), Ready,
           NEW j \in Successors(Instruction, Current.ip), GoTo(j),
           UNCHANGED <<bytecode, objectVars>>,
           stack' \in [Slots -> W], globals' \in [DOMAIN globals' -> W],
           sp' \in 0..StackSize, executed' \in 0..MaxInstructions,
           status' \in {"running", "halted", "crashed"}, sp' = sp + Growth(Instruction)
    PROVE  \E V : Live(V)'
<1>1. PICK new : new = {}
  OBVIOUS
<1>2. \A v \in new : Joins(v, W, Callable, DOMAIN lists, Len(instances))
  BY <1>1
<1>3. W \union new = W
  BY <1>1
<1>4. stack' \in [Slots -> W \union new] /\ globals' \in [DOMAIN globals' -> W \union new]
  BY <1>3
<1>5. UNCHANGED <<bytecode, objectVars>>
  OBVIOUS
<1> QED BY <1>2, <1>4, <1>5, StepsOn

(* An assignment to a global keeps the invariant.  An error that ends the   *)
(* loop of call_class would not, which MeetsNoError excludes.               *)
LEMMA SetGlobalLives ==
    ASSUME Runnable, NEW W, Live(W), MeetsNoError, SetGlobal
    PROVE  \E V : Live(V)'
<1>1. Executes({"SET_GLOBAL"}) /\ PopPush(1, <<>>) /\ Next1 /\ UNCHANGED heapVars
  BY DEF SetGlobal
<1>2. Ready /\ status = "running" /\ Instruction.op = "SET_GLOBAL" /\ UNCHANGED bytecode
      /\ executed' \in 0..MaxInstructions
  BY <1>1, ExecutesFacts
<1>3. Growth(Instruction) = -1 /\ 1 <= sp
  BY <1>1, <1>2, OneOperand
<1>4. UNCHANGED constructions /\ status' \in {"running", "halted", "crashed"}
  <2>1. Below(0) = ErrorObject => constructions = <<>>
    BY <1>2 DEF MeetsNoError, HasResult, Ready
  <2> QED BY <1>2, <2>1 DEF SetGlobal
<1>5. globals' \in [DOMAIN globals' -> W]
  <2>1. globals \in [DOMAIN globals -> W] /\ Below(0) \in W
    BY BelowIsValue DEF Live, Data
  <2>2. UNCHANGED globals \/ globals' = [i \in DOMAIN globals \union {Instruction.x} |->
                              IF i = Instruction.x THEN Below(0) ELSE globals[i]]
    BY DEF SetGlobal
  <2> QED BY <2>1, <2>2
<1>6. sp' = sp + Growth(Instruction) /\ sp' \in 0..StackSize /\ stack' \in [Slots -> W]
  <2>1. sp' = sp - 1 /\ sp' \in 0..StackSize /\ stack' \in [Slots -> W]
    BY <1>1, <1>3, PopPushNone
  <2> QED BY <1>3, <2>1, LiveFacts
<1>7. PICK j \in Successors(Instruction, Current.ip) : GoTo(j)
  BY <1>1, <1>2 DEF Next1, Successors
<1>8. UNCHANGED <<bytecode, objectVars>>
  BY <1>1, <1>2, <1>4 DEF objectVars
<1> QED BY <1>2, <1>4, <1>5, <1>6, <1>7, <1>8, StepsOnKept

(* An assignment to a local keeps the invariant: its slot is below the      *)
(* operands.                                                                *)
LEMMA SetLocalLives ==
    ASSUME Runnable, NEW W, Live(W), SetLocal
    PROVE  \E V : Live(V)'
<1>1. Executes({"SET_LOCAL"}) /\ Next1 /\ UNCHANGED <<status, globals, objectVars>>
  BY DEF SetLocal
<1>2. Ready /\ status = "running" /\ Instruction.op = "SET_LOCAL" /\ UNCHANGED bytecode
      /\ executed' \in 0..MaxInstructions
  BY <1>1, ExecutesFacts
<1>3. Growth(Instruction) = -1 /\ 1 <= sp /\ sp \in Nat /\ sp - 1 \in 0..StackSize
  BY <1>1, <1>2, OneOperand
<1>4. Slot(Instruction.x) \in Slots
  <2>1. /\ Instruction.x < NamedLocals(Current.cl) /\ Instruction.x \in Nat
        /\ NamedLocals(Current.cl) <= LocalsOf(Current.cl)
    BY <1>2, Fetched DEF OperandsExist, Fits
  <2>2. /\ sp = Current.base + LocalsOf(Current.cl) + Operands /\ Operands \in Nat
        /\ NamedLocals(Current.cl) \in Nat /\ LocalsOf(Current.cl) \in Nat /\ Current.base \in Nat
    BY <1>2, Fetched, CurrentFits DEF Fits
  <2> QED BY <2>1, <2>2, LiveFacts, MachineAssumption DEF Slot, Slots
<1>5. stack' = [stack EXCEPT ![Slot(Instruction.x)] = Below(0)] /\ sp' = Floor(sp - 1)
  <2>1. ~(Slot(Instruction.x) >= StackSize)
    BY <1>4, MachineAssumption DEF Slots
  <2> QED BY <2>1 DEF SetLocal
<1>6. stack' \in [Slots -> W]
  BY <1>4, <1>5, BelowIsValue, LiveFacts
<1>7. sp' = sp + Growth(Instruction) /\ sp' \in 0..StackSize
  BY <1>3, <1>5 DEF Floor
<1>8. PICK j \in Successors(Instruction, Current.ip) : GoTo(j)
  BY <1>1, <1>2 DEF Next1, Successors
<1>9. UNCHANGED <<bytecode, objectVars>> /\ status' \in {"running", "halted", "crashed"}
  BY <1>1, <1>2
<1>10. globals' \in [DOMAIN globals' -> W]
  BY <1>1 DEF Live, Data
<1> QED BY <1>2, <1>6, <1>7, <1>8, <1>9, <1>10, StepsOnKept

(* Jumps keep the invariant: the depth at the target is that of the jump.   *)
LEMMA JumpLives ==
    ASSUME Runnable, NEW W, Live(W), Jump
    PROVE  \E V : Live(V)'
<1>1. /\ Executes({"JUMP"}) /\ GoTo(Instruction.x)
      /\ UNCHANGED <<status, stack, sp, globals, objectVars>>
  BY DEF Jump
<1>2. Ready /\ status = "running" /\ Instruction.op = "JUMP" /\ UNCHANGED bytecode
      /\ executed' \in 0..MaxInstructions
  BY <1>1, ExecutesFacts
<1>3. PICK j \in Successors(Instruction, Current.ip) : GoTo(j)
  BY <1>1, <1>2 DEF Successors
<1>4. Growth(Instruction) = 0
  BY <1>2 DEF Growth
<1>5. sp' = sp + Growth(Instruction) /\ sp' \in 0..StackSize /\ stack' \in [Slots -> W]
  BY <1>1, <1>4, LiveFacts
<1>6. UNCHANGED <<bytecode, objectVars>> /\ status' \in {"running", "halted", "crashed"}
  BY <1>1, <1>2
<1>7. globals' \in [DOMAIN globals' -> W]
  BY <1>1 DEF Live, Data
<1> QED BY <1>2, <1>3, <1>5, <1>6, <1>7, StepsOnKept

(* The same for both ways of a conditional jump.                            *)
LEMMA JumpNotTruthyLives ==
    ASSUME Runnable, NEW W, Live(W), JumpNotTruthy
    PROVE  \E V : Live(V)'
<1>1. Executes({"JUMP_NOT_TRUTHY"}) /\ PopPush(1, <<>>) /\ UNCHANGED <<status, globals, objectVars>>
  BY DEF JumpNotTruthy
<1>2. Ready /\ status = "running" /\ Instruction.op = "JUMP_NOT_TRUTHY" /\ UNCHANGED bytecode
      /\ executed' \in 0..MaxInstructions
  BY <1>1, ExecutesFacts
<1>3. Growth(Instruction) = -1 /\ 1 <= sp
  BY <1>1, <1>2, OneOperand
<1>4. sp' = sp + Growth(Instruction) /\ sp' \in 0..StackSize /\ stack' \in [Slots -> W]
  <2>1. sp' = sp - 1 /\ sp' \in 0..StackSize /\ stack' \in [Slots -> W]
    BY <1>1, <1>3, PopPushNone
  <2> QED BY <1>3, <2>1, LiveFacts
<1>5. PICK j \in Successors(Instruction, Current.ip) : GoTo(j)
  <2>1. Next1 \/ GoTo(Instruction.x)
    BY DEF JumpNotTruthy
  <2> QED BY <1>2, <2>1 DEF Next1, Successors
<1>6. UNCHANGED <<bytecode, objectVars>> /\ status' \in {"running", "halted", "crashed"}
  BY <1>1, <1>2
<1>7. globals' \in [DOMAIN globals' -> W]
  BY <1>1 DEF Live, Data
<1> QED BY <1>2, <1>4, <1>5, <1>6, <1>7, StepsOnKept

-----------------------------------------------------------------------------
(* Closures and members.                                                    *)

(* The instruction is one of the bytecode's.                                *)
LEMMA InstructionInCode ==
    ASSUME Runnable, NEW W, Live(W), Ready
    PROVE  \E code \in Codes : \E i \in DOMAIN code : Instruction = code[i]
<1> DEFINE cl == Current.cl
           code == CodeOf(cl)
<1>1. code \in Codes
  <2>1. Len(frames) \in DOMAIN frames /\ Current = frames[Len(frames)]
    BY Fetched
  <2>2. cl = Main \/ cl \in W
    BY <2>1, FrameCode DEF Live
  <2>3. cl.v = "closure"
    BY <2>1, FrameCode DEF Live
  <2>4. cl.fn = 0 \/ cl.fn \in DOMAIN bytecode.functions
    <3> HIDE DEF cl
    <3> QED BY <2>2, <2>3, MainCode, ClosureCode DEF Live
  <2> QED BY <2>4 DEF Codes, CodeOf, FunctionOf
<1>2. Current.ip + 1 \in DOMAIN code
  <2>1. Fits(cl, W) /\ Current \in Frames(W)
    BY Fetched
  <2>2. code \in Seq([op : STRING, x : 0..Dynamic, y : Nat]) 
    BY <2>1 DEF Fits, WellFormed
  <2>3. ~(Current.ip >= Len(code)) /\ Current.ip \in Nat
    BY <2>1 DEF Ready, AtEnd, Frames
  <2> HIDE DEF code, cl
  <2> QED BY <2>2, <2>3
<1> QED BY <1>1, <1>2 DEF Instruction

(* A new closure has captured as many variables as its function was         *)
(* compiled for.                                                            *)
LEMMA MakeClosureLives ==
    ASSUME Runnable, NEW W, Live(W), MeetsNoError, MakeClosure
    PROVE  \E V : Live(V)'
<1>1. Executes({"CLOSURE"}) /\ Next1 /\ UNCHANGED <<status, globals, objectVars>>
  BY DEF MakeClosure
<1>2. Ready /\ Instruction.op = "CLOSURE" /\ status = "running" /\ sp < StackSize
  BY <1>1, ExecutesFacts DEF MeetsNoError, HasRoom
<1>3. PICK n \in Nat, x \in Nat : n = Instruction.y /\ x = Instruction.x
  BY <1>2, Fetched
<1>4. /\ Growth(Instruction) = 1 - n /\ n <= Operands
      /\ x < Len(bytecode.constants) /\ bytecode.constants[x + 1].v = "function"
  BY <1>2, <1>3, Fetched DEF Growth, OperandsExist
<1>5. n <= sp /\ sp - n < StackSize
  BY <1>2, <1>4, OperandsOnStack, MachineAssumption
<1>6. PICK fn, free, v : /\ fn = bytecode.constants[x + 1].fn
                         /\ free = [i \in 1..n |-> Below(n - i)]
                         /\ v = Closure(fn, free)
  OBVIOUS
<1>7. PopPush(n, <<v>>)
  BY <1>3, <1>6 DEF MakeClosure
<1>8. free \in Seq(W) /\ Len(free) = n
  <2>1. \A i \in 1..n : Below(n - i) \in W
    BY BelowIsValue
  <2> QED BY <1>6, <2>1
<1>9. fn \in DOMAIN Callable /\ n \in Callable[fn]
  <2>1. \E code \in Codes : \E i \in DOMAIN code : Instruction = code[i]
    BY <1>2, InstructionInCode
  <2>2. IsFunction(fn, n)
    BY <1>2, <1>3, <1>6, <2>1 DEF Runnable
  <2> QED BY <2>2 DEF Callable, IsFunction
<1>10. Joins(v, W, Callable, DOMAIN lists, Len(instances))
  BY <1>6, <1>8, <1>9 DEF Joins
<1>11. Instruction.op \notin {"JUMP", "RETURN_VALUE", "RETURN"}
  BY <1>2
<1> QED BY <1>1, <1>4, <1>5, <1>7, <1>10, <1>11, YieldsOne

(* A method that is found in the lineage of a class is a function without   *)
(* captured variables.                                                      *)
LEMMA MethodIsCallable ==
    ASSUME Runnable, NEW class \in DOMAIN bytecode.classes, NEW name, Method(class, name) # 0
    PROVE  /\ Method(class, name) \in DOMAIN bytecode.functions
           /\ Method(class, name) \in DOMAIN Callable /\ 0 \in Callable[Method(class, name)]
<1> DEFINE methods == [i \in DOMAIN Lineage(class) |-> bytecode.classes[Lineage(class)[i]].methods]
           having == {i \in DOMAIN methods : name \in DOMAIN methods[i]}
<1>1. PICK line : line = Lineage(class)
  OBVIOUS
<1>2. line \in Seq(DOMAIN bytecode.classes)
  BY <1>1 DEF Runnable, ClassWellFormed
<1>3. having # {} /\ Method(class, name) = methods[Min(having)][name]
  BY DEF Method
<1>4. having \subseteq Nat
  <2>1. DOMAIN line \subseteq Nat
    BY <1>2
  <2> QED BY <1>1, <2>1
<1>5. Min(having) \in having
  <2> HIDE DEF having
  <2>1. \E m \in having : \A y \in having : m <= y
    BY <1>3, <1>4, Least
  <2> QED BY <2>1 DEF Min
<1>6. PICK i \in DOMAIN line : /\ Method(class, name) = bytecode.classes[line[i]].methods[name]
                               /\ name \in DOMAIN bytecode.classes[line[i]].methods
  BY <1>1, <1>3, <1>5
<1>7. line[i] \in DOMAIN bytecode.classes
  BY <1>2, <1>6
<1>8. IsFunction(Method(class, name), 0)
  BY <1>6, <1>7 DEF Runnable, ClassWellFormed
<1> QED BY <1>8 DEF Callable, IsFunction

(* Values that an instruction finds or makes.                               *)
Result(v, W) == v \in W \/ Joins(v, W, Callable, DOMAIN lists, Len(instances))

(* A method bound to an instance can join the values.                       *)
LEMMA MethodIsResult ==
    ASSUME NEW W, Live(W), NEW method \in DOMAIN Callable, 0 \in Callable[method],
           NEW instance \in 1..Len(instances)
    PROVE  Result(BoundMethod(instance, Closure(method, <<>>)), W)
<1>1. Closure(method, <<>>) \in W
  BY DEF Live, World, Valid
<1>2. Closure(method, <<>>).v = "closure"
  BY DEF Closure
<1> QED BY <1>1, <1>2 DEF Result, Joins

(* The plain objects are values.                                            *)
LEMMA PlainResults == ASSUME NEW W, Live(W) PROVE NullObject \in W /\ NullPtr \in W /\ ErrorObject \in W
  BY DEF Live, World, Valid

(* What is known of an instance.                                            *)
LEMMA InstanceFacts ==
    ASSUME NEW W, Live(W), NEW instance \in 1..Len(instances)
    PROVE  /\ instances \in Seq(Objects(W)) /\ Len(instances) \in Nat
           /\ instance \in DOMAIN instances /\ instances[instance] \in Objects(W)
           /\ instances[instance].class \in DOMAIN bytecode.classes
           /\ instances[instance].fields \in Seq(W)
           /\ Len(instances[instance].fields) <= Dynamic
<1>1. instances \in Seq(Objects(W))
  BY DEF Live, Data
<1>2. instance \in DOMAIN instances /\ instances[instance] \in Objects(W) /\ Len(instances) \in Nat
  BY <1>1
<1>3. instances[instance].class \in DOMAIN bytecode.classes /\ instances[instance].fields \in Seq(W)
  BY <1>2 DEF Objects
<1> QED BY <1>1, <1>2, <1>3 DEF Live, Data

(* A member is a value or can join them.                                    *)
LEMMA MemberIsResult ==
    ASSUME Runnable, NEW W, Live(W), NEW instance \in 1..Len(instances), NEW name
    PROVE  Result(MemberOf(instance, name), W)
<1>1. FieldNamed(instance, name) \in W
  BY FieldIsValue DEF FieldNamed
<1>2. PICK method : method = Method(instances[instance].class, name)
  OBVIOUS
<1>3. method # 0 => Result(BoundMethod(instance, Closure(method, <<>>)), W)
  BY <1>2, InstanceFacts, MethodIsCallable, MethodIsResult
<1>4. CASE FieldNamed(instance, name) # NullPtr
  BY <1>1, <1>4 DEF MemberOf, Result
<1>5. CASE FieldNamed(instance, name) = NullPtr /\ method # 0
  BY <1>2, <1>3, <1>5 DEF MemberOf
<1>6. CASE FieldNamed(instance, name) = NullPtr /\ method = 0
  BY <1>2, <1>6, PlainResults DEF MemberOf, Result
<1> QED BY <1>4, <1>5, <1>6

(* A method that is called is a value or can join them.                     *)
LEMMA MethodOfIsResult ==
    ASSUME Runnable, NEW W, Live(W), NEW instance \in 1..Len(instances), NEW name
    PROVE  Result(MethodOf(instance, name), W)
<1>1. FieldNamed(instance, name) \in W
  BY FieldIsValue DEF FieldNamed
<1>2. PICK method : method = Method(instances[instance].class, name)
  OBVIOUS
<1>3. method # 0 => Result(BoundMethod(instance, Closure(method, <<>>)), W)
  BY <1>2, InstanceFacts, MethodIsCallable, MethodIsResult
<1>4. CASE method # 0
  BY <1>2, <1>3, <1>4 DEF MethodOf
<1>5. CASE method = 0 /\ FieldNamed(instance, name).v = "closure"
  <2>1. Result(BoundMethod(instance, FieldNamed(instance, name)), W)
    BY <1>1, <1>5 DEF Result, Joins
  <2> QED BY <1>2, <1>5, <2>1 DEF MethodOf
<1>6. CASE method = 0 /\ FieldNamed(instance, name).v = "bound"
  BY <1>1, <1>2, <1>6 DEF MethodOf, Result
<1>7. CASE method = 0 /\ FieldNamed(instance, name).v \notin {"closure", "bound"}
  BY <1>2, <1>7, PlainResults DEF MethodOf, Result
<1> QED BY <1>4, <1>5, <1>6, <1>7

(* So is a method of a parent.                                              *)
LEMMA SuperMethodOfIsResult ==
    ASSUME Runnable, NEW W, Live(W), NEW instance \in 1..Len(instances), NEW parent, NEW name
    PROVE  Result(SuperMethodOf(instance, parent, name), W)
<1>1. PICK parents, methods :
          /\ parents = bytecode.classes[instances[instance].class].byName
          /\ methods = bytecode.classes[parents[parent]].methods
  OBVIOUS
<1>2. SuperMethodOf(instance, parent, name) =
          IF parent \in DOMAIN parents /\ name \in DOMAIN methods
          THEN BoundMethod(instance, Closure(methods[name], <<>>)) ELSE NullObject
  BY <1>1 DEF SuperMethodOf
<1>3. CASE parent \in DOMAIN parents /\ name \in DOMAIN methods
  <2>1. parents[parent] \in DOMAIN bytecode.classes
    BY <1>1, <1>3, InstanceFacts DEF Runnable, ClassWellFormed
  <2>2. IsFunction(methods[name], 0)
    BY <1>1, <1>3, <2>1 DEF Runnable, ClassWellFormed
  <2>3. methods[name] \in DOMAIN Callable /\ 0 \in Callable[methods[name]]
    BY <2>2 DEF Callable, IsFunction
  <2> QED BY <1>2, <1>3, <2>3, MethodIsResult
<1>4. CASE ~(parent \in DOMAIN parents /\ name \in DOMAIN methods)
  BY <1>2, <1>4, PlainResults DEF Result
<1> QED BY <1>3, <1>4

(* The instance of the nearest method exists.                               *)
LEMMA BoundInstanceExists ==
    ASSUME NEW W, Live(W), BoundInstance # 0
    PROVE  BoundInstance \in 1..Len(instances)
<1> DEFINE bound == {i \in DOMAIN frames : frames[i].bound # 0}
<1>1. bound # {} /\ BoundInstance = frames[Max(bound)].bound
  BY DEF BoundInstance
<1>2. Len(frames) \in Nat /\ DOMAIN frames = 1..Len(frames)
  BY DEF Live, Calls
<1>3. Max(bound) \in bound
  <2>1. bound \subseteq 0..Len(frames)
    BY <1>2
  <2> HIDE DEF bound
  <2>2. \E x \in bound : \A y \in bound : y <= x
    BY <1>1, <1>2, <2>1, Greatest
  <2>3. \E x \in bound : \A y \in bound : x >= y
    BY <1>2, <2>1, <2>2
  <2> QED BY <2>3 DEF Max
<1>4. FrameFits(Max(bound))
  BY <1>3 DEF Live, Framed
<1> QED BY <1>1, <1>4, InstancesCount DEF Live, FrameFits

(* And so are its fields.                                                   *)
LEMMA BoundFieldIsResult ==
    ASSUME Runnable, NEW W, Live(W), NEW name, NEW index
    PROVE  Result(BoundField(name, index), W)
<1>1. CASE BoundInstance = 0
  BY <1>1, PlainResults DEF BoundField, Result
<1>2. CASE BoundInstance # 0 /\ index = Dynamic
  <2>1. PICK b : b = BoundInstance
    OBVIOUS
  <2>2. b \in 1..Len(instances)
    BY <1>2, <2>1, BoundInstanceExists
  <2>3. Result(MemberOf(b, name), W)
    BY <2>2, MemberIsResult
  <2> QED BY <1>2, <2>1, <2>3 DEF BoundField
<1>3. CASE BoundInstance # 0 /\ index # Dynamic
  <2>1. FieldAt(BoundInstance, index) \in W
    BY <1>3, BoundInstanceExists, FieldIsValue
  <2> QED BY <1>3, <2>1, PlainResults DEF BoundField, Result
<1> QED BY <1>1, <1>2, <1>3

(* The instructions of LookUp, their operands and what they find.           *)
LookUps == {"GET_PROPERTY_SYM", "GET_PROPERTY", "GET_METHOD", "GET_SUPER_METHOD"}

LookUpOperands ==
    CASE Instruction.op = "GET_PROPERTY_SYM" -> 1
      [] Instruction.op = "GET_SUPER_METHOD" -> 3
      [] OTHER -> 2

LookedUp ==
    CASE Instruction.op = "GET_PROPERTY_SYM" -> BoundField(Below(0).s, Instruction.x)
      [] Instruction.op # "GET_PROPERTY_SYM" /\ Below(LookUpOperands - 1).v # "instance" -> NullObject
      [] OTHER ->
         CASE Instruction.op = "GET_PROPERTY" -> MemberOf(Below(LookUpOperands - 1).id, Below(0).s)
           [] Instruction.op = "GET_METHOD" -> MethodOf(Below(LookUpOperands - 1).id, Below(0).s)
           [] OTHER -> SuperMethodOf(Below(LookUpOperands - 1).id, Below(1).s, Below(0).s)

(* Member access keeps the invariant: the owner and the names are replaced  *)
(* by the member.                                                           *)
LEMMA LookUpLives ==
    ASSUME Runnable, NEW W, Live(W), MeetsNoError, LookUp
    PROVE  \E V : Live(V)'
<1>1. Executes(LookUps) /\ Next1 /\ UNCHANGED <<status, globals, objectVars>>
  BY DEF LookUp, LookUps
<1>2. Ready /\ Instruction.op \in LookUps /\ status = "running" /\ sp < StackSize
  BY <1>1, ExecutesFacts DEF MeetsNoError, HasRoom
<1>3. PICK n \in Nat : n = LookUpOperands /\ n >= 1
  BY DEF LookUpOperands
<1>4. Growth(Instruction) = 1 - n /\ n <= Operands
  BY <1>2, <1>3, Fetched DEF Growth, OperandsExist, LeavingValue, LookUpOperands, LookUps
<1>5. n <= sp /\ sp - n < StackSize /\ ~(sp < n)
  BY <1>2, <1>3, <1>4, OperandsOnStack, MachineAssumption
<1>6. PICK v : v = LookedUp
  OBVIOUS
<1>7. PopPush(n, <<v>>)
  <2>1. IF sp < LookUpOperands THEN UNCHANGED <<stack, sp>> ELSE PopPush(LookUpOperands, <<LookedUp>>)
    BY DEF LookUp, LookUpOperands, LookedUp
  <2> QED BY <1>3, <1>5, <1>6, <2>1
<1>8. Result(v, W)
  <2>1. PICK owner : owner = Below(n - 1)
    OBVIOUS
  <2>2. owner \in W
    BY <1>3, <2>1, BelowIsValue
  <2>3. owner.v = "instance" => owner.id \in 1..Len(instances)
    BY <2>2 DEF Live, World, Valid
  <2>4. PICK name, parent : name = Below(0).s /\ parent = Below(1).s
    OBVIOUS
  <2>5. CASE Instruction.op = "GET_PROPERTY_SYM"
    BY <1>6, <2>5, BoundFieldIsResult DEF LookedUp
  <2>6. CASE Instruction.op # "GET_PROPERTY_SYM" /\ owner.v # "instance"
    BY <1>3, <1>6, <2>1, <2>6, PlainResults DEF LookedUp, Result
  <2>7. CASE Instruction.op # "GET_PROPERTY_SYM" /\ owner.v = "instance"
    <3>1. CASE Instruction.op = "GET_PROPERTY"
      <4>1. v = MemberOf(owner.id, name)
        BY <1>3, <1>6, <2>1, <2>4, <2>7, <3>1 DEF LookedUp
      <4> QED BY <2>3, <2>7, <4>1, MemberIsResult
    <3>2. CASE Instruction.op = "GET_METHOD"
      <4>1. v = MethodOf(owner.id, name)
        BY <1>3, <1>6, <2>1, <2>4, <2>7, <3>2 DEF LookedUp
      <4> QED BY <2>3, <2>7, <4>1, MethodOfIsResult
    <3>3. CASE Instruction.op = "GET_SUPER_METHOD"
      <4>1. v = SuperMethodOf(owner.id, parent, name)
        BY <1>3, <1>6, <2>1, <2>4, <2>7, <3>3 DEF LookedUp
      <4> QED BY <2>3, <2>7, <4>1, SuperMethodOfIsResult
    <3> QED BY <1>2, <2>7, <3>1, <3>2, <3>3 DEF LookUps
  <2> QED BY <2>5, <2>6, <2>7
<1>9. Instruction.op \notin {"JUMP", "RETURN_VALUE", "RETURN"}
  BY <1>2 DEF LookUps
<1> QED BY <1>1, <1>4, <1>5, <1>7, <1>8, <1>9, YieldsOne DEF Result

(* Dynamic is a number; no proof needs to know which.                       *)
LEMMA DynamicFacts == Dynamic \in Nat /\ Dynamic >= 1
  BY DEF Dynamic

(* A step inside a frame that changes objects.                              *)
LEMMA StepsWith ==
    ASSUME Runnable, NEW W, Live(W), NEW ops, Executes(ops),
           Instruction.op \notin {"JUMP", "RETURN_VALUE", "RETURN"}, Next1,
           UNCHANGED constructions, status' \in {"running", "halted", "crashed"},
           NEW new, NEW V, V = W \union new,
           DOMAIN lists \subseteq DOMAIN lists',
           Len(instances') \in Nat, Len(instances) <= Len(instances'),
           \A v \in new : Joins(v, W, Callable, DOMAIN lists', Len(instances')),
           Data(V)',
           sp' \in 0..StackSize, sp' = sp + Growth(Instruction)
    PROVE  \E U : Live(U)'
<1>1. Ready /\ executed' \in 0..MaxInstructions /\ UNCHANGED bytecode
  BY ExecutesFacts
<1>2. PICK j : j = Current.ip + 1
  OBVIOUS
<1>3. j \in Successors(Instruction, Current.ip)
  BY <1>2 DEF Successors
<1>4. GoTo(j)
  BY <1>2 DEF Next1
<1>5. Len(instances) \in Nat /\ W \subseteq V /\ World(W)
  BY InstancesCount DEF Live
<1>6. World(V)'
  BY <1>1, <1>5, WorldWith
<1>7. UNCHANGED <<bytecode, constructions>> /\ Len(instances)' \in Nat /\ Len(instances) <= Len(instances)'
  BY <1>1
<1>8. Calls(V)' /\ Framed' /\ StackBalanced'
  BY <1>1, <1>3, <1>4, <1>5, <1>7, Advances
<1> QED BY <1>6, <1>8 DEF Live

(* A field more, or a new value for one.                                    *)
LEMMA PatchedFields ==
    ASSUME NEW W, NullPtr \in W, NEW fields \in Seq(W), NEW index \in Nat, NEW value \in W
    PROVE  /\ Patched(fields, index, value) \in Seq(W)
           /\ \A n \in Nat : Len(fields) <= n /\ index < n => Len(Patched(fields, index, value)) <= n
<1> DEFINE m == Max({Len(fields), index + 1})
<1>1. m \in Nat /\ (m = Len(fields) \/ m = index + 1)
  BY MaxOf
<1>2. Patched(fields, index, value) =
          [i \in 1..m |-> IF i = index + 1 THEN value ELSE IF i <= Len(fields) THEN fields[i] ELSE NullPtr]
  BY DEF Patched
<1> HIDE DEF m
<1>3. \A i \in 1..m : (IF i = index + 1 THEN value ELSE IF i <= Len(fields) THEN fields[i] ELSE NullPtr) \in W
  OBVIOUS
<1>4. Patched(fields, index, value) \in [1..m -> W]
  BY <1>2, <1>3
<1>5. Patched(fields, index, value) \in Seq(W) /\ Len(Patched(fields, index, value)) = m
  BY <1>1, <1>4
<1> QED BY <1>1, <1>5

(* The instructions of SetMember, their operands, the owner and the index   *)
(* of the field.                                                            *)
SetMemberOps == {"PATCH_PROPERTY_SYM", "SET_PROPERTY"}
SetMemberOperands == IF Instruction.op = "PATCH_PROPERTY_SYM" THEN 2 ELSE 3
SetMemberOwner ==
    IF Instruction.op = "PATCH_PROPERTY_SYM" THEN BoundInstance
    ELSE IF Below(2).v = "instance" THEN Below(2).id ELSE 0
SetMemberIndex ==
    IF Instruction.op = "PATCH_PROPERTY_SYM" /\ Instruction.x # Dynamic THEN Instruction.x
    ELSE IndexToSet(SetMemberOwner, Below(0).s)

(* SetField keeps what is known of instances and of the indices of the      *)
(* fields of their classes.                                                 *)
LEMMA SetFieldKeepsData ==
    ASSUME Runnable, NEW W, Live(W), HasRoom, UNCHANGED <<bytecode, globals, lists>>,
           stack' \in [Slots -> W],
           NEW instance \in 1..Len(instances), NEW name, NEW index \in 0..Dynamic - 1, NEW value \in W,
           SetField(instance, name, index, value)
    PROVE  Data(W)' /\ Len(instances') = Len(instances)
<1>1. /\ instances \in Seq(Objects(W)) /\ Len(instances) \in Nat
      /\ instances[instance].class \in DOMAIN bytecode.classes
      /\ instances[instance].fields \in Seq(W)
  BY InstanceFacts
<1>a. instances[instance] \in Objects(W)
  BY InstanceFacts
<1>2. Len(instances[instance].fields) < Dynamic
  BY <1>1 DEF HasRoom
<1>3. PICK fields : fields = Patched(instances[instance].fields, index, value)
  OBVIOUS
<1>4. fields \in Seq(W) /\ Len(fields) <= Dynamic
  <2>1. NullPtr \in W
    BY PlainResults
  <2>2. index \in Nat /\ Dynamic \in Nat /\ index < Dynamic /\ Len(instances[instance].fields) <= Dynamic
    <3>1. PICK n \in Nat : n = Dynamic
      BY DynamicFacts
    <3>2. index \in 0..n - 1
      BY <3>1
    <3>3. index \in Nat /\ index < n
      BY <3>2
    <3>4. PICK m \in Nat : m = Len(instances[instance].fields)
      BY <1>1
    <3>5. m < n => m <= n
      OBVIOUS
    <3> QED BY <1>2, <3>1, <3>3, <3>4, <3>5
  <2> QED BY <1>1, <1>3, <2>1, <2>2, PatchedFields
<1>5. instances' = [instances EXCEPT ![instance].fields = fields]
  BY <1>3 DEF SetField
<1>6. PICK class : class = instances[instance].class
  OBVIOUS
<1>7. fieldIndex' = [fieldIndex EXCEPT ![class] =
                        [n \in DOMAIN @ \union {name} |-> IF n = name THEN index ELSE @[n]]]
  BY <1>6 DEF SetField
<1>8. /\ instances' \in Seq(Objects(W)) /\ Len(instances') = Len(instances)
      /\ \A i \in DOMAIN instances' : Len(instances'[i].fields) <= Dynamic
  <2>1. [instances[instance] EXCEPT !.fields = fields] \in Objects(W)
    BY <1>a, <1>4 DEF Objects
  <2>2. instances' = [instances EXCEPT ![instance] = [instances[instance] EXCEPT !.fields = fields]]
    BY <1>5
  <2>3. instances' \in Seq(Objects(W)) /\ Len(instances') = Len(instances)
    BY <1>1, <2>1, <2>2
  <2>4. ASSUME NEW i \in DOMAIN instances'
        PROVE  Len(instances'[i].fields) <= Dynamic
    <3>1. i \in DOMAIN instances
      BY <2>2
    <3>2. Len(instances[i].fields) <= Dynamic
      BY <3>1 DEF Live, Data
    <3>3. CASE i = instance
      <4>1. instances'[i].fields = fields
        BY <1>a, <2>1, <2>2, <3>1, <3>3 DEF Objects
      <4> QED BY <1>4, <4>1
    <3>4. CASE i # instance
      BY <2>2, <3>1, <3>2, <3>4
    <3> QED BY <3>3, <3>4
  <2> QED BY <2>3, <2>4
<1>9. /\ DOMAIN fieldIndex' = DOMAIN bytecode.classes
      /\ \A k \in DOMAIN fieldIndex' : \A n \in DOMAIN fieldIndex'[k] : fieldIndex'[k][n] \in 0..Dynamic - 1
  <2>1. /\ DOMAIN fieldIndex = DOMAIN bytecode.classes
        /\ \A k \in DOMAIN fieldIndex : \A n \in DOMAIN fieldIndex[k] : fieldIndex[k][n] \in 0..Dynamic - 1
    BY DEF Live, Data
  <2> QED BY <1>7, <2>1
<1>10. /\ globals' \in [DOMAIN globals' -> W]
       /\ lists' \in [DOMAIN lists' -> Seq(W)] /\ IsFiniteSet(DOMAIN lists')
  BY DEF Live, Data
<1>11. Objects(W)' = Objects(W)
  BY DEF Objects
<1> QED BY <1>8, <1>9, <1>10, <1>11 DEF Data, Slots

(* Assignments to members keep the invariant.                               *)
LEMMA SetMemberLives ==
    ASSUME Runnable, NEW W, Live(W), MeetsNoError, SetMember
    PROVE  \E V : Live(V)'
<1>1. Executes(SetMemberOps) /\ Next1 /\ UNCHANGED <<status, globals, constructions>>
  BY DEF SetMember, SetMemberOps
<1>2. Ready /\ Instruction.op \in SetMemberOps /\ status = "running" /\ HasRoom /\ UNCHANGED bytecode
  BY <1>1, ExecutesFacts DEF MeetsNoError
<1>3. PICK n \in {2, 3} : n = SetMemberOperands
  BY DEF SetMemberOperands
<1>4. Growth(Instruction) = -n /\ n <= Operands
  BY <1>2, <1>3, Fetched DEF Growth, OperandsExist, LeavingValue, SetMemberOps, SetMemberOperands
<1>5. n <= sp /\ ~(sp < n)
  BY <1>2, <1>4, OperandsOnStack
<1>6. PICK owner, name, index, value :
          owner = SetMemberOwner /\ name = Below(0).s /\ index = SetMemberIndex /\ value = Below(1)
  OBVIOUS
<1>7. PopPush(n, <<>>)
  <2>1. IF sp < SetMemberOperands THEN UNCHANGED <<stack, sp>> ELSE PopPush(SetMemberOperands, <<>>)
    BY DEF SetMember, SetMemberOperands
  <2> QED BY <1>3, <1>5, <2>1
<1>8. IF owner = 0 THEN UNCHANGED heapVars
      ELSE SetField(owner, name, index, value) /\ UNCHANGED lists
  <2>1. IF sp < SetMemberOperands \/ SetMemberOwner = 0 THEN UNCHANGED heapVars
        ELSE SetField(SetMemberOwner, Below(0).s, SetMemberIndex, Below(1)) /\ UNCHANGED lists
    BY DEF SetMember, SetMemberOperands, SetMemberOwner, SetMemberIndex
  <2> QED BY <1>3, <1>5, <1>6, <2>1
<1>9. owner # 0 => owner \in 1..Len(instances)
  <2>1. CASE Instruction.op = "PATCH_PROPERTY_SYM"
    BY <1>6, <2>1, BoundInstanceExists DEF SetMemberOwner
  <2>2. CASE Instruction.op # "PATCH_PROPERTY_SYM"
    <3>1. PICK v : v = Below(2)
      OBVIOUS
    <3>2. v \in W
      BY <3>1, BelowIsValue
    <3>3. v.v = "instance" => v.id \in 1..Len(instances)
      BY <3>2 DEF Live, World, Valid
    <3> QED BY <1>6, <2>2, <3>1, <3>3 DEF SetMemberOwner
  <2> QED BY <2>1, <2>2
<1>10. owner # 0 => index \in 0..Dynamic - 1
  <2> SUFFICES ASSUME owner # 0 PROVE index \in 0..Dynamic - 1
    OBVIOUS
  <2>1. CASE Instruction.op = "PATCH_PROPERTY_SYM" /\ Instruction.x # Dynamic
    <3>1. Instruction.x \in 0..Dynamic
      BY <1>2, Fetched
    <3> QED BY <1>6, <2>1, <3>1, DynamicFacts DEF SetMemberIndex
  <2>2. CASE ~(Instruction.op = "PATCH_PROPERTY_SYM" /\ Instruction.x # Dynamic)
    <3>1. index = IndexToSet(owner, name)
      BY <1>6, <2>2 DEF SetMemberIndex
    <3>2. /\ owner \in 1..Len(instances) /\ owner \in DOMAIN instances
          /\ instances[owner].class \in DOMAIN bytecode.classes
          /\ instances[owner].fields \in Seq(W)
      BY <1>9, InstanceFacts
    <3>3. Len(instances[owner].fields) \in 0..Dynamic - 1
      BY <1>2, <3>2, DynamicFacts DEF HasRoom
    <3>4. IndexOf(owner, name) >= 0 => IndexOf(owner, name) \in 0..Dynamic - 1
      BY <3>2 DEF Live, Data, IndexOf
    <3> QED BY <3>1, <3>3, <3>4 DEF IndexToSet
  <2> QED BY <2>1, <2>2
<1>11. value \in W
  BY <1>6, BelowIsValue
<1>12. sp' = sp + Growth(Instruction) /\ sp' \in 0..StackSize /\ stack' \in [Slots -> W]
  <2>1. n \in Nat /\ sp' = sp - n /\ sp' \in 0..StackSize /\ stack' \in [Slots -> W]
    BY <1>5, <1>7, PopPushNone
  <2> QED BY <1>4, <2>1, LiveFacts
<1>13. Data(W)' /\ Len(instances') = Len(instances) /\ UNCHANGED lists
  <2>1. CASE owner = 0
    <3>1. UNCHANGED <<bytecode, heapVars>> /\ globals' \in [DOMAIN globals' -> W]
      BY <1>1, <1>2, <1>8, <2>1 DEF Live, Data
    <3>2. Data(W)'
      BY <1>12, <3>1, DataKept DEF Live
    <3> QED BY <1>8, <2>1, <3>2 DEF heapVars, memberVars
  <2>2. CASE owner # 0
    <3>1. SetField(owner, name, index, value) /\ UNCHANGED lists
      BY <1>8, <2>2
    <3>2. UNCHANGED <<bytecode, globals, lists>>
      BY <1>1, <1>2, <3>1
    <3> QED BY <1>2, <1>9, <1>10, <1>11, <1>12, <2>2, <3>1, <3>2, SetFieldKeepsData
  <2> QED BY <2>1, <2>2
<1>14. PICK new : new = {}
  OBVIOUS
<1>15. W = W \union new /\ \A v \in new : Joins(v, W, Callable, DOMAIN lists', Len(instances'))
  BY <1>14
<1>16. /\ DOMAIN lists \subseteq DOMAIN lists'
       /\ Len(instances') \in Nat /\ Len(instances) <= Len(instances')
  BY <1>13, InstancesCount DEF Live
<1>17. status' \in {"running", "halted", "crashed"} /\ UNCHANGED constructions
  BY <1>1, <1>2
<1>18. Instruction.op \notin {"JUMP", "RETURN_VALUE", "RETURN"}
  BY <1>2 DEF SetMemberOps
<1> QED BY <1>1, <1>12, <1>13, <1>15, <1>16, <1>17, <1>18, StepsWith

(* Data of a step that changes stack and lists only.                        *)
LEMMA ListsData ==
    ASSUME NEW W, Live(W), NEW V, W \subseteq V, UNCHANGED <<bytecode, globals, memberVars>>,
           stack' \in [Slots -> V], lists' \in [DOMAIN lists' -> Seq(V)], IsFiniteSet(DOMAIN lists')
    PROVE  Data(V)' /\ Len(instances') = Len(instances) /\ Len(instances') \in Nat
                    /\ Len(instances) <= Len(instances')
<1>1. Data(V)
  BY DataGrows DEF Live
<1>2. Data(V)'
  BY <1>1 DEF Data, Objects, memberVars, Slots
<1>3. Len(instances) \in Nat /\ instances' = instances
  BY <1>1, InstancesCount DEF memberVars
<1> QED BY <1>2, <1>3

(* A new list keeps the invariant: its elements are replaced by the list of *)
(* them.                                                                    *)
LEMMA MakeListLives ==
    ASSUME Runnable, NEW W, Live(W), MeetsNoError, MakeList
    PROVE  \E V : Live(V)'
<1>1. Executes({"ARRAY"}) /\ Next1 /\ UNCHANGED <<status, globals, memberVars, constructions>>
  BY DEF MakeList
<1>2. Ready /\ Instruction.op = "ARRAY" /\ status = "running" /\ sp < StackSize /\ UNCHANGED bytecode
  BY <1>1, ExecutesFacts DEF MeetsNoError, HasRoom
<1>3. PICK n \in Nat : n = Instruction.x
  BY <1>2, Fetched, DynamicFacts
<1>4. Growth(Instruction) = 1 - n /\ n <= Operands
  BY <1>2, <1>3, Fetched DEF Growth, OperandsExist, LeavingValue
<1>5. n <= sp /\ sp - n < StackSize
  BY <1>2, <1>3, <1>4, OperandsOnStack, MachineAssumption
<1>6. PICK id, elements, v, new, V :
          /\ id = NewId(<<>>) /\ elements = [i \in 1..n |-> Below(n - i)]
          /\ v = ListObject(id) /\ new = {v} /\ V = W \union new
  OBVIOUS
<1>7. lists' = WithLists([i \in {id} |-> elements]) /\ PopPush(n, <<v>>)
  BY <1>3, <1>6 DEF MakeList
<1>8. elements \in Seq(W)
  <2>1. \A i \in 1..n : Below(n - i) \in W
    BY BelowIsValue
  <2> QED BY <1>6, <2>1
<1>9. lists \in [DOMAIN lists -> Seq(W)] /\ IsFiniteSet(DOMAIN lists)
  BY DEF Live, Data
<1>10. /\ DOMAIN lists' = DOMAIN lists \union {id}
       /\ lists' \in [DOMAIN lists' -> Seq(W)]
  BY <1>7, <1>8, <1>9 DEF WithLists
<1>11. IsFiniteSet(DOMAIN lists') /\ lists' \in [DOMAIN lists' -> Seq(V)]
  <2>1. Seq(W) \subseteq Seq(V)
    BY <1>6, SeqMonotonic
  <2> QED BY <1>9, <1>10, <2>1, FS_AddElement
<1>12. sp' = sp + Growth(Instruction) /\ sp' \in 0..StackSize /\ stack' \in [Slots -> V]
  <2>1. W \subseteq V /\ v \in V
    BY <1>6
  <2>2. sp' = sp - n + 1 /\ sp' \in 0..StackSize /\ stack' \in [Slots -> V]
    BY <1>5, <1>7, <2>1, PopPushOne
  <2> QED BY <1>4, <2>2, LiveFacts
<1>13. /\ Data(V)' /\ Len(instances') = Len(instances) /\ Len(instances') \in Nat
       /\ Len(instances) <= Len(instances')
  <2>1. W \subseteq V /\ UNCHANGED <<bytecode, globals, memberVars>>
    BY <1>1, <1>2, <1>6
  <2> QED BY <1>11, <1>12, <2>1, ListsData
<1>14. \A u \in new : Joins(u, W, Callable, DOMAIN lists', Len(instances'))
  BY <1>6, <1>10 DEF Joins
<1>15. DOMAIN lists \subseteq DOMAIN lists' /\ status' \in {"running", "halted", "crashed"}
       /\ UNCHANGED constructions /\ Instruction.op \notin {"JUMP", "RETURN_VALUE", "RETURN"}
  BY <1>1, <1>2, <1>10
<1> QED BY <1>1, <1>6, <1>12, <1>13, <1>14, <1>15, StepsWith

(* An element, or null, is a value.                                         *)
LEMMA ElementIsValue ==
    ASSUME NEW W, Live(W), NEW list \in Seq(W), NEW i
    PROVE  ElementOf(list, i) \in W
<1>1. CASE i \in 0..Len(list) - 1
  BY <1>1 DEF ElementOf
<1>2. CASE i \notin 0..Len(list) - 1
  BY <1>2, PlainResults DEF ElementOf
<1> QED BY <1>1, <1>2

(* A list that is a value has elements, and they are values.                *)
LEMMA ListIsKnown ==
    ASSUME NEW W, Live(W), NEW v \in W, v.v = "list"
    PROVE  v.id \in DOMAIN lists /\ lists[v.id] \in Seq(W)
<1>1. v.id \in DOMAIN lists
  BY DEF Live, World, Valid
<1> QED BY <1>1 DEF Live, Data

(* Reading an element keeps the invariant, or ends the machine.             *)
LEMMA GetElementLives ==
    ASSUME Runnable, NEW W, Live(W), MeetsNoError, GetElement
    PROVE  \E V : Live(V)'
<1>1. Executes({"INDEX"}) /\ UNCHANGED <<globals, objectVars>>
  BY DEF GetElement
<1>2. Ready /\ Instruction.op = "INDEX" /\ status = "running" /\ sp < StackSize /\ UNCHANGED bytecode
      /\ executed' \in 0..MaxInstructions
  BY <1>1, ExecutesFacts DEF MeetsNoError, HasRoom
<1>3. Growth(Instruction) = 1 - 2 /\ 2 <= Operands
  BY <1>2, Fetched DEF Growth, OperandsExist, LeavingValue
<1>4. 2 <= sp /\ sp - 2 < StackSize
  BY <1>2, <1>3, OperandsOnStack, MachineAssumption
<1>5. PICK index, left : index = Below(0) /\ left = Below(1)
  OBVIOUS
<1>6. index \in W /\ left \in W
  BY <1>5, BelowIsValue
<1>7. CASE left = NullPtr \/ (left.v = "list" /\ index.v # "int")
  <2>1. status' = "crashed" /\ UNCHANGED <<stack, sp, frames>>
    BY <1>5, <1>7 DEF GetElement
  <2> QED BY <1>1, <1>2, <2>1, Stops
<1>8. CASE ~(left = NullPtr \/ (left.v = "list" /\ index.v # "int"))
  <2>1. PICK v : v = IF left.v = "list" THEN ElementOf(lists[left.id], index.n) ELSE NullObject
    OBVIOUS
  <2>2. PopPush(2, <<v>>) /\ Next1 /\ UNCHANGED status
    BY <1>5, <1>8, <2>1 DEF GetElement
  <2>3. v \in W
    BY <1>6, <2>1, ListIsKnown, ElementIsValue, PlainResults
  <2>4. UNCHANGED <<status, globals, objectVars>> /\ Instruction.op \notin {"JUMP", "RETURN_VALUE", "RETURN"}
    BY <1>1, <1>2, <2>2
  <2> QED BY <1>1, <1>3, <1>4, <2>2, <2>3, <2>4, YieldsOne
<1> QED BY <1>7, <1>8

(* Writing an element keeps the lists.                                      *)
LEMMA WithElementKeeps ==
    ASSUME NEW W, Live(W), NEW left \in W, NEW index \in W, NEW value \in W
    PROVE  /\ WithElement(left, index, value) \in [DOMAIN lists -> Seq(W)]
<1>1. lists \in [DOMAIN lists -> Seq(W)]
  BY DEF Live, Data
<1>2. CASE left.v = "list" /\ index.v = "int" /\ index.n \in 0..Len(lists[left.id]) - 1
  <2>1. left.id \in DOMAIN lists /\ lists[left.id] \in Seq(W)
    BY <1>2, ListIsKnown
  <2>2. [lists[left.id] EXCEPT ![index.n + 1] = value] \in Seq(W)
    BY <1>2, <2>1
  <2> QED BY <1>1, <1>2, <2>1, <2>2 DEF WithElement
<1>3. CASE ~(left.v = "list" /\ index.v = "int" /\ index.n \in 0..Len(lists[left.id]) - 1)
  BY <1>1, <1>3 DEF WithElement
<1> QED BY <1>2, <1>3

(* The instructions of SetElement.                                          *)
SetElementOps == {"SET_INDEX", "PATCH_INDEX", "POSTFIX_INDEX"}

(* Assignments to elements keep the invariant.                              *)
LEMMA SetElementLives ==
    ASSUME Runnable, NEW W, Live(W), MeetsNoError, SetElement
    PROVE  \E V : Live(V)'
<1>1. Executes(SetElementOps) /\ Next1 /\ UNCHANGED <<status, globals, memberVars, constructions>>
  BY DEF SetElement, SetElementOps
<1>2. Ready /\ Instruction.op \in SetElementOps /\ status = "running" /\ sp < StackSize /\ UNCHANGED bytecode
  BY <1>1, ExecutesFacts DEF MeetsNoError, HasRoom
<1>3. Growth(Instruction) = -3
  BY <1>2 DEF Growth, SetElementOps
<1>4. 3 <= Operands /\ (Instruction.op = "POSTFIX_INDEX" => 4 <= Operands)
  BY <1>2, <1>3, Fetched DEF OperandsExist, LeavingValue, SetElementOps
<1>5. /\ sp \in Nat /\ 3 <= sp /\ sp <= StackSize
      /\ (Instruction.op = "POSTFIX_INDEX" => 4 <= sp)
  BY <1>2, <1>4, OperandsOnStack, LiveFacts
<1>6. Below(0) \in W /\ Below(1) \in W /\ Below(2) \in W /\ Below(3) \in W /\ NullObject \in W
  BY BelowIsValue, PlainResults
<1>7. /\ lists' = WithElement(Below(2), Below(1), Below(0)) \/ lists' = WithElement(Below(1), Below(0), Below(2))
      /\ sp' = sp - 3 /\ sp' \in 0..StackSize /\ stack' \in [Slots -> W]
  <2>1. CASE Instruction.op = "SET_INDEX"
    <3>1. lists' = WithElement(Below(2), Below(1), Below(0)) /\ PopPush(3, <<>>)
      BY <2>1 DEF SetElement
    <3> QED BY <1>5, <3>1, PopPushNone
  <2>2. CASE Instruction.op = "PATCH_INDEX"
    <3>1. lists' = WithElement(Below(1), Below(0), Below(2)) /\ PopPush(3, <<>>)
      BY <1>5, <2>2 DEF SetElement
    <3> QED BY <1>5, <3>1, PopPushNone
  <2>3. CASE Instruction.op = "POSTFIX_INDEX"
    <3>1. PICK v : v = IF Below(3) = NullPtr THEN NullObject ELSE Below(3)
      OBVIOUS
    <3>2. lists' = WithElement(Below(1), Below(0), Below(2)) /\ PopPush(4, <<v>>)
      BY <1>5, <2>3, <3>1 DEF SetElement
    <3>3. v \in W /\ 4 <= sp /\ sp - 4 < StackSize
      BY <1>5, <1>6, <2>3, <3>1, MachineAssumption
    <3>4. sp' = sp - 4 + 1 /\ sp' \in 0..StackSize /\ stack' \in [Slots -> W]
      BY <3>2, <3>3, PopPushOne
    <3> QED BY <1>5, <3>2, <3>4
  <2> QED BY <1>2, <2>1, <2>2, <2>3 DEF SetElementOps
<1>8. lists' \in [DOMAIN lists -> Seq(W)] /\ DOMAIN lists' = DOMAIN lists
  <2>1. PICK a \in W, b \in W, c \in W : lists' = WithElement(a, b, c)
    BY <1>6, <1>7
  <2> QED BY <2>1, WithElementKeeps
<1>9. /\ Data(W)' /\ Len(instances') = Len(instances) /\ Len(instances') \in Nat
      /\ Len(instances) <= Len(instances')
  <2>1. IsFiniteSet(DOMAIN lists') /\ lists' \in [DOMAIN lists' -> Seq(W)]
    BY <1>8 DEF Live, Data
  <2>2. UNCHANGED <<bytecode, globals, memberVars>>
    BY <1>1, <1>2
  <2> QED BY <1>7, <2>1, <2>2, ListsData
<1>10. PICK new : new = {}
  OBVIOUS
<1>11. W = W \union new /\ \A v \in new : Joins(v, W, Callable, DOMAIN lists', Len(instances'))
  BY <1>10
<1>12. /\ DOMAIN lists \subseteq DOMAIN lists' /\ status' \in {"running", "halted", "crashed"}
       /\ UNCHANGED constructions /\ Instruction.op \notin {"JUMP", "RETURN_VALUE", "RETURN"}
  BY <1>1, <1>2, <1>8 DEF SetElementOps
<1>13. sp' = sp + Growth(Instruction) /\ sp' \in 0..StackSize
  BY <1>3, <1>5, <1>7
<1> QED BY <1>1, <1>9, <1>11, <1>12, <1>13, StepsWith

-----------------------------------------------------------------------------
(* Calls that enter no frame.                                               *)

(* The callee of a call is on the stack, and its arguments.                 *)
LEMMA CalleeOnStack ==
    ASSUME Runnable, NEW W, Live(W), Executes({"CALL"})
    PROVE  /\ Ready /\ status = "running" /\ Instruction.op = "CALL" /\ UNCHANGED bytecode
           /\ executed' \in 0..MaxInstructions
           /\ Instruction.x \in Nat /\ Growth(Instruction) = -Instruction.x
           /\ sp \in Nat /\ CalleeIndex = sp - 1 - Instruction.x
           /\ CalleeIndex \in 0..StackSize - 1 /\ CalleeIndex + 1 = sp + Growth(Instruction)
           /\ Callee = stack[CalleeIndex] /\ Callee \in W
           /\ OnStack \in Seq(W) /\ Len(OnStack) = Instruction.x
<1>1. Ready /\ status = "running" /\ Instruction.op = "CALL" /\ UNCHANGED bytecode
      /\ executed' \in 0..MaxInstructions
  BY ExecutesFacts
<1>2. PICK x \in Nat, y \in Nat : x = Instruction.x /\ y = Instruction.y
  BY <1>1, Fetched, DynamicFacts
<1>3. Growth(Instruction) = -x /\ Operands >= x + 2 * y + 1
  BY <1>1, <1>2, Fetched DEF Growth, OperandsExist
<1>4. Operands >= x + 1 /\ Operands \in Nat
  <2>1. Operands \in Nat
    BY <1>1, OperandsOnStack
  <2> QED BY <1>3, <2>1
<1>5. PICK at : at = CalleeIndex
  OBVIOUS
<1>6. at = sp - 1 - x /\ at \in 0..StackSize - 1 /\ at + 1 = sp - x
  BY <1>1, <1>2, <1>4, <1>5, OperandsOnStack, LiveFacts, MachineAssumption DEF CalleeIndex
<1>7. stack \in [Slots -> W]
  BY LiveFacts
<1>8. Callee = stack[at] /\ Callee \in W
  BY <1>5, <1>6, <1>7 DEF Callee, Slots
<1>9. OnStack \in Seq(W) /\ Len(OnStack) = x
  <2>1. \A i \in 1..x : at + i \in Slots
    BY <1>6, LiveFacts, MachineAssumption DEF Slots
  <2>2. OnStack = [i \in 1..x |-> stack[at + i]]
    BY <1>2, <1>5 DEF OnStack
  <2> QED BY <1>7, <2>1, <2>2
<1> QED BY <1>1, <1>2, <1>3, <1>5, <1>6, <1>8, <1>9, LiveFacts

(* The slot n below the top is the new top.                                 *)
LEMMA Replaces ==
    ASSUME NEW W, Live(W), NEW n \in Nat, n <= sp, NEW values, Push(sp - n, values)
    PROVE  PopPush(n, values)
  BY LiveFacts DEF PopPush, Floor

(* A builtin replaces its callee and its arguments by its value.            *)
LEMMA GivesLives ==
    ASSUME Runnable, NEW W, Live(W), Executes({"CALL"}), NEW v, Result(v, W),
           Gives(v), UNCHANGED <<globals, objectVars>>
    PROVE  \E V : Live(V)'
<1>1. Push(CalleeIndex, <<v>>) /\ Next1 /\ UNCHANGED status
  BY DEF Gives
<1>a. PICK x \in Nat, at \in 0..StackSize - 1 : x = Instruction.x /\ at = CalleeIndex
  BY CalleeOnStack
<1>b. Growth(Instruction) = -x /\ sp \in Nat /\ at = sp - 1 - x /\ Instruction.op = "CALL"
  BY <1>a, CalleeOnStack
<1>2. PICK n \in Nat : n = x + 1
  OBVIOUS
<1>3. /\ CalleeIndex = sp - n /\ n <= sp /\ Growth(Instruction) = 1 - n /\ sp - n < StackSize
      /\ Instruction.op = "CALL"
  BY <1>a, <1>b, <1>2, MachineAssumption
<1>4. PopPush(n, <<v>>)
  BY <1>1, <1>3, Replaces
<1>5. UNCHANGED <<status, globals, objectVars>> /\ Instruction.op \notin {"JUMP", "RETURN_VALUE", "RETURN"}
  BY <1>1, <1>3
<1> QED BY <1>1, <1>3, <1>4, <1>5, YieldsOne DEF Result

(* The same when a list changes.                                            *)
LEMMA GivesWithListLives ==
    ASSUME Runnable, NEW W, Live(W), Executes({"CALL"}), NEW v \in W,
           Gives(v), UNCHANGED <<globals, memberVars, constructions>>,
           lists' \in [DOMAIN lists -> Seq(W)]
    PROVE  \E V : Live(V)'
<1>1. Push(CalleeIndex, <<v>>) /\ Next1 /\ UNCHANGED status
  BY DEF Gives
<1>2. sp' = sp + Growth(Instruction) /\ sp' \in 0..StackSize /\ stack' \in [Slots -> W]
  <2>1. PICK at \in 0..StackSize - 1 : at = CalleeIndex /\ at + 1 = sp + Growth(Instruction)
    BY CalleeOnStack
  <2> QED BY <1>1, <2>1, PushOne, LiveFacts
<1>3. status' \in {"running", "halted", "crashed"} /\ UNCHANGED bytecode
      /\ Instruction.op \notin {"JUMP", "RETURN_VALUE", "RETURN"}
  BY <1>1, CalleeOnStack
<1>4. DOMAIN lists' = DOMAIN lists /\ lists' \in [DOMAIN lists' -> Seq(W)] /\ IsFiniteSet(DOMAIN lists')
  BY DEF Live, Data
<1>5. /\ Data(W)' /\ Len(instances') = Len(instances) /\ Len(instances') \in Nat
      /\ Len(instances) <= Len(instances')
  <2>1. UNCHANGED <<bytecode, globals, memberVars>>
    BY <1>3
  <2> QED BY <1>2, <1>4, <2>1, ListsData
<1>6. PICK new : new = {}
  OBVIOUS
<1>7. W = W \union new /\ \A u \in new : Joins(u, W, Callable, DOMAIN lists', Len(instances'))
  BY <1>6
<1>8. DOMAIN lists \subseteq DOMAIN lists' /\ UNCHANGED constructions
  BY <1>4
<1> QED BY <1>1, <1>2, <1>3, <1>5, <1>7, <1>8, StepsWith

(* A builtin that dereferences a null pointer ends the machine.             *)
LEMMA DiesLives ==
    ASSUME Runnable, NEW W, Live(W), Executes({"CALL"}), Dies, UNCHANGED <<globals, objectVars>>
    PROVE  \E V : Live(V)'
<1>1. status' = "crashed" /\ UNCHANGED <<stack, sp, frames>>
  BY DEF Dies
<1>2. UNCHANGED bytecode /\ executed' \in 0..MaxInstructions
  BY CalleeOnStack
<1> QED BY <1>1, <1>2, Stops

(* A builtin has the arguments that it reads.                               *)
LEMMA BuiltinArguments ==
    ASSUME Runnable, NEW W, Live(W), MeetsNoError, NEW names, CallsBuiltin(names)
    PROVE  /\ Executes({"CALL"})
           /\ OnStack[1] \in W
           /\ names = {"__append"} => OnStack[2] \in W
<1>1. Executes({"CALL"}) /\ Callee.v = "builtin" /\ BuiltinNames[Callee.index + 1] \in names
  BY DEF CallsBuiltin
<1>2. /\ Ready /\ status = "running" /\ Instruction.op = "CALL" /\ Instruction.x \in Nat
      /\ OnStack \in Seq(W) /\ Len(OnStack) = Instruction.x
  BY <1>1, CalleeOnStack
<1>3. Instruction.x >= IF BuiltinNames[Callee.index + 1] = "__append" THEN 2 ELSE 1
  BY <1>1, <1>2 DEF MeetsNoError, HasResult, Ready
<1>4. Instruction.x >= 1 /\ (names = {"__append"} => Instruction.x >= 2)
  BY <1>1, <1>2, <1>3
<1> QED BY <1>1, <1>2, <1>4

(* print keeps the invariant.                                               *)
LEMMA CallPrintLives ==
    ASSUME Runnable, NEW W, Live(W), MeetsNoError, CallPrint
    PROVE  \E V : Live(V)'
<1>1. Executes({"CALL"}) /\ UNCHANGED <<globals, objectVars>> /\ (Dies \/ Gives(NullPtr))
  BY BuiltinArguments DEF CallPrint, CallsBuiltin
<1>2. CASE Dies
  BY <1>1, <1>2, DiesLives
<1>3. CASE Gives(NullPtr)
  <2>1. PICK v : v = NullPtr
    OBVIOUS
  <2>2. Result(v, W) /\ Gives(v)
    BY <1>3, <2>1, PlainResults DEF Result
  <2> QED BY <1>1, <2>2, GivesLives
<1> QED BY <1>1, <1>2, <1>3

(* len keeps the invariant.                                                 *)
LEMMA CallLenLives ==
    ASSUME Runnable, NEW W, Live(W), MeetsNoError, CallLen
    PROVE  \E V : Live(V)'
<1>1. /\ CallsBuiltin({"len"}) /\ UNCHANGED <<globals, objectVars>>
      /\ IF OnStack[1] = NullPtr THEN Dies
         ELSE Gives(IntObject(IF OnStack[1].v = "list" THEN Len(lists[OnStack[1].id]) ELSE 0))
  BY DEF CallLen
<1>2. Executes({"CALL"}) /\ OnStack[1] \in W
  BY <1>1, BuiltinArguments
<1>3. CASE OnStack[1] = NullPtr
  BY <1>1, <1>2, <1>3, DiesLives
<1>4. CASE OnStack[1] # NullPtr
  <2>1. PICK list \in W : list = OnStack[1]
    BY <1>2
  <2>2. PICK v : v = IntObject(IF list.v = "list" THEN Len(lists[list.id]) ELSE 0)
    OBVIOUS
  <2>3. (IF list.v = "list" THEN Len(lists[list.id]) ELSE 0) \in Int
    BY ListIsKnown
  <2>4. v \in W
    BY <2>2, <2>3 DEF Live, World, Valid
  <2>5. Result(v, W) /\ Gives(v)
    BY <1>1, <1>4, <2>1, <2>2, <2>4 DEF Result
  <2> QED BY <1>1, <1>2, <2>5, GivesLives
<1> QED BY <1>3, <1>4

(* append keeps the invariant: the list has a value more.                   *)
LEMMA CallAppendLives ==
    ASSUME Runnable, NEW W, Live(W), MeetsNoError, CallAppend
    PROVE  \E V : Live(V)'
<1>1. /\ CallsBuiltin({"__append"}) /\ UNCHANGED <<globals, memberVars, constructions>>
      /\ IF OnStack[1].v = "list"
         THEN Gives(NullPtr) /\ lists' = [lists EXCEPT ![OnStack[1].id] = Append(@, OnStack[2])]
         ELSE Dies /\ UNCHANGED lists
  BY DEF CallAppend
<1>2. Executes({"CALL"}) /\ OnStack[1] \in W /\ OnStack[2] \in W
  BY <1>1, BuiltinArguments
<1>3. CASE OnStack[1].v = "list"
  <2>1. PICK list \in W, element \in W, v \in W : list = OnStack[1] /\ element = OnStack[2] /\ v = NullPtr
    BY <1>2, PlainResults
  <2>2. list.id \in DOMAIN lists /\ lists[list.id] \in Seq(W) /\ lists \in [DOMAIN lists -> Seq(W)]
    BY <1>3, <2>1, ListIsKnown DEF Live, Data
  <2>3. Gives(v) /\ lists' = [lists EXCEPT ![list.id] = Append(@, element)]
    BY <1>1, <1>3, <2>1
  <2>4. Append(lists[list.id], element) \in Seq(W)
    BY <2>2
  <2>5. lists' \in [DOMAIN lists -> Seq(W)]
    BY <2>2, <2>3, <2>4
  <2>6. UNCHANGED <<globals, memberVars, constructions>>
    BY <1>1
  <2> QED BY <1>2, <2>3, <2>5, <2>6, GivesWithListLives
<1>4. CASE OnStack[1].v # "list"
  <2>1. Dies /\ UNCHANGED <<globals, objectVars>>
    BY <1>1, <1>4 DEF objectVars, heapVars
  <2> QED BY <1>2, <2>1, DiesLives
<1> QED BY <1>3, <1>4

(* A list without one of its elements.                                      *)
LEMMA RemovedIsSequence ==
    ASSUME NEW W, NEW s \in Seq(W), NEW i \in DOMAIN s
    PROVE  RemoveAt(s, i) \in Seq(W)
<1>1. SubSeq(s, 1, i - 1) \in Seq(W) /\ SubSeq(s, i + 1, Len(s)) \in Seq(W)
  OBVIOUS
<1> QED BY <1>1 DEF RemoveAt

(* pop keeps the invariant: its result is an element of the list.           *)
LEMMA CallPopLives ==
    ASSUME Runnable, NEW W, Live(W), MeetsNoError, CallPop
    PROVE  \E V : Live(V)'
<1>1. CallsBuiltin({"__pop"}) /\ UNCHANGED <<globals, memberVars, constructions>>
  BY DEF CallPop
<1>2. Executes({"CALL"}) /\ OnStack[1] \in W
  BY <1>1, BuiltinArguments
<1>3. PICK list \in W : list = OnStack[1]
  BY <1>2
<1>a. PICK i : i = IF Instruction.x = 1 THEN Len(lists[list.id]) ELSE OnStack[2].n + 1
  OBVIOUS
<1>4. \/ /\ list.v = "list" /\ i \in DOMAIN lists[list.id]
         /\ Gives(lists[list.id][i]) /\ lists' = [lists EXCEPT ![list.id] = RemoveAt(@, i)]
      \/ Gives(NullObject) /\ UNCHANGED lists
  BY <1>3, <1>a DEF CallPop
<1>5. lists \in [DOMAIN lists -> Seq(W)]
  BY DEF Live, Data
<1>6. \E v \in W : Gives(v) /\ lists' \in [DOMAIN lists -> Seq(W)]
  <2>1. CASE Gives(NullObject) /\ UNCHANGED lists
    BY <1>5, <2>1, PlainResults
  <2>2. CASE /\ list.v = "list" /\ i \in DOMAIN lists[list.id]
             /\ Gives(lists[list.id][i]) /\ lists' = [lists EXCEPT ![list.id] = RemoveAt(@, i)]
    <3>1. list.id \in DOMAIN lists /\ lists[list.id] \in Seq(W)
      BY <1>3, <2>2, ListIsKnown
    <3>2. RemoveAt(lists[list.id], i) \in Seq(W)
      BY <2>2, <3>1, RemovedIsSequence
    <3>3. lists[list.id][i] \in W
      BY <2>2, <3>1
    <3> QED BY <1>5, <2>2, <3>1, <3>2, <3>3
  <2> QED BY <1>4, <2>1, <2>2
<1> QED BY <1>1, <1>2, <1>6, GivesWithListLives

(* A call of what is not callable keeps the invariant.  A null pointer is   *)
(* left with its arguments, which MeetsNoError excludes.                    *)
LEMMA CallOtherLives ==
    ASSUME Runnable, NEW W, Live(W), MeetsNoError, CallOther
    PROVE  \E V : Live(V)'
<1>1. /\ Executes({"CALL"}) /\ Next1 /\ UNCHANGED <<status, globals, objectVars>>
      /\ IF Callee = NullPtr THEN UNCHANGED <<stack, sp>> ELSE Push(CalleeIndex, <<NullObject>>)
  BY DEF CallOther
<1>2. Ready /\ status = "running" /\ Instruction.op = "CALL" /\ Growth(Instruction) = -Instruction.x
  BY <1>1, CalleeOnStack
<1>3. CASE Callee = NullPtr
  <2>1. Instruction.x = 0
    BY <1>2, <1>3 DEF MeetsNoError, HasResult, Ready
  <2>2. sp' = sp + Growth(Instruction) /\ sp' \in 0..StackSize /\ stack' \in [Slots -> W]
    BY <1>1, <1>2, <1>3, <2>1, LiveFacts
  <2>3. PICK new : new = {}
    OBVIOUS
  <2>4. stack' \in [Slots -> W \union new] /\ \A u \in new : Joins(u, W, Callable, DOMAIN lists, Len(instances))
    BY <2>2, <2>3
  <2>5. status' \in {"running", "halted", "crashed"} /\ UNCHANGED <<globals, objectVars>>
        /\ Instruction.op \notin {"JUMP", "RETURN_VALUE", "RETURN"}
    BY <1>1, <1>2
  <2> QED BY <1>1, <2>2, <2>4, <2>5, StepsToNext
<1>4. CASE Callee # NullPtr
  <2>1. PICK v \in W : v = NullObject
    BY PlainResults
  <2>2. Result(v, W) /\ Gives(v) /\ UNCHANGED <<globals, objectVars>>
    BY <1>1, <1>4, <2>1 DEF Result, Gives
  <2> QED BY <1>1, <2>2, GivesLives
<1> QED BY <1>3, <1>4

(* The end of the program and of the budget.                                *)
LEMMA HaltLives ==
    ASSUME NEW W, Live(W), Halt
    PROVE  \E V : Live(V)'
<1>1. UNCHANGED <<bytecode, stack, sp, frames, globals, objectVars>> /\ UNCHANGED executed
  BY DEF Halt
<1>2. status' \in {"halted", "out of budget"} /\ executed' \in 0..MaxInstructions
  BY <1>1, LiveFacts DEF Halt
<1> QED BY <1>1, <1>2, Stops

-----------------------------------------------------------------------------
(* Returns.                                                                 *)

(* The world of a step that makes no value.                                 *)
LEMMA WorldKept ==
    ASSUME NEW W, World(W), UNCHANGED <<bytecode, lists, instances>>
    PROVE  World(W)'
<1>1. Callable' = Callable
  BY SameCallable
<1> QED BY <1>1 DEF World

(* A frame that a step does not touch.                                      *)
LEMMA FrameKept ==
    ASSUME UNCHANGED bytecode, NEW k, FrameFits(k), frames'[k] = frames[k],
           Len(instances) \in Nat, Len(instances') \in Nat, Len(instances) <= Len(instances')
    PROVE  FrameFits(k)'
<1>1. PICK fr : fr = frames[k] /\ frames'[k] = fr
  OBVIOUS
<1>2. Depths(CodeOf(fr.cl))' = Depths(CodeOf(fr.cl))
  BY SameCode
<1>3. fr.cl.v = "closure" /\ fr.ip \in DOMAIN Depths(CodeOf(fr.cl)) /\ fr.bound \in 0..Len(instances)
  BY <1>1 DEF FrameFits
<1> QED BY <1>1, <1>2, <1>3 DEF FrameFits

(* A caller that a step does not touch.                                     *)
LEMMA CallerKept ==
    ASSUME UNCHANGED bytecode, NEW k, CallerFits(k), frames'[k] = frames[k],
           frames'[k + 1].base = frames[k + 1].base
    PROVE  CallerFits(k)'
<1>1. Balance(k)' = Balance(k)
  BY SameBalance
<1> QED BY <1>1 DEF CallerFits

(* A construction that a step does not touch.                               *)
LEMMA ConstructionKept ==
    ASSUME UNCHANGED bytecode, NEW c, ConstructionFits(c), constructions'[c] = constructions[c],
           NEW d, d = constructions[c].depth, Balance(d)' = Balance(d), d \in 1..Len(frames'),
           Len(instances) \in Nat, Len(instances') \in Nat, Len(instances) <= Len(instances')
    PROVE  ConstructionFits(c)'
<1>1. PICK it : it = constructions[c] /\ constructions'[c] = it
  OBVIOUS
<1>2. /\ it.instance \in 1..Len(instances) /\ it.callee + 1 = Balance(d) /\ d = it.depth
      /\ \A e \in DOMAIN it.due : 0 \in Callable[it.due[e].fn]
  BY <1>1 DEF ConstructionFits
<1>3. Callable' = Callable
  BY SameCallable
<1>4. it.callee + 1 = Balance(it.depth)'
  BY <1>2
<1> QED BY <1>1, <1>2, <1>3, <1>4 DEF ConstructionFits

(* The depth of a construction is that of a frame.                          *)
LEMMA DepthIsNat ==
    ASSUME NEW W, Live(W), NEW c \in DOMAIN constructions
    PROVE  constructions[c].depth \in Nat /\ constructions[c].depth \in 1..Len(frames) /\ ConstructionFits(c)
<1>1. ConstructionFits(c)
  BY DEF Live, Framed
<1>2. Len(frames) \in Nat
  BY DEF Live, Calls
<1> QED BY <1>1, <1>2 DEF ConstructionFits

(* A return keeps the invariant: it leaves one value in the slot of the     *)
(* callee, which is where the caller's operands end, or hands over to the   *)
(* construction that is due.                                                *)
LEMMA ReturnValueLives ==
    ASSUME Runnable, NEW W, Live(W), ReturnValue
    PROVE  \E V : Live(V)'
<1>1. /\ Executes({"RETURN_VALUE", "RETURN"}) /\ frames' = Front(frames)
      /\ status' = IF Len(frames) = 1 THEN "halted" ELSE status
      /\ UNCHANGED <<globals, objectVars>>
  BY DEF ReturnValue
<1>2. Ready /\ status = "running" /\ UNCHANGED bytecode /\ executed' \in 0..MaxInstructions
  BY <1>1, ExecutesFacts
<1>3. UNCHANGED <<lists, instances, fieldIndex, constructions, globals, bytecode>>
  BY <1>1, <1>2 DEF objectVars, heapVars, memberVars
<1>a. PICK n \in Nat \ {0} : n = Len(frames)
  BY <1>2, Fetched
<1>4. /\ frames \in Seq(Frames(W)) /\ DOMAIN frames = 1..n
      /\ Current = frames[n] /\ Current.base \in 0..StackSize
      /\ \A c \in DOMAIN constructions : constructions[c].depth < n
  BY <1>a, <1>2, Fetched DEF Live, Calls, Frames
<1>5. PICK base \in 0..StackSize : base = Current.base
  BY <1>4
<1>6. PICK v \in W : Push(Floor(base - 1), <<v>>)
  <2>1. Below(0) \in W /\ NullPtr \in W
    BY BelowIsValue, PlainResults
  <2> QED BY <1>5, <2>1 DEF ReturnValue
<1>7. /\ sp' = Floor(base - 1) + 1 /\ sp' \in 0..StackSize /\ stack' \in [Slots -> W]
  <2>1. Floor(base - 1) \in 0..StackSize - 1
    BY MachineAssumption DEF Floor
  <2> QED BY <1>6, <2>1, PushOne, LiveFacts
<1>8. /\ frames' \in Seq(Frames(W)) /\ Len(frames') = n - 1 /\ DOMAIN frames' = 1..n - 1
      /\ \A k \in 1..n - 1 : frames'[k] = frames[k]
  BY <1>1, <1>4, <1>a DEF Front
<1>9. World(W)'
  BY <1>3, WorldKept DEF Live
<1>10. Data(W)'
  <2>1. UNCHANGED <<bytecode, heapVars>> /\ globals' \in [DOMAIN globals' -> W]
    BY <1>3 DEF heapVars, memberVars, Live, Data
  <2> QED BY <1>7, <2>1, DataKept DEF Live
<1>11. Calls(W)'
  <2>1. constructions' \in Seq(Constructions(W))'
    BY <1>3 DEF Live, Calls, Constructions, Dues, Slots
  <2>2. \A k \in DOMAIN frames' : frames'[k].cl \in IF k = 1 THEN {Main} ELSE W
    BY <1>4, <1>8 DEF Live, Calls
  <2>3. frames' \in Seq(Frames(W))'
    BY <1>8 DEF Frames, Main, Closure
  <2> QED BY <2>1, <2>2, <2>3 DEF Calls, Main, Closure
<1>12. \A k \in 1..n - 1 : Balance(k)' = Balance(k)
  BY <1>3, <1>8, SameBalance
<1>b. Len(instances) \in Nat /\ Len(instances') \in Nat /\ Len(instances) <= Len(instances')
  BY <1>3, InstancesCount DEF Live
<1>13. Framed'
  <2>1. \A k \in DOMAIN frames' : FrameFits(k)'
    <3> TAKE k \in DOMAIN frames'
    <3>1. k \in DOMAIN frames /\ frames'[k] = frames[k]
      BY <1>4, <1>8
    <3>2. FrameFits(k)
      BY <3>1 DEF Live, Framed
    <3> QED BY <1>3, <1>b, <3>1, <3>2, FrameKept
  <2>2. ConstructionDepths' = ConstructionDepths
    BY <1>3 DEF ConstructionDepths
  <2>3. \A k \in 1..Len(frames') - 1 : k \notin ConstructionDepths => CallerFits(k)'
    <3> TAKE k \in 1..Len(frames') - 1
    <3>1. k \in 1..n - 1 /\ k + 1 \in 1..n - 1
      BY <1>8
    <3>2. k \notin ConstructionDepths => CallerFits(k)
      BY <1>a, <3>1 DEF Live, Framed
    <3>3. frames'[k + 1] = frames[k + 1] /\ frames'[k] = frames[k]
      BY <1>8, <3>1
    <3> QED BY <1>3, <3>2, <3>3, CallerKept
  <2>4. \A c \in DOMAIN constructions : ConstructionFits(c)'
    <3> TAKE c \in DOMAIN constructions
    <3>1. PICK d : d = constructions[c].depth
      OBVIOUS
    <3>2. ConstructionFits(c) /\ d \in 1..n - 1
      BY <1>4, <1>a, <3>1, DepthIsNat
    <3>3. Balance(d)' = Balance(d) /\ d \in 1..Len(frames')
      BY <1>8, <1>12, <3>2
    <3>4. constructions'[c] = constructions[c]
      BY <1>3
    <3> QED BY <1>3, <1>b, <3>1, <3>2, <3>3, <3>4, ConstructionKept
  <2>5. \A c, d \in DOMAIN constructions : c < d => constructions[c].depth < constructions[d].depth
    BY DEF Live, Framed
  <2>6. status' = "running" => frames' # <<>>
    <3>1. status' = "running" => n # 1
      BY <1>1, <1>a
    <3> QED BY <1>8, <3>1
  <2>7. status' \in {"running", "halted"}
    BY <1>1, <1>2
  <2>8. \A k \in 1..Len(frames') - 1 : k \notin ConstructionDepths' => CallerFits(k)'
    BY <2>2, <2>3
  <2>9. \A c \in DOMAIN constructions' : ConstructionFits(c)'
    BY <1>3, <2>4
  <2>10. \A c, d \in DOMAIN constructions' : c < d => constructions'[c].depth < constructions'[d].depth
    BY <1>3, <2>5
  <2>11. sp' \in 0..StackSize /\ executed' \in 0..MaxInstructions
    BY <1>2, <1>7
  <2> QED BY <2>1, <2>6, <2>7, <2>8, <2>9, <2>10, <2>11 DEF Framed
<1>14. StackBalanced'
  <2> SUFFICES ASSUME status' = "running", ~ConstructionDue'
               PROVE  sp' = Balance(n - 1)'
    <3>1. Len(frames)' = n - 1
      BY <1>8
    <3> QED BY <3>1 DEF StackBalanced, Balance
  <2>1. n # 1
    BY <1>1, <1>a
  <2>2. n - 1 \in 1..Len(frames) - 1 /\ (n - 1) + 1 = n
    BY <1>a, <2>1
  <2>3. n - 1 \notin ConstructionDepths
    <3> SUFFICES ASSUME NEW c \in DOMAIN constructions, constructions[c].depth = n - 1
                 PROVE  FALSE
      BY DEF ConstructionDepths
    <3>1. PICK last \in Nat : last = Len(constructions) /\ DOMAIN constructions = 1..last
      BY DEF Live, Calls
    <3>2. last \in DOMAIN constructions /\ (c = last \/ c < last) /\ constructions # <<>>
      BY <3>1
    <3>3. c < last => constructions[c].depth < constructions[last].depth
      BY <3>2 DEF Live, Framed
    <3>4. constructions[last].depth < n /\ constructions[last].depth \in Nat
      BY <1>4, <3>2, DepthIsNat
    <3>5. constructions[last].depth = n - 1
      BY <3>2, <3>3, <3>4
    <3>6. constructions' = constructions /\ Len(frames') = n - 1
      BY <1>3, <1>8
    <3> QED BY <3>1, <3>2, <3>5, <3>6 DEF ConstructionDue, Last
  <2>4. CallerFits(n - 1)
    BY <2>2, <2>3 DEF Live, Framed
  <2>5. base = Balance(n - 1) /\ base >= 1
    BY <1>4, <1>5, <2>2, <2>4 DEF CallerFits
  <2>6. sp' = base
    BY <1>7, <2>5 DEF Floor
  <2>7. n - 1 \in 1..n - 1
    BY <2>1
  <2> QED BY <1>12, <2>5, <2>6, <2>7
<1> QED BY <1>9, <1>10, <1>11, <1>13, <1>14 DEF Live

-----------------------------------------------------------------------------
(* Calls that enter a frame.                                                *)

(* A construction that goes on: at most, less is due.                       *)
GoesOn(c) ==
    /\ constructions'[c].instance = constructions[c].instance
    /\ constructions'[c].callee = constructions[c].callee
    /\ constructions'[c].depth = constructions[c].depth
    /\ \A e \in DOMAIN constructions'[c].due :
          \E d \in DOMAIN constructions[c].due : constructions'[c].due[e] = constructions[c].due[d]

(* A construction that goes on fits as it did.                              *)
LEMMA ConstructionGoesOn ==
    ASSUME UNCHANGED bytecode, NEW c, ConstructionFits(c), GoesOn(c),
           NEW d, d = constructions[c].depth, Balance(d)' = Balance(d), d \in 1..Len(frames'),
           Len(instances) \in Nat, Len(instances') \in Nat, Len(instances) <= Len(instances')
    PROVE  ConstructionFits(c)'
<1>1. PICK old, it : old = constructions[c] /\ it = constructions'[c]
  OBVIOUS
<1>2. /\ it.instance \in 1..Len(instances) /\ it.callee + 1 = Balance(d) /\ d = it.depth
      /\ \A e \in DOMAIN old.due : 0 \in Callable[old.due[e].fn]
  BY <1>1 DEF ConstructionFits, GoesOn
<1>3. \A e \in DOMAIN it.due : 0 \in Callable[it.due[e].fn]
  BY <1>1, <1>2 DEF GoesOn
<1>4. Callable' = Callable
  BY SameCallable
<1>5. it.callee + 1 = Balance(it.depth)'
  BY <1>2
<1> QED BY <1>1, <1>2, <1>3, <1>4, <1>5 DEF ConstructionFits

(* A function begins with no operands.                                      *)
LEMMA NewFrameBalance ==
    ASSUME Runnable, NEW W, World(W), NEW cl \in W, cl.v = "closure"
    PROVE  /\ 0 \in DOMAIN Depths(CodeOf(cl)) /\ Depths(CodeOf(cl))[0] = 0 /\ LocalsOf(cl) \in Nat
           /\ cl.fn \in DOMAIN bytecode.functions
<1>1. Fits(cl, W) /\ cl.fn \in DOMAIN bytecode.functions
  BY ClosureCode
<1> QED BY <1>1 DEF Fits, WellFormed

(* A frame is entered, over the callers.                                    *)
LEMMA Enters ==
    ASSUME Runnable, NEW W, Live(W), UNCHANGED bytecode, instances' = instances,
           NEW n \in Nat \ {0}, n = Len(frames),
           NEW callers \in Seq(Frames(W)), Len(callers) = n,
           \A k \in 1..n - 1 : callers[k] = frames[k],
           callers[n].cl = frames[n].cl, callers[n].base = frames[n].base,
           callers[n].bound = frames[n].bound,
           callers[n].ip \in DOMAIN Depths(CodeOf(frames[n].cl)),
           NEW fr \in Frames(W), fr.cl \in W, fr.cl.v = "closure", fr.ip = 0,
           fr.bound \in 0..Len(instances), frames' = Append(callers, fr),
           DOMAIN constructions' = DOMAIN constructions,
           constructions' \in Seq(Constructions(W)),
           \A c \in DOMAIN constructions : GoesOn(c),
           (\A c \in DOMAIN constructions : constructions[c].depth # n) \/ callers[n] = frames[n],
           n \in ConstructionDepths \/ (fr.base = BalanceOf(callers[n]) /\ fr.base >= 1),
           status' = "running", executed' \in 0..MaxInstructions,
           sp' = fr.base + LocalsOf(fr.cl), sp' \in 0..StackSize
    PROVE  Calls(W)' /\ Framed' /\ StackBalanced'
<1>1. /\ frames' \in Seq(Frames(W)) /\ Len(frames') = n + 1 /\ DOMAIN frames' = 1..n + 1
      /\ \A k \in 1..n : frames'[k] = callers[k]
      /\ frames'[n + 1] = fr
  OBVIOUS
<1>2. frames \in Seq(Frames(W)) /\ DOMAIN frames = 1..n
  BY DEF Live, Calls
<1>a. /\ \A k \in 1..n - 1 : frames'[k] = frames[k] /\ k \in 1..n
      /\ \A k \in 1..n : callers[k].base = frames[k].base
      /\ n \in 1..n
  <2>1. \A k \in 1..n - 1 : k \in 1..n
    OBVIOUS
  <2>2. \A k \in 1..n : callers[k].base = frames[k].base
    <3> TAKE k \in 1..n
    <3>1. k \in 1..n - 1 \/ k = n
      OBVIOUS
    <3> QED BY <3>1
  <2> QED BY <1>1, <2>1, <2>2
<1>3. fr.base \in Nat /\ World(W)
  BY MachineAssumption DEF Frames, Live
<1>4. 0 \in DOMAIN Depths(CodeOf(fr.cl)) /\ Depths(CodeOf(fr.cl))[0] = 0 /\ LocalsOf(fr.cl) \in Nat
  BY <1>3, NewFrameBalance
<1>5. Calls(W)'
  <2>1. \A k \in 1..n : frames[k].cl \in IF k = 1 THEN {Main} ELSE W
    BY <1>2 DEF Live, Calls
  <2>2. \A k \in 1..n : frames'[k].cl = frames[k].cl
    BY <1>1
  <2>3. \A k \in DOMAIN frames' : frames'[k].cl \in IF k = 1 THEN {Main} ELSE W
    <3> TAKE k \in DOMAIN frames'
    <3>1. CASE k = n + 1
      BY <1>1, <3>1
    <3>2. CASE k \in 1..n
      BY <2>1, <2>2, <3>2
    <3> QED BY <1>1, <3>1, <3>2
  <2>4. frames' \in Seq(Frames(W))'
    BY <1>1 DEF Frames, Main, Closure
  <2>5. constructions' \in Seq(Constructions(W))'
    BY DEF Constructions, Dues, Slots
  <2> QED BY <2>3, <2>4, <2>5 DEF Calls, Main, Closure
<1>6. \A k \in 1..n - 1 : Balance(k)' = Balance(k)
  <2> TAKE k \in 1..n - 1
  <2>1. frames'[k] = frames[k]
    BY <1>1
  <2> QED BY <2>1, SameBalance
<1>7. Balance(n)' = BalanceOf(callers[n])
  <2>1. PICK it : it = callers[n] /\ frames'[n] = it
    BY <1>1
  <2>2. Balance(n)' = BalanceOf(it)
    BY <2>1, BalanceAt
  <2> QED BY <2>1, <2>2
<1>8. Balance(n + 1)' = fr.base + LocalsOf(fr.cl)
  <2>1. Balance(n + 1)' = BalanceOf(fr)
    BY <1>1, BalanceAt
  <2> QED BY <1>3, <1>4, <2>1 DEF BalanceOf
<1>9. Len(instances) \in Nat /\ Len(instances') \in Nat /\ Len(instances) <= Len(instances')
  BY InstancesCount DEF Live
<1>10. \A k \in DOMAIN frames' : FrameFits(k)'
  <2> TAKE k \in DOMAIN frames'
  <2>1. CASE k \in 1..n - 1
    <3>1. k \in DOMAIN frames /\ frames'[k] = frames[k]
      BY <1>2, <1>a, <2>1
    <3>2. FrameFits(k)
      BY <3>1 DEF Live, Framed
    <3> QED BY <1>9, <3>1, <3>2, FrameKept
  <2>2. CASE k = n
    <3>a. n \in DOMAIN frames
      BY <1>2, <1>a
    <3>1. FrameFits(n)
      BY <3>a DEF Live, Framed
    <3>2. PICK it : it = callers[n] /\ frames'[n] = it
      BY <1>1
    <3>3. it.cl.v = "closure" /\ it.ip \in DOMAIN Depths(CodeOf(it.cl)) /\ it.bound \in 0..Len(instances)
      BY <3>1, <3>2 DEF FrameFits
    <3>4. Depths(CodeOf(it.cl))' = Depths(CodeOf(it.cl))
      BY SameCode
    <3> QED BY <2>2, <3>2, <3>3, <3>4 DEF FrameFits
  <2>3. CASE k = n + 1
    <3>1. Depths(CodeOf(fr.cl))' = Depths(CodeOf(fr.cl))
      BY SameCode
    <3> QED BY <1>1, <1>4, <2>3, <3>1 DEF FrameFits
  <2> QED BY <1>1, <2>1, <2>2, <2>3
<1>11. ConstructionDepths' = ConstructionDepths
  <2>1. \A c \in DOMAIN constructions : constructions'[c].depth = constructions[c].depth
    BY DEF GoesOn
  <2> QED BY <2>1 DEF ConstructionDepths
<1>12. \A k \in 1..Len(frames') - 1 : k \notin ConstructionDepths' => CallerFits(k)'
  <2> TAKE k \in 1..Len(frames') - 1
  <2>1. CASE k \in 1..n - 1
    <3>1. k \in 1..Len(frames) - 1
      BY <2>1
    <3>2. k \notin ConstructionDepths => CallerFits(k)
      BY <3>1 DEF Live, Framed
    <3>3. k \in 1..n /\ k + 1 \in 1..n
      BY <2>1
    <3>4. frames'[k] = frames[k] /\ frames'[k + 1] = callers[k + 1]
      BY <1>1, <1>a, <2>1, <3>3
    <3>5. callers[k + 1].base = frames[k + 1].base
      BY <1>a, <3>3
    <3> QED BY <1>11, <3>2, <3>4, <3>5, CallerKept
  <2>2. CASE k = n
    BY <1>1, <1>7, <1>11, <2>2 DEF CallerFits
  <2> QED BY <1>1, <2>1, <2>2
<1>13. \A c \in DOMAIN constructions' : ConstructionFits(c)'
  <2> TAKE c \in DOMAIN constructions'
  <2>1. PICK d : d = constructions[c].depth
    OBVIOUS
  <2>2. ConstructionFits(c) /\ d \in 1..n /\ GoesOn(c)
    BY <2>1, DepthIsNat
  <2>3. Balance(d)' = Balance(d)
    <3>1. CASE d \in 1..n - 1
      BY <1>6, <3>1
    <3>2. CASE d = n
      <4>1. callers[n] = frames[n]
        BY <2>1, <3>2
      <4>2. frames'[n] = frames[n]
        BY <1>1, <4>1
      <4> QED BY <3>2, <4>2, SameBalance
    <3> QED BY <2>2, <3>1, <3>2
  <2>4. d \in 1..Len(frames')
    BY <1>1, <2>2
  <2> QED BY <1>9, <2>1, <2>2, <2>3, <2>4, ConstructionGoesOn
<1>14. \A c, d \in DOMAIN constructions' : c < d => constructions'[c].depth < constructions'[d].depth
  <2>1. \A c, d \in DOMAIN constructions : c < d => constructions[c].depth < constructions[d].depth
    BY DEF Live, Framed
  <2> QED BY <2>1 DEF GoesOn
<1>15. Framed'
  <2>1. frames' # <<>>
    BY <1>1
  <2> QED BY <1>10, <1>12, <1>13, <1>14, <2>1 DEF Framed
<1>16. StackBalanced'
  <2>1. Len(frames)' = n + 1
    BY <1>1
  <2> QED BY <1>8, <2>1 DEF StackBalanced, Balance
<1> QED BY <1>5, <1>15, <1>16

(* The defaults that stand in for missing arguments are values.             *)
LEMMA MissingDefaultsAreValues ==
    ASSUME Runnable, NEW W, Live(W), NEW f \in DOMAIN bytecode.functions, NEW fn,
           fn = bytecode.functions[f], NEW given \in Nat
    PROVE  /\ MissingDefaults(fn, given) \in Seq(W)
           /\ fn.defaults \in Seq(W) /\ Len(fn.params) \in Nat /\ DOMAIN fn.params = 1..Len(fn.params)
           /\ fn.numLocals \in Nat /\ Len(fn.params) <= fn.numLocals
<1>1. /\ IsSequence(fn.params) /\ IsSequence(fn.defaults) /\ fn.numLocals \in Nat
      /\ Len(fn.params) <= fn.numLocals
  BY DEF Runnable, FunctionWellFormed
<1>2. fn.defaults \in Seq(W)
  <2>1. \A i \in DOMAIN fn.defaults : fn.defaults[i] \in W
    BY DEF Live, World
  <2>2. PICK S : fn.defaults \in Seq(S)
    BY <1>1 DEF IsSequence
  <2>3. fn.defaults \in [1..Len(fn.defaults) -> W] /\ Len(fn.defaults) \in Nat
    BY <2>1, <2>2
  <2> QED BY <2>3
<1>3. Len(fn.params) \in Nat /\ DOMAIN fn.params = 1..Len(fn.params)
  BY <1>1, Sequences
<1>4. MissingDefaults(fn, given) \in Seq(W)
  <2>1. PICK p \in Nat, ds \in Seq(W) : p = Len(fn.params) /\ ds = fn.defaults
    BY <1>2, <1>3
  <2>2. p - given > 0 /\ p - given <= Len(ds) => SubSeq(ds, Len(ds) - (p - given) + 1, Len(ds)) \in Seq(W)
    OBVIOUS
  <2>3. <<>> \in Seq(W)
    OBVIOUS
  <2> QED BY <2>1, <2>2, <2>3 DEF MissingDefaults
<1> QED BY <1>1, <1>2, <1>3, <1>4

(* A push that may be into the slot below the stack, where the code writes  *)
(* what a class in slot 0 gives.                                            *)
LEMMA PushOver ==
    ASSUME NEW V, stack \in [Slots -> V], NEW at \in -1..StackSize - 1, NEW v \in V, Push(at, <<v>>)
    PROVE  sp' = at + 1 /\ sp' \in 0..StackSize /\ stack' \in [Slots -> V]
<1>1. Len(<<v>>) = 1 /\ <<v>>[1] = v /\ Floor(StackSize - at) >= 1
  BY MachineAssumption DEF Floor
<1>2. /\ stack' = [i \in DOMAIN stack |-> IF i >= at /\ i < at + 1 THEN <<v>>[i - at + 1] ELSE stack[i]]
      /\ sp' = at + 1
  BY <1>1, MachineAssumption DEF Push, Floor
<1>3. \A i \in Slots : i >= at /\ i < at + 1 => i - at + 1 = 1
  BY MachineAssumption DEF Slots
<1>4. \A i \in Slots : (IF i >= at /\ i < at + 1 THEN <<v>>[i - at + 1] ELSE stack[i]) \in V
  BY <1>1, <1>3
<1> QED BY <1>2, <1>4, MachineAssumption

(* What Enter does: nothing but a push, or a frame over the callee.         *)
LEMMA EnterFacts ==
    ASSUME Runnable, NEW W, Live(W), NEW cl \in W, cl.v = "closure", NEW bound,
           NEW at \in -1..StackSize - 1, NEW args \in Seq(W), NEW mismatch \in W, NEW callers,
           Enter(cl, bound, at, args, mismatch, callers)
    PROVE  \/ /\ frames' = callers /\ Push(at, <<mismatch>>)
           \/ /\ stack' \in [Slots -> W]
              /\ sp' < StackSize => /\ frames' = Append(callers, Frame(cl, at + 1, bound))
                                    /\ sp' = at + 1 + LocalsOf(cl) /\ sp' \in 0..StackSize
                                    /\ at + 1 \in 0..StackSize
<1>1. PICK fn : fn = FunctionOf(cl)
  OBVIOUS
<1>2. cl.fn \in DOMAIN bytecode.functions /\ fn = bytecode.functions[cl.fn]
  BY <1>1, ClosureCode DEF FunctionOf, Live
<1>3. PICK all : all = args \o MissingDefaults(fn, Len(args))
  OBVIOUS
<1>4. all \in Seq(W) /\ Len(all) \in Nat
  <2>1. MissingDefaults(fn, Len(args)) \in Seq(W)
    BY <1>2, MissingDefaultsAreValues
  <2> QED BY <1>3, <2>1
<1>5. PICK top : top = Min({at + 1 + Len(all), StackSize})
  OBVIOUS
<1>6. top \in Int /\ top <= at + 1 + Len(all) /\ top <= StackSize /\ (top = at + 1 + Len(all) \/ top = StackSize)
  <2>1. PICK a \in Int, b \in Int : a = at + 1 + Len(all) /\ b = StackSize
    BY <1>4, MachineAssumption
  <2>2. top = Min({a, b})
    BY <1>5, <2>1
  <2>3. top \in Int /\ top <= a /\ top <= b /\ (top = a \/ top = b)
    BY <2>2, MinOf
  <2> QED BY <2>1, <2>3
<1>7. CASE Len(all) # Len(fn.params)
  BY <1>1, <1>3, <1>7 DEF Enter
<1>8. CASE Len(all) = Len(fn.params)
  <2>1. /\ stack' = [i \in DOMAIN stack |->
                          IF i > at /\ i <= at + Len(all) THEN all[i - at] ELSE stack[i]]
        /\ sp' = top - Len(all) + Max({fn.numLocals, 1})
        /\ frames' = Append(callers, Frame(cl, top - Len(all), bound))
    BY <1>1, <1>3, <1>5, <1>8 DEF Enter
  <2>2. stack' \in [Slots -> W]
    <3>1. stack \in [Slots -> W]
      BY LiveFacts
    <3>2. \A i \in Slots : i > at /\ i <= at + Len(all) => all[i - at] \in W
      BY <1>4, MachineAssumption DEF Slots
    <3> QED BY <2>1, <3>1, <3>2
  <2>3. /\ fn.numLocals \in Nat /\ Len(all) <= fn.numLocals
        /\ LocalsOf(cl) = Max({fn.numLocals, 1}) /\ LocalsOf(cl) >= fn.numLocals /\ LocalsOf(cl) \in Nat
    BY <1>1, <1>2, <1>8, MissingDefaultsAreValues, FunctionCode
  <2>4. ASSUME sp' < StackSize
        PROVE  /\ frames' = Append(callers, Frame(cl, at + 1, bound))
               /\ sp' = at + 1 + LocalsOf(cl) /\ sp' \in 0..StackSize
               /\ at + 1 \in 0..StackSize
    <3>1. sp' = top - Len(all) + LocalsOf(cl)
      BY <2>1, <2>3
    <3>2. top # StackSize
      BY <1>4, <2>3, <2>4, <3>1, MachineAssumption
    <3>3. top - Len(all) = at + 1
      BY <1>4, <1>6, <3>2
    <3>4. sp' = at + 1 + LocalsOf(cl) /\ frames' = Append(callers, Frame(cl, at + 1, bound))
      BY <2>1, <3>1, <3>3
    <3>5. sp' \in 0..StackSize
      BY <2>3, <2>4, <3>4, MachineAssumption
    <3>6. at + 1 \in 0..StackSize
      BY MachineAssumption
    <3> QED BY <3>4, <3>5, <3>6
  <2> QED BY <2>2, <2>4
<1> QED BY <1>7, <1>8

(* The callers of a frame that is entered by an instruction.                *)
LEMMA NextFramesFacts ==
    ASSUME Runnable, NEW W, Live(W), Ready, NEW n, n = Len(frames),
           Current.ip + 1 \in Successors(Instruction, Current.ip)
    PROVE  /\ n \in Nat \ {0} /\ NextFrames \in Seq(Frames(W)) /\ Len(NextFrames) = n
           /\ \A k \in 1..n - 1 : NextFrames[k] = frames[k]
           /\ NextFrames[n].cl = frames[n].cl /\ NextFrames[n].base = frames[n].base
           /\ NextFrames[n].bound = frames[n].bound
           /\ NextFrames[n].ip \in DOMAIN Depths(CodeOf(frames[n].cl))
           /\ BalanceOf(NextFrames[n]) = sp + Growth(Instruction)
           /\ Next1 <=> frames' = NextFrames
<1>1. /\ n \in Nat \ {0} /\ n \in DOMAIN frames /\ Current = frames[n] /\ Current \in Frames(W)
      /\ frames \in Seq(Frames(W))
      /\ Operands \in Nat
      /\ sp = Current.base + LocalsOf(Current.cl) + Operands
  BY Fetched DEF Live, Calls
<1>2. PICK j : j = Current.ip + 1
  OBVIOUS
<1>3. /\ j \in DOMAIN Depths(CodeOf(Current.cl)) /\ j \in Nat
      /\ Depths(CodeOf(Current.cl))[j] = Operands + Growth(Instruction)
  BY <1>2, Fetched
<1>4. NextFrames = [frames EXCEPT ![n].ip = j]
  BY <1>1, <1>2 DEF NextFrames
<1>5. NextFrames[n] = [frames[n] EXCEPT !.ip = j] /\ NextFrames[n] \in Frames(W)
  BY <1>1, <1>3, <1>4 DEF Frames
<1>6. /\ NextFrames[n].cl = frames[n].cl /\ NextFrames[n].base = frames[n].base
      /\ NextFrames[n].bound = frames[n].bound /\ NextFrames[n].ip = j
  BY <1>1, <1>5 DEF Frames
<1>7. NextFrames \in Seq(Frames(W)) /\ Len(NextFrames) = n /\ \A k \in 1..n - 1 : NextFrames[k] = frames[k]
  <2>1. NextFrames = [frames EXCEPT ![n] = NextFrames[n]]
    BY <1>4, <1>5
  <2> QED BY <1>1, <1>5, <2>1
<1>8. BalanceOf(NextFrames[n]) = sp + Growth(Instruction)
  <2>1. BalanceOf(NextFrames[n]) =
            Current.base + LocalsOf(Current.cl) + (Operands + Growth(Instruction))
    BY <1>1, <1>3, <1>6 DEF BalanceOf
  <2>2. Current.base \in Nat /\ LocalsOf(Current.cl) \in Nat /\ Growth(Instruction) \in Int
    BY CurrentFits, Fetched, GrowthIsInt DEF Fits
  <2> QED BY <1>1, <2>1, <2>2
<1>9. Next1 <=> frames' = NextFrames
  BY <1>2, <1>4 DEF Next1, GoTo
<1> QED BY <1>1, <1>3, <1>6, <1>7, <1>8, <1>9

(* A call in a frame.                                                       *)
LEMMA EnterLives ==
    ASSUME Runnable, NEW W, Live(W), MeetsNoError', NEW ops, Executes(ops),
           Instruction.op \in {"CALL", "CALL_KW"}, UNCHANGED <<status, globals, objectVars>>,
           NEW at \in 0..StackSize - 1, at + 1 = sp + Growth(Instruction),
           NEW cl \in W, cl.v = "closure", NEW bound \in 0..Len(instances),
           NEW args \in Seq(W), NEW mismatch \in W,
           Enter(cl, bound, at, args, mismatch, NextFrames)
    PROVE  \E V : Live(V)'
<1>1. Ready /\ status = "running" /\ UNCHANGED bytecode /\ executed' \in 0..MaxInstructions
  BY ExecutesFacts
<1>2. PICK n : n = Len(frames)
  OBVIOUS
<1>3. Current.ip + 1 \in Successors(Instruction, Current.ip)
  BY DEF Successors
<1>4. PICK callers : callers = NextFrames
  OBVIOUS
<1>5. /\ n \in Nat \ {0} /\ callers \in Seq(Frames(W)) /\ Len(callers) = n
      /\ \A k \in 1..n - 1 : callers[k] = frames[k]
      /\ callers[n].cl = frames[n].cl /\ callers[n].base = frames[n].base
      /\ callers[n].bound = frames[n].bound
      /\ callers[n].ip \in DOMAIN Depths(CodeOf(frames[n].cl))
      /\ BalanceOf(callers[n]) = sp + Growth(Instruction)
      /\ Next1 <=> frames' = callers
  BY <1>1, <1>2, <1>3, <1>4, NextFramesFacts
<1>6. \/ frames' = callers /\ Push(at, <<mismatch>>)
      \/ /\ stack' \in [Slots -> W]
         /\ sp' < StackSize => /\ frames' = Append(callers, Frame(cl, at + 1, bound))
                               /\ sp' = at + 1 + LocalsOf(cl) /\ sp' \in 0..StackSize
                               /\ at + 1 \in 0..StackSize
  <2>1. at \in -1..StackSize - 1
    OBVIOUS
  <2>2. Enter(cl, bound, at, args, mismatch, callers)
    BY <1>4
  <2> QED BY <2>1, <2>2, EnterFacts
<1>7. UNCHANGED <<lists, instances, fieldIndex, constructions, globals, bytecode>>
  BY <1>1 DEF objectVars, heapVars, memberVars
<1>8. CASE frames' = callers /\ Push(at, <<mismatch>>)
  <2>1. sp' = sp + Growth(Instruction) /\ sp' \in 0..StackSize /\ stack' \in [Slots -> W]
    BY <1>8, PushOne, LiveFacts
  <2>2. PICK new : new = {}
    OBVIOUS
  <2>3. stack' \in [Slots -> W \union new] /\ \A u \in new : Joins(u, W, Callable, DOMAIN lists, Len(instances))
    BY <2>1, <2>2
  <2>4. status' \in {"running", "halted", "crashed"} /\ UNCHANGED <<globals, objectVars>>
        /\ Instruction.op \notin {"JUMP", "RETURN_VALUE", "RETURN"} /\ Next1
    BY <1>1, <1>5, <1>8
  <2> QED BY <2>1, <2>3, <2>4, StepsToNext
<1>9. CASE ~(frames' = callers /\ Push(at, <<mismatch>>))
  <2>1. sp' < StackSize /\ status' = "running"
    BY <1>1 DEF MeetsNoError, HasRoom
  <2>2. PICK fr : fr = Frame(cl, at + 1, bound)
    OBVIOUS
  <2>3. /\ frames' = Append(callers, fr) /\ sp' = at + 1 + LocalsOf(cl) /\ sp' \in 0..StackSize
        /\ at + 1 \in 0..StackSize /\ stack' \in [Slots -> W]
    BY <1>6, <1>9, <2>1, <2>2
  <2>4. /\ fr \in Frames(W) /\ fr.cl = cl /\ fr.ip = 0 /\ fr.base = at + 1 /\ fr.bound = bound
    <3>1. bound \in Nat
      BY InstancesCount DEF Live
    <3> QED BY <2>2, <2>3, <3>1 DEF Frame, Frames
  <2>5. \A c \in DOMAIN constructions : GoesOn(c) /\ constructions[c].depth # n
    <3>1. \A c \in DOMAIN constructions : constructions[c].depth < n
      BY <1>1, <1>2, Fetched
    <3>2. \A c \in DOMAIN constructions : constructions[c].depth \in Nat
      BY DepthIsNat
    <3> QED BY <1>5, <1>7, <3>1, <3>2 DEF GoesOn
  <2>6. fr.base = BalanceOf(callers[n]) /\ fr.base >= 1
    BY <1>5, <2>4
  <2>7. DOMAIN constructions' = DOMAIN constructions /\ constructions' \in Seq(Constructions(W))
    BY <1>7 DEF Live, Calls
  <2>8. Calls(W)' /\ Framed' /\ StackBalanced'
    BY <1>1, <1>2, <1>5, <1>7, <2>1, <2>3, <2>4, <2>5, <2>6, <2>7, Enters
  <2>9. World(W)'
    BY <1>7, WorldKept DEF Live
  <2>10. Data(W)'
    <3>1. UNCHANGED <<bytecode, heapVars>> /\ globals' \in [DOMAIN globals' -> W]
      BY <1>7 DEF heapVars, memberVars, Live, Data
    <3> QED BY <2>3, <3>1, DataKept DEF Live
  <2> QED BY <2>8, <2>9, <2>10 DEF Live
<1> QED BY <1>8, <1>9

(* A call of a closure or of a bound method keeps the invariant.            *)
LEMMA CallObjectLives ==
    ASSUME Runnable, NEW W, Live(W), MeetsNoError', NEW ops, Executes(ops),
           Instruction.op \in {"CALL", "CALL_KW"}, UNCHANGED <<status, globals, objectVars>>,
           NEW at \in 0..StackSize - 1, at + 1 = sp + Growth(Instruction),
           NEW function \in W, function.v \in {"closure", "bound"}, NEW args \in Seq(W),
           CallFunctionObject(function, at, args)
    PROVE  \E V : Live(V)'
<1>1. CASE function.v = "closure"
  <2>1. PICK bound, mismatch : bound = 0 /\ mismatch = ErrorObject
    OBVIOUS
  <2>2. bound \in 0..Len(instances) /\ mismatch \in W
    BY <2>1, PlainResults, InstancesCount DEF Live
  <2>3. Enter(function, bound, at, args, mismatch, NextFrames)
    BY <1>1, <2>1 DEF CallFunctionObject
  <2> QED BY <1>1, <2>2, <2>3, EnterLives
<1>2. CASE function.v = "bound"
  <2>1. PICK cl, bound, mismatch : cl = function.cl /\ bound = function.owner /\ mismatch = NullObject
    OBVIOUS
  <2>2. cl \in W /\ cl.v = "closure" /\ bound \in 1..Len(instances)
    BY <1>2, <2>1 DEF Live, World, Valid
  <2>3. bound \in 0..Len(instances) /\ mismatch \in W
    BY <2>1, <2>2, PlainResults, InstancesCount DEF Live
  <2>4. Enter(cl, bound, at, args, mismatch, NextFrames)
    BY <1>2, <2>1 DEF CallFunctionObject
  <2> QED BY <2>2, <2>3, <2>4, EnterLives
<1> QED BY <1>1, <1>2

(* A call with positional arguments.                                        *)
LEMMA CallFunctionLives ==
    ASSUME Runnable, NEW W, Live(W), MeetsNoError', CallFunction
    PROVE  \E V : Live(V)'
<1>1. /\ Executes({"CALL"}) /\ Callee.v \in {"closure", "bound"}
      /\ CallFunctionObject(Callee, CalleeIndex, OnStack)
      /\ UNCHANGED <<status, globals, objectVars>>
  BY DEF CallFunction
<1>2. PICK at \in 0..StackSize - 1, function \in W, args \in Seq(W) :
          at = CalleeIndex /\ function = Callee /\ args = OnStack
  BY <1>1, CalleeOnStack
<1>3. at + 1 = sp + Growth(Instruction) /\ Instruction.op \in {"CALL", "CALL_KW"}
  BY <1>1, <1>2, CalleeOnStack
<1>4. CallFunctionObject(function, at, args) /\ function.v \in {"closure", "bound"}
  BY <1>1, <1>2
<1> QED BY <1>1, <1>3, <1>4, CallObjectLives

-----------------------------------------------------------------------------
(* Instances are made.                                                      *)

(* A sequence with an element more.                                         *)
LEMMA FirstIsThere ==
    ASSUME NEW S, NEW s \in Seq(S), NEW e
    PROVE  /\ Append(s, e) # <<>> /\ Len(Append(s, e)) = Len(s) + 1
           /\ DOMAIN Append(s, e) = 1..Len(s) + 1
           /\ Append(s, e)[Len(s) + 1] = e
           /\ \A i \in DOMAIN s : Append(s, e)[i] = s[i]
           /\ DOMAIN s = 1..Len(s) /\ Len(s) \in Nat
  OBVIOUS

(* What is due in a construction that begins.                               *)
DueOf(constructor, initializers, args) ==
    [i \in DOMAIN initializers |-> [fn |-> initializers[i], args |-> <<>>]]
        \o IF constructor = 0 THEN <<>> ELSE <<[fn |-> constructor, args |-> args]>>

(* What is due in a construction can be called.                             *)
LEMMA DueFacts ==
    ASSUME Runnable, NEW W, Live(W), NEW class \in DOMAIN bytecode.classes, NEW args \in Seq(W),
           NEW constructor, constructor = Method(class, "constructor"),
           NEW initializers, initializers = Initializers(class),
           NEW due, due = DueOf(constructor, initializers, args)
    PROVE  due \in Seq(Dues(W)) /\ \A d \in DOMAIN due : 0 \in Callable[due[d].fn]
<1>1. /\ initializers \in Seq(DOMAIN bytecode.functions)
      /\ \A i \in DOMAIN initializers : IsFunction(initializers[i], 0)
  BY DEF Runnable, ClassWellFormed, ToSet
<1> DEFINE D == {d \in Dues(W) : 0 \in Callable[d.fn]}
<1>2. <<>> \in Seq(W)
  OBVIOUS
<1>3. \A i \in DOMAIN initializers : [fn |-> initializers[i], args |-> <<>>] \in D
  <2> TAKE i \in DOMAIN initializers
  <2>1. initializers[i] \in DOMAIN bytecode.functions /\ 0 \in Callable[initializers[i]]
    BY <1>1 DEF Callable
  <2> QED BY <1>2, <2>1 DEF Dues
<1>4. [i \in DOMAIN initializers |-> [fn |-> initializers[i], args |-> <<>>]] \in Seq(D)
  <2>1. PICK n \in Nat : DOMAIN initializers = 1..n
    BY <1>1
  <2>2. PICK f : f = [i \in DOMAIN initializers |-> [fn |-> initializers[i], args |-> <<>>]]
    OBVIOUS
  <2>3. f = [i \in 1..n |-> f[i]] /\ \A i \in 1..n : f[i] \in D
    <3> HIDE DEF D
    <3>1. DOMAIN f = 1..n /\ f = [i \in DOMAIN f |-> f[i]]
      BY <2>1, <2>2
    <3>2. \A i \in 1..n : f[i] = [fn |-> initializers[i], args |-> <<>>]
      BY <2>1, <2>2
    <3> QED BY <1>3, <2>1, <3>1, <3>2
  <2>4. f \in [1..n -> D]
    <3> HIDE DEF D
    <3> QED BY <2>3
  <2>5. f \in Seq(D)
    <3> HIDE DEF D
    <3> QED BY <2>4
  <2> QED BY <2>2, <2>5
<1>5. constructor # 0 => [fn |-> constructor, args |-> args] \in D
  <2> SUFFICES ASSUME constructor # 0 PROVE [fn |-> constructor, args |-> args] \in D
    OBVIOUS
  <2>1. constructor \in DOMAIN bytecode.functions /\ 0 \in Callable[constructor]
    BY MethodIsCallable
  <2> QED BY <2>1 DEF Dues
<1>6. due \in Seq(D)
  <2> HIDE DEF D
  <2>1. (IF constructor = 0 THEN <<>> ELSE <<[fn |-> constructor, args |-> args]>>) \in Seq(D)
    BY <1>5
  <2> QED BY <1>4, <2>1 DEF DueOf
<1>7. \A d \in DOMAIN due : due[d] \in D
  <2> HIDE DEF D
  <2> QED BY <1>6
<1>8. due \in Seq(Dues(W))
  <2>1. D \subseteq Dues(W)
    OBVIOUS
  <2> HIDE DEF D
  <2> QED BY <1>6, <2>1, SeqMonotonic
<1> QED BY <1>7, <1>8

(* The beginning of a construction keeps the invariant: the stack ends      *)
(* below the class.                                                         *)
LEMMA BeginLives ==
    ASSUME Runnable, NEW W, Live(W), NEW ops, Executes(ops),
           Instruction.op \in {"CALL", "CALL_KW"}, UNCHANGED <<status, globals>>,
           NEW at \in 0..StackSize - 1, at + 1 = sp + Growth(Instruction),
           NEW class \in DOMAIN bytecode.classes, NEW args \in Seq(W),
           BeginConstruction(class, at, args)
    PROVE  \E V : Live(V)'
<1>1. Ready /\ status = "running" /\ UNCHANGED bytecode /\ executed' \in 0..MaxInstructions
  BY ExecutesFacts
<1>2. PICK n, callers : n = Len(frames) /\ callers = NextFrames
  OBVIOUS
<1>3. Current.ip + 1 \in Successors(Instruction, Current.ip)
  BY DEF Successors
<1>4. /\ n \in Nat \ {0} /\ callers \in Seq(Frames(W)) /\ Len(callers) = n
      /\ \A k \in 1..n - 1 : callers[k] = frames[k]
      /\ callers[n].cl = frames[n].cl /\ callers[n].base = frames[n].base
      /\ callers[n].bound = frames[n].bound
      /\ callers[n].ip \in DOMAIN Depths(CodeOf(frames[n].cl))
      /\ BalanceOf(callers[n]) = sp + Growth(Instruction)
      /\ Next1 <=> frames' = callers
  BY <1>1, <1>2, <1>3, NextFramesFacts
<1>5. Next1 /\ UNCHANGED <<lists, fieldIndex>>
  BY DEF BeginConstruction
<1>6. PICK constructor, initializers, due, it :
          /\ constructor = Method(class, "constructor") /\ initializers = Initializers(class)
          /\ due = [i \in DOMAIN initializers |-> [fn |-> initializers[i], args |-> <<>>]]
                 \o IF constructor = 0 THEN <<>> ELSE <<[fn |-> constructor, args |-> args]>>
          /\ it = [instance |-> Len(instances) + 1, due |-> due, callee |-> at,
                   kept |-> stack, depth |-> n]
  OBVIOUS
<1>7. \/ /\ Push(at, <<ErrorObject>>) /\ UNCHANGED <<instances, constructions>>
      \/ /\ sp' = at /\ UNCHANGED stack
         /\ instances' = Append(instances, [class |-> class, fields |-> <<>>])
         /\ constructions' = Append(constructions, it)
  BY <1>2, <1>6 DEF BeginConstruction
<1>8. CASE Push(at, <<ErrorObject>>) /\ UNCHANGED <<instances, constructions>>
  <2>1. PICK v \in W : v = ErrorObject
    BY PlainResults
  <2>2. sp' = sp + Growth(Instruction) /\ sp' \in 0..StackSize /\ stack' \in [Slots -> W]
    BY <1>8, <2>1, PushOne, LiveFacts
  <2>3. PICK new : new = {}
    OBVIOUS
  <2>4. stack' \in [Slots -> W \union new] /\ \A u \in new : Joins(u, W, Callable, DOMAIN lists, Len(instances))
    BY <2>2, <2>3
  <2>5. status' \in {"running", "halted", "crashed"} /\ UNCHANGED <<globals, objectVars>>
        /\ Instruction.op \notin {"JUMP", "RETURN_VALUE", "RETURN"}
    BY <1>1, <1>5, <1>8 DEF objectVars, heapVars, memberVars
  <2> QED BY <1>5, <2>2, <2>4, <2>5, StepsToNext
<1>9. CASE /\ sp' = at /\ UNCHANGED stack
           /\ instances' = Append(instances, [class |-> class, fields |-> <<>>])
           /\ constructions' = Append(constructions, it)
  <2>1. instances \in Seq(Objects(W)) /\ constructions \in Seq(Constructions(W)) /\ frames \in Seq(Frames(W))
        /\ DOMAIN frames = 1..n
    BY <1>2 DEF Live, Data, Calls
  <2>2. [class |-> class, fields |-> <<>>] \in Objects(W)
    BY DEF Objects
  <2>3. /\ instances' \in Seq(Objects(W)) /\ Len(instances') = Len(instances) + 1
        /\ Len(instances) \in Nat /\ Len(instances') \in Nat /\ Len(instances) <= Len(instances')
        /\ \A i \in DOMAIN instances' : Len(instances'[i].fields) <= Dynamic
    <3>1. \A i \in DOMAIN instances : Len(instances[i].fields) <= Dynamic
      BY DEF Live, Data
    <3>2. PICK object \in Objects(W) : object = [class |-> class, fields |-> <<>>]
      BY <2>2
    <3>3. Len(object.fields) <= Dynamic
      BY <3>2, DynamicFacts
    <3>4. instances' = Append(instances, object)
      BY <1>9, <3>2
    <3> QED BY <2>1, <3>1, <3>3, <3>4
  <2>4. due \in Seq(Dues(W)) /\ \A d \in DOMAIN due : 0 \in Callable[due[d].fn]
    <3>1. constructor = Method(class, "constructor")
      BY <1>6
    <3>2. initializers = Initializers(class)
      BY <1>6
    <3>3. due = DueOf(constructor, initializers, args)
      BY <1>6 DEF DueOf
    <3> QED BY <3>1, <3>2, <3>3, DueFacts
  <2>5. it \in Constructions(W)
    <3>1. stack \in [Slots -> W] /\ at \in Slots
      BY LiveFacts DEF Slots
    <3> QED BY <1>4, <1>6, <2>3, <2>4, <3>1 DEF Constructions
  <2>6. /\ constructions' \in Seq(Constructions(W)) /\ Len(constructions') = Len(constructions) + 1
        /\ DOMAIN constructions' = 1..Len(constructions) + 1 /\ Len(constructions) \in Nat
        /\ constructions'[Len(constructions) + 1] = it
        /\ \A c \in DOMAIN constructions : constructions'[c] = constructions[c]
        /\ DOMAIN constructions = 1..Len(constructions)
    BY <1>9, <2>1, <2>5
  <2>7. frames' = callers
    BY <1>4, <1>5
  <2>8. PICK new : new = {}
    OBVIOUS
  <2>9. World(W)'
    <3>1. W = W \union new /\ \A v \in new : Joins(v, W, Callable, DOMAIN lists', Len(instances'))
      BY <2>8
    <3>2. DOMAIN lists \subseteq DOMAIN lists' /\ World(W)
      BY <1>5 DEF Live
    <3> QED BY <1>1, <2>3, <3>1, <3>2, WorldWith
  <2>10. Data(W)'
    <3>1. /\ stack' \in [Slots -> W] /\ globals' \in [DOMAIN globals' -> W]
          /\ lists' \in [DOMAIN lists' -> Seq(W)] /\ IsFiniteSet(DOMAIN lists')
          /\ DOMAIN fieldIndex' = DOMAIN bytecode.classes
          /\ \A k \in DOMAIN fieldIndex' : \A name \in DOMAIN fieldIndex'[k] : fieldIndex'[k][name] \in 0..Dynamic - 1
      BY <1>5, <1>9 DEF Live, Data
    <3>2. Objects(W)' = Objects(W)
      BY <1>1 DEF Objects
    <3> QED BY <1>1, <2>3, <3>1, <3>2 DEF Data, Slots
  <2>11. \A k \in 1..n : callers[k].cl = frames[k].cl /\ callers[k].base = frames[k].base
    <3> TAKE k \in 1..n
    <3>1. k \in 1..n - 1 \/ k = n
      BY <1>4
    <3> QED BY <1>4, <3>1
  <2>12. Calls(W)'
    <3>1. \A k \in 1..n : frames[k].cl \in IF k = 1 THEN {Main} ELSE W
      BY <2>1 DEF Live, Calls
    <3>2. \A k \in DOMAIN frames' : frames'[k].cl \in IF k = 1 THEN {Main} ELSE W
      <4>1. DOMAIN frames' = 1..n
        BY <1>4, <2>7
      <4> QED BY <2>7, <2>11, <3>1, <4>1
    <3>3. frames' \in Seq(Frames(W))'
      BY <1>4, <2>7 DEF Frames, Main, Closure
    <3>4. constructions' \in Seq(Constructions(W))'
      BY <1>1, <2>6 DEF Constructions, Dues, Slots
    <3> QED BY <3>2, <3>3, <3>4 DEF Calls, Main, Closure
  <2>13. \A k \in 1..n - 1 : Balance(k)' = Balance(k) /\ frames'[k] = frames[k]
    <3> TAKE k \in 1..n - 1
    <3>1. frames'[k] = frames[k]
      BY <1>4, <2>7
    <3> QED BY <1>1, <3>1, SameBalance
  <2>14. Balance(n)' = at + 1
    <3>1. PICK fr : fr = callers[n] /\ frames'[n] = fr
      BY <2>7
    <3>2. Balance(n)' = BalanceOf(fr)
      BY <1>1, <3>1, BalanceAt
    <3> QED BY <1>4, <3>1, <3>2
  <2>15. \A k \in DOMAIN frames' : FrameFits(k)'
    <3> TAKE k \in DOMAIN frames'
    <3>1. k \in 1..n - 1 \/ k = n
      BY <1>4, <2>7
    <3>2. CASE k \in 1..n - 1
      <4>a. \A j \in 1..n - 1 : j \in 1..n
        BY <1>4
      <4>1. k \in DOMAIN frames /\ frames'[k] = frames[k]
        BY <2>1, <2>13, <3>2, <4>a
      <4>2. FrameFits(k)
        BY <4>1 DEF Live, Framed
      <4> QED BY <1>1, <2>3, <4>1, <4>2, FrameKept
    <3>3. CASE k = n
      <4>a. n \in DOMAIN frames
        BY <1>4, <2>1
      <4>1. FrameFits(n)
        BY <4>a DEF Live, Framed
      <4>2. PICK fr : fr = callers[n] /\ frames'[n] = fr
        BY <2>7
      <4>3. fr.cl.v = "closure" /\ fr.ip \in DOMAIN Depths(CodeOf(fr.cl)) /\ fr.bound \in 0..Len(instances)
        BY <1>4, <4>1, <4>2 DEF FrameFits
      <4>4. Depths(CodeOf(fr.cl))' = Depths(CodeOf(fr.cl))
        BY <1>1, SameCode
      <4>5. fr.bound \in 0..Len(instances')
        BY <2>3, <4>3
      <4> QED BY <3>3, <4>2, <4>3, <4>4, <4>5 DEF FrameFits
    <3> QED BY <3>1, <3>2, <3>3
  <2>16. \A k \in 1..Len(frames') - 1 : k \notin ConstructionDepths' => CallerFits(k)'
    <3> TAKE k \in 1..Len(frames') - 1
    <3>1. k \in 1..n - 1
      BY <1>4, <2>7
    <3>2. k \in ConstructionDepths => k \in ConstructionDepths'
      <4>1. \A c \in DOMAIN constructions : c \in DOMAIN constructions' /\ constructions'[c].depth = constructions[c].depth
        BY <2>6
      <4> QED BY <4>1 DEF ConstructionDepths
    <3>3. k \notin ConstructionDepths => CallerFits(k)
      BY <1>2, <3>1 DEF Live, Framed
    <3>4. k + 1 \in 1..n
      <4>1. \A j \in 1..n - 1 : j + 1 \in 1..n
        BY <1>4
      <4> QED BY <3>1, <4>1
    <3>5. frames'[k + 1].base = frames[k + 1].base /\ frames'[k] = frames[k]
      BY <2>7, <2>11, <2>13, <3>1, <3>4
    <3> QED BY <1>1, <3>2, <3>3, <3>5, CallerKept
  <2>17. \A c \in DOMAIN constructions : constructions[c].depth \in 1..n - 1 /\ ConstructionFits(c)
    <3> TAKE c \in DOMAIN constructions
    <3>1. PICK d : d = constructions[c].depth
      OBVIOUS
    <3>2. d \in 1..n /\ d < n /\ ConstructionFits(c)
      BY <1>1, <1>2, <3>1, DepthIsNat, Fetched
    <3> QED BY <1>4, <3>1, <3>2
  <2>18. \A c \in DOMAIN constructions' : ConstructionFits(c)'
    <3> TAKE c \in DOMAIN constructions'
    <3>1. CASE c \in DOMAIN constructions
      <4>1. PICK d : d = constructions[c].depth
        OBVIOUS
      <4>2. d \in 1..n - 1 /\ ConstructionFits(c)
        BY <2>17, <3>1, <4>1
      <4>3. Balance(d)' = Balance(d) /\ d \in 1..Len(frames')
        BY <1>4, <2>7, <2>13, <4>2
      <4>4. constructions'[c] = constructions[c]
        BY <2>6, <3>1
      <4> QED BY <1>1, <2>3, <4>1, <4>2, <4>3, <4>4, ConstructionKept
    <3>2. CASE c = Len(constructions) + 1
      <4>1. constructions'[c] = it
        BY <2>6, <3>2
      <4>2. it.instance \in 1..Len(instances') /\ it.callee = at /\ it.depth = n /\ it.due = due
        BY <1>6, <2>3
      <4>3. n \in 1..Len(frames')
        BY <1>4, <2>7
      <4>4. Callable' = Callable
        BY <1>1, SameCallable
      <4>5. it.callee + 1 = Balance(it.depth)'
        BY <2>14, <4>2
      <4> QED BY <2>4, <4>1, <4>2, <4>3, <4>4, <4>5 DEF ConstructionFits
    <3> QED BY <2>6, <3>1, <3>2
  <2>19. \A c, d \in DOMAIN constructions' : c < d => constructions'[c].depth < constructions'[d].depth
    <3> TAKE c, d \in DOMAIN constructions'
    <3>1. c \in Nat /\ d \in Nat
      BY <2>6
    <3>2. CASE d \in DOMAIN constructions
      <4>1. c < d => c \in DOMAIN constructions
        BY <2>6, <3>1, <3>2
      <4>2. c < d => constructions[c].depth < constructions[d].depth
        BY <3>2, <4>1 DEF Live, Framed
      <4> QED BY <2>6, <3>2, <4>1, <4>2
    <3>3. CASE d = Len(constructions) + 1
      <4>1. c < d => c \in DOMAIN constructions
        BY <2>6, <3>1, <3>3
      <4>2. c < d => constructions[c].depth \in 1..n - 1 /\ constructions'[c].depth = constructions[c].depth
        BY <2>6, <2>17, <4>1
      <4>3. constructions'[d].depth = n
        BY <1>6, <2>6, <3>3
      <4>4. c < d => constructions'[c].depth < n
        BY <1>4, <4>2
      <4> QED BY <4>3, <4>4
    <3> QED BY <2>6, <3>2, <3>3
  <2>20. Framed'
    <3>1. frames' # <<>> /\ sp' \in 0..StackSize /\ status' = "running"
      BY <1>1, <1>4, <1>9, <2>7, MachineAssumption
    <3> QED BY <1>1, <2>15, <2>16, <2>18, <2>19, <3>1 DEF Framed
  <2>21. StackBalanced'
    <3>1. ConstructionDue'
      <4>1. constructions' # <<>> /\ Last(constructions') = it
        BY <2>6 DEF Last
      <4>2. Len(frames') = it.depth
        BY <1>4, <1>6, <2>7
      <4> QED BY <4>1, <4>2 DEF ConstructionDue
    <3> QED BY <3>1 DEF StackBalanced
  <2> QED BY <2>9, <2>10, <2>12, <2>20, <2>21 DEF Live
<1> QED BY <1>7, <1>8, <1>9

(* A call of a class keeps the invariant.                                   *)
LEMMA CallClassLives ==
    ASSUME Runnable, NEW W, Live(W), CallClass
    PROVE  \E V : Live(V)'
<1>1. /\ Executes({"CALL"}) /\ Callee.v = "class"
      /\ BeginConstruction(Callee.class, CalleeIndex, OnStack)
      /\ UNCHANGED <<status, globals>>
  BY DEF CallClass
<1>2a. PICK at \in 0..StackSize - 1, args \in Seq(W) : at = CalleeIndex /\ args = OnStack
  BY <1>1, CalleeOnStack
<1>2. PICK class : class = Callee.class
  OBVIOUS
<1>3. at + 1 = sp + Growth(Instruction) /\ Instruction.op \in {"CALL", "CALL_KW"} /\ Callee \in W
  BY <1>1, <1>2a, CalleeOnStack
<1>4. class \in DOMAIN bytecode.classes
  BY <1>1, <1>2, <1>3 DEF Live, World, Valid
<1>5. BeginConstruction(class, at, args)
  BY <1>1, <1>2, <1>2a
<1> QED BY <1>1, <1>3, <1>4, <1>5, BeginLives

-----------------------------------------------------------------------------
(* Keyword arguments.                                                       *)

(* Keyword arguments are values.                                            *)
LEMMA KeywordsAreValues ==
    ASSUME NEW W, Live(W), Instruction.y \in Nat, NEW name \in DOMAIN KeywordArguments
    PROVE  KeywordArguments[name] \in W
<1> DEFINE named == {j \in 0..Instruction.y - 1 : Below(2 * j).s = name}
<1>1. named # {} /\ KeywordArguments[name] = Below(2 * Max(named) + 1)
  BY DEF KeywordArguments
<1>2. PICK n \in Nat : n = Instruction.y
  OBVIOUS
<1>2a. named \in SUBSET (0..n)
  BY <1>2
<1>3. Max(named) \in named
  <2> HIDE DEF named
  <2>1. \E m \in named : \A y \in named : m >= y
    BY <1>1, <1>2a, Greatest
  <2> QED BY <2>1 DEF Max
<1>4. 2 * Max(named) + 1 \in Nat
  <2> HIDE DEF named
  <2>1. PICK m \in named : m = Max(named)
    BY <1>3
  <2>2. m \in 0..n
    BY <1>2a, <2>1
  <2>3. 2 * m + 1 \in Nat
    BY <2>2
  <2> QED BY <2>1, <2>3
<1> HIDE DEF named
<1> QED BY <1>1, <1>4, BelowIsValue

(* So are the arguments that are made of them.                              *)
LEMMA ResolvedIsSequence ==
    ASSUME Runnable, NEW W, Live(W), NEW f \in DOMAIN bytecode.functions, NEW args \in Seq(W), NEW kw,
           \A name \in DOMAIN kw : kw[name] \in W
    PROVE  Resolved(bytecode.functions[f], args, kw) \in Seq(W)
<1>1. PICK fn : fn = bytecode.functions[f]
  OBVIOUS
<1>2. PICK n \in Nat, ds \in Seq(W) : n = Len(fn.params) /\ ds = fn.defaults /\ DOMAIN fn.params = 1..n
  <2>1. 0 \in Nat
    OBVIOUS
  <2>2. fn.defaults \in Seq(W) /\ Len(fn.params) \in Nat /\ DOMAIN fn.params = 1..Len(fn.params)
    BY <1>1, <2>1, MissingDefaultsAreValues
  <2> QED BY <2>2
<1>3. PICK r : r = Resolved(fn, args, kw)
  OBVIOUS
<1>4. r = [i \in 1..n |->
            CASE fn.params[i] \in DOMAIN kw -> kw[fn.params[i]]
              [] fn.params[i] \notin DOMAIN kw /\ i <= Len(args) -> args[i]
              [] OTHER -> IF i > n - Len(ds) THEN ds[i - (n - Len(ds))] ELSE NullPtr]
  BY <1>2, <1>3 DEF Resolved
<1>5. \A i \in 1..n : r[i] \in W
  <2> TAKE i \in 1..n
  <2>1. CASE fn.params[i] \in DOMAIN kw
    BY <1>4, <2>1
  <2>2. CASE fn.params[i] \notin DOMAIN kw /\ i <= Len(args)
    <3>1. r[i] = args[i] /\ i \in DOMAIN args
      BY <1>4, <2>2
    <3> QED BY <3>1
  <2>3. CASE fn.params[i] \notin DOMAIN kw /\ ~(i <= Len(args))
    <3>1. r[i] = IF i > n - Len(ds) THEN ds[i - (n - Len(ds))] ELSE NullPtr
      BY <1>4, <2>3
    <3>2. i > n - Len(ds) => i - (n - Len(ds)) \in DOMAIN ds
      OBVIOUS
    <3> QED BY <3>1, <3>2, PlainResults
  <2> QED BY <2>1, <2>2, <2>3
<1>6. r \in [1..n -> W]
  BY <1>4, <1>5
<1> QED BY <1>1, <1>3, <1>6

(* The function behind a callee exists.                                     *)
LEMMA CalledFunctionExists ==
    ASSUME Runnable, NEW W, Live(W), NEW callee \in W, CalledFunction(callee) # 0
    PROVE  /\ callee.v \in {"closure", "bound", "class"}
           /\ CalledFunction(callee) \in DOMAIN bytecode.functions
           /\ callee.v = "class" => callee.class \in DOMAIN bytecode.classes
<1>1. /\ callee.v = "closure" => callee.fn \in DOMAIN Callable
      /\ callee.v = "bound" => callee.cl \in W /\ callee.cl.v = "closure"
      /\ callee.v = "class" => callee.class \in DOMAIN bytecode.classes
  BY DEF Live, World, Valid
<1>2. DOMAIN Callable = DOMAIN bytecode.functions
  BY DEF Callable
<1>3. CASE callee.v = "closure"
  BY <1>1, <1>2, <1>3 DEF CalledFunction
<1>4. CASE callee.v = "bound"
  <2>1. callee.cl.fn \in DOMAIN bytecode.functions
    BY <1>1, <1>4, ClosureCode DEF Live
  <2> QED BY <1>4, <2>1 DEF CalledFunction
<1>5. CASE callee.v = "class"
  BY <1>1, <1>5, MethodIsCallable DEF CalledFunction
<1>6. callee.v \in {"closure", "bound", "class"}
  BY DEF CalledFunction
<1> QED BY <1>1, <1>3, <1>4, <1>5, <1>6

(* The callee is below the positional arguments and the pairs.              *)
LEMMA KwCalleeOnStack ==
    ASSUME Runnable, NEW W, Live(W), Executes({"CALL_KW"})
    PROVE  /\ Instruction.op = "CALL_KW" /\ Instruction.x \in Nat /\ Instruction.y \in Nat
           /\ CalleeIndex - 2 * Instruction.y \in 0..StackSize - 1
           /\ CalleeIndex - 2 * Instruction.y + 1 = sp + Growth(Instruction)
           /\ stack[CalleeIndex - 2 * Instruction.y] \in W
           /\ [i \in 1..Instruction.x |-> stack[CalleeIndex - 2 * Instruction.y + i]] \in Seq(W)
<1>1. Ready /\ Instruction.op = "CALL_KW"
  BY ExecutesFacts
<1>2. PICK x \in Nat, y \in Nat : x = Instruction.x /\ y = Instruction.y
  BY <1>1, Fetched, DynamicFacts
<1>3. Growth(Instruction) = -(x + 2 * y) /\ Operands >= x + 2 * y + 1
  BY <1>1, <1>2, Fetched DEF Growth, OperandsExist
<1>4. Operands \in Nat
  BY <1>1, OperandsOnStack
<1>5. PICK at : at = CalleeIndex - 2 * y
  OBVIOUS
<1>6. at = sp - 1 - x - 2 * y /\ at \in 0..StackSize - 1 /\ at + 1 = sp - (x + 2 * y)
  <2>1. at = sp - 1 - x - 2 * y
    BY <1>2, <1>5 DEF CalleeIndex
  <2>2. PICK z \in Nat : z = 2 * y
    OBVIOUS
  <2>3. sp \in Nat /\ sp <= StackSize /\ sp >= x + z + 1
    BY <1>1, <1>3, <1>4, <2>2, OperandsOnStack, LiveFacts
  <2> QED BY <2>1, <2>2, <2>3, MachineAssumption
<1>7. stack \in [Slots -> W]
  BY LiveFacts
<1>8. stack[at] \in W
  BY <1>6, <1>7 DEF Slots
<1>9. [i \in 1..x |-> stack[at + i]] \in Seq(W)
  <2>1. \A i \in 1..x : at + i \in Slots
    BY <1>6, LiveFacts, MachineAssumption DEF Slots
  <2> QED BY <1>7, <2>1
<1>10. at + 1 = sp + Growth(Instruction)
  BY <1>2, <1>3, <1>6, LiveFacts
<1> QED BY <1>1, <1>2, <1>5, <1>6, <1>8, <1>9, <1>10

(* What CallKw does, by what it finds.                                      *)
KwOutcome(at, callee, f, resolved) ==
    CASE at < 0 -> PopPush(2 * Instruction.y, <<>>) /\ Next1 /\ UNCHANGED objectVars
      [] at >= 0 /\ f = 0 -> Push(at, <<NullObject>>) /\ Next1 /\ UNCHANGED objectVars
      [] at >= 0 /\ f # 0 /\ Contains(resolved, NullPtr) ->
            Push(at, <<ErrorObject>>) /\ Next1 /\ UNCHANGED objectVars
      [] OTHER ->
            IF callee.v = "class" THEN BeginConstruction(callee.class, at, resolved)
            ELSE CallFunctionObject(callee, at, resolved) /\ UNCHANGED objectVars

(* A call with keyword arguments keeps the invariant.                       *)
LEMMA CallKwLives ==
    ASSUME Runnable, NEW W, Live(W), MeetsNoError', CallKw
    PROVE  \E V : Live(V)'
<1>1. Executes({"CALL_KW"}) /\ UNCHANGED <<status, globals>>
  BY DEF CallKw
<1>2. PICK at, callee, args, f, resolved :
          /\ at = CalleeIndex - 2 * Instruction.y /\ callee = stack[at]
          /\ args = [i \in 1..Instruction.x |-> stack[at + i]]
          /\ f = CalledFunction(callee)
          /\ resolved = Resolved(bytecode.functions[f], args, KeywordArguments)
  OBVIOUS
<1>3. at \in 0..StackSize - 1 /\ at + 1 = sp + Growth(Instruction) /\ callee \in W /\ args \in Seq(W)
      /\ Instruction.op = "CALL_KW" /\ Instruction.y \in Nat
  BY <1>1, <1>2, KwCalleeOnStack
<1>4. \/ \E v \in {NullObject, ErrorObject} : Push(at, <<v>>) /\ Next1 /\ UNCHANGED objectVars
      \/ f # 0 /\ callee.v = "class" /\ BeginConstruction(callee.class, at, resolved)
      \/ f # 0 /\ callee.v # "class" /\ CallFunctionObject(callee, at, resolved) /\ UNCHANGED objectVars
  <2>0. KwOutcome(at, callee, f, resolved)
    BY <1>2, Zenon DEF CallKw, KwOutcome
  <2>1. ~(at < 0) /\ at >= 0
    BY <1>3, MachineAssumption
  <2>2. CASE f = 0
    BY <2>0, <2>1, <2>2, Zenon DEF KwOutcome
  <2>3. CASE f # 0 /\ Contains(resolved, NullPtr)
    BY <2>0, <2>1, <2>3, Zenon DEF KwOutcome
  <2>4. CASE f # 0 /\ ~Contains(resolved, NullPtr)
    BY <2>0, <2>1, <2>4, Zenon DEF KwOutcome
  <2> QED BY <2>2, <2>3, <2>4
<1>5. CASE \E v \in {NullObject, ErrorObject} : Push(at, <<v>>) /\ Next1 /\ UNCHANGED objectVars
  <2>1. PICK v \in W : Push(at, <<v>>)
    BY <1>5, PlainResults
  <2>2. Next1 /\ UNCHANGED objectVars
    BY <1>5
  <2>3. sp' = sp + Growth(Instruction) /\ sp' \in 0..StackSize /\ stack' \in [Slots -> W]
    BY <1>3, <2>1, PushOne, LiveFacts
  <2>4. PICK new : new = {}
    OBVIOUS
  <2>5. stack' \in [Slots -> W \union new] /\ \A u \in new : Joins(u, W, Callable, DOMAIN lists, Len(instances))
    BY <2>3, <2>4
  <2>6. status' \in {"running", "halted", "crashed"} /\ UNCHANGED <<globals, objectVars>>
        /\ Instruction.op \notin {"JUMP", "RETURN_VALUE", "RETURN"}
    BY <1>1, <1>3, <2>2, ExecutesFacts
  <2> QED BY <1>1, <2>2, <2>3, <2>5, <2>6, StepsToNext
<1>6. ASSUME f # 0 PROVE /\ callee.v \in {"closure", "bound", "class"} /\ resolved \in Seq(W)
                         /\ callee.v = "class" => callee.class \in DOMAIN bytecode.classes
  <2>1. f \in DOMAIN bytecode.functions /\ callee.v \in {"closure", "bound", "class"}
        /\ (callee.v = "class" => callee.class \in DOMAIN bytecode.classes)
    BY <1>2, <1>3, <1>6, CalledFunctionExists
  <2>2. \A name \in DOMAIN KeywordArguments : KeywordArguments[name] \in W
    BY <1>3, KeywordsAreValues
  <2>3. PICK kw : kw = KeywordArguments
    OBVIOUS
  <2>4. \A name \in DOMAIN kw : kw[name] \in W
    BY <2>2, <2>3
  <2>5. resolved = Resolved(bytecode.functions[f], args, kw)
    BY <1>2, <2>3
  <2>6. Resolved(bytecode.functions[f], args, kw) \in Seq(W)
    BY <1>3, <2>1, <2>4, ResolvedIsSequence
  <2> QED BY <2>1, <2>5, <2>6
<1>7. CASE f # 0 /\ callee.v = "class" /\ BeginConstruction(callee.class, at, resolved)
  <2>1. PICK class : class = callee.class
    OBVIOUS
  <2>2. class \in DOMAIN bytecode.classes /\ BeginConstruction(class, at, resolved) /\ resolved \in Seq(W)
        /\ Instruction.op \in {"CALL", "CALL_KW"}
    BY <1>3, <1>6, <1>7, <2>1
  <2> QED BY <1>1, <1>3, <2>2, BeginLives
<1>8. CASE f # 0 /\ callee.v # "class" /\ CallFunctionObject(callee, at, resolved) /\ UNCHANGED objectVars
  <2>1. callee.v \in {"closure", "bound"} /\ resolved \in Seq(W) /\ Instruction.op \in {"CALL", "CALL_KW"}
    BY <1>3, <1>6, <1>8
  <2>2. UNCHANGED <<status, globals, objectVars>> /\ CallFunctionObject(callee, at, resolved)
    BY <1>1, <1>8
  <2> QED BY <1>1, <1>3, <2>1, <2>2, CallObjectLives
<1> QED BY <1>4, <1>5, <1>7, <1>8

(* A sequence with another value for one element.                           *)
LEMMA ReplacedElement ==
    ASSUME NEW S, NEW s \in Seq(S), NEW i \in DOMAIN s, NEW e \in S, NEW t, t = [s EXCEPT ![i] = e]
    PROVE  t \in Seq(S) /\ Len(t) = Len(s) /\ DOMAIN t = DOMAIN s
           /\ t[i] = e /\ \A j \in DOMAIN s : j # i => t[j] = s[j]
  OBVIOUS

(* The construction that is due: the last one, of the topmost frame.        *)
LEMMA DueConstruction ==
    ASSUME NEW W, Live(W), ConstructionDue, NEW n, n = Len(frames), NEW last, last = Len(constructions),
           NEW it, it = Last(constructions)
    PROVE  /\ n \in Nat \ {0} /\ frames \in Seq(Frames(W)) /\ DOMAIN frames = 1..n
           /\ last \in Nat \ {0} /\ constructions \in Seq(Constructions(W))
           /\ DOMAIN constructions = 1..last /\ last \in DOMAIN constructions
           /\ it = constructions[last] /\ it \in Constructions(W) /\ it.depth = n
           /\ n \in ConstructionDepths /\ ConstructionFits(last)
           /\ it.instance \in 1..Len(instances) /\ it.callee \in Slots /\ it.callee + 1 = Balance(n)
           /\ \A c \in DOMAIN constructions : constructions[c].depth \in 1..n
<1>1. /\ constructions \in Seq(Constructions(W)) /\ constructions # <<>> /\ n = it.depth
      /\ frames \in Seq(Frames(W))
  BY DEF Live, Calls, ConstructionDue
<1>2. last \in Nat \ {0} /\ DOMAIN constructions = 1..last /\ last \in DOMAIN constructions
      /\ it = constructions[last] /\ it \in Constructions(W)
  BY <1>1 DEF Last
<1>3. ConstructionFits(last)
  BY <1>2, DepthIsNat
<1>4. it.instance \in 1..Len(instances) /\ it.callee + 1 = Balance(n) /\ n \in 1..n
  BY <1>1, <1>2, <1>3 DEF ConstructionFits
<1>5. n \in Nat \ {0} /\ DOMAIN frames = 1..n
  <2>1. frames \in Seq(Frames(W))
    BY <1>1
  <2>2. Len(frames) \in Nat /\ DOMAIN frames = 1..Len(frames)
    BY <2>1
  <2> QED BY <1>4, <2>2
<1>6. n \in ConstructionDepths
  BY <1>1, <1>2 DEF ConstructionDepths
<1>7. it.callee \in Slots
  BY <1>2 DEF Constructions
<1>8. \A c \in DOMAIN constructions : constructions[c].depth \in 1..n
  BY DepthIsNat
<1>9. it.depth = n
  BY <1>1
<1> QED BY <1>9, <1>1, <1>2, <1>3, <1>4, <1>5, <1>6, <1>7, <1>8

(* Less is due, and nothing else changes in the calls.                      *)
LEMMA LessDue ==
    ASSUME NEW W, Live(W), ConstructionDue,
           NEW n, n = Len(frames), NEW last, last = Len(constructions),
           NEW it, it = Last(constructions), it.due # <<>>,
           constructions' = [constructions EXCEPT ![last].due = Tail(@), ![last].depth = n]
    PROVE  /\ constructions' \in Seq(Constructions(W)) /\ Len(constructions') = last
           /\ DOMAIN constructions' = DOMAIN constructions
           /\ constructions'[last].depth = n
           /\ \A c \in DOMAIN constructions : GoesOn(c)
<1>1. /\ last \in Nat \ {0} /\ constructions \in Seq(Constructions(W))
      /\ DOMAIN constructions = 1..last /\ last \in DOMAIN constructions
      /\ it = constructions[last] /\ it \in Constructions(W) /\ it.depth = n
  BY DueConstruction
<1>2. PICK less : less = [it EXCEPT !.due = Tail(@), !.depth = n]
  OBVIOUS
<1>3. PICK due \in Seq(Dues(W)) : due = it.due /\ due # <<>>
  BY <1>1 DEF Constructions
<1>4. less.instance = it.instance /\ less.callee = it.callee /\ less.depth = n /\ less.due = Tail(due)
      /\ less \in Constructions(W)
  <2>1. Tail(due) \in Seq(Dues(W))
    BY <1>3
  <2> QED BY <1>1, <1>2, <1>3, <2>1 DEF Constructions
<1>5. constructions' = [constructions EXCEPT ![last] = less]
  BY <1>1, <1>2
<1>6. /\ constructions' \in Seq(Constructions(W)) /\ Len(constructions') = last
      /\ DOMAIN constructions' = DOMAIN constructions /\ constructions'[last] = less
      /\ \A c \in DOMAIN constructions : c # last => constructions'[c] = constructions[c]
  <2>1. PICK C : C = Constructions(W)
    OBVIOUS
  <2>2. constructions \in Seq(C) /\ last \in DOMAIN constructions /\ less \in C
    BY <1>1, <1>4, <2>1
  <2>a. PICK s, r : s = constructions /\ r = constructions'
    OBVIOUS
  <2>b. s \in Seq(C) /\ last \in DOMAIN s /\ less \in C
    BY <2>2, <2>a
  <2>c. r = [s EXCEPT ![last] = less]
    BY <1>5, <2>a
  <2>d. r \in Seq(C) /\ Len(r) = Len(s)
    BY ONLY <2>b, <2>c, ReplacedElement
  <2>3. constructions' \in Seq(C) /\ Len(constructions') = Len(constructions)
    BY <2>a, <2>d
  <2>4. DOMAIN constructions' = DOMAIN constructions /\ constructions'[last] = less
      /\ \A c \in DOMAIN constructions : c # last => constructions'[c] = constructions[c]
    BY <1>5, <2>2, ReplacedElement
  <2> QED BY <2>1, <2>3, <2>4
<1>7. \A e \in DOMAIN Tail(due) : e + 1 \in DOMAIN due /\ Tail(due)[e] = due[e + 1]
  BY <1>3
<1>8. \A e \in DOMAIN less.due : \E d \in DOMAIN it.due : less.due[e] = it.due[d]
  BY <1>3, <1>4, <1>7
<1>9. \A c \in DOMAIN constructions : GoesOn(c)
  <2> TAKE c \in DOMAIN constructions
  <2>1. CASE c = last
    <3>1. it = constructions[c] /\ less = constructions'[c]
      BY <1>1, <1>6, <2>1
    <3>2. less.instance = it.instance /\ less.callee = it.callee /\ less.depth = it.depth
      BY <1>1, <1>4
    <3> QED BY <1>8, <3>1, <3>2 DEF GoesOn
  <2>2. CASE c # last
    BY <1>6, <2>2 DEF GoesOn
  <2> QED BY <2>1, <2>2
<1> QED BY <1>4, <1>6, <1>9

(* What is due is not run.                                                  *)
LEMMA NotRunLives ==
    ASSUME Runnable, NEW W, Live(W), ConstructionDue, UNCHANGED <<bytecode, frames, globals, heapVars>>,
           NEW last, last = Len(constructions),
           constructions' \in Seq(Constructions(W)), Len(constructions') = last,
           DOMAIN constructions' = DOMAIN constructions,
           constructions'[last].depth = Len(frames),
           \A c \in DOMAIN constructions : GoesOn(c),
           stack' \in [Slots -> W], sp' \in 0..StackSize, executed' \in 0..MaxInstructions,
           status' \in {"running", "crashed"}
    PROVE  Live(W)'
<1>1. PICK n : n = Len(frames)
  OBVIOUS
<1>2. PICK it : it = Last(constructions)
  OBVIOUS
<1>3. /\ n \in Nat \ {0} /\ frames \in Seq(Frames(W)) /\ DOMAIN frames = 1..n
      /\ last \in Nat \ {0} /\ last \in DOMAIN constructions
      /\ \A c \in DOMAIN constructions : constructions[c].depth \in 1..n
  BY <1>1, <1>2, DueConstruction
<1>4. UNCHANGED <<bytecode, frames, lists, instances, fieldIndex, globals>>
  BY DEF heapVars, memberVars
<1>5. World(W)'
  BY <1>4, WorldKept DEF Live
<1>6. Data(W)'
  <2>1. globals' \in [DOMAIN globals' -> W]
    BY DEF Live, Data
  <2> QED BY <2>1, DataKept DEF Live
<1>7. Calls(W)'
  BY DEF Live, Calls, Frames, Main, Closure, Constructions, Dues, Slots
<1>8. \A k : Balance(k)' = Balance(k)
  BY SameBalance
<1>9. Len(instances) \in Nat /\ Len(instances') \in Nat /\ Len(instances) <= Len(instances')
  BY <1>4, InstancesCount DEF Live
<1>10. Framed'
  <2>1. \A k \in DOMAIN frames' : FrameFits(k)'
    <3> TAKE k \in DOMAIN frames'
    <3>1. FrameFits(k)
      BY DEF Live, Framed
    <3> QED BY <1>9, <3>1, FrameKept
  <2>2. ConstructionDepths' = ConstructionDepths
    <3>1. \A c \in DOMAIN constructions : constructions'[c].depth = constructions[c].depth
      BY DEF GoesOn
    <3> QED BY <3>1 DEF ConstructionDepths
  <2>3. \A k \in 1..Len(frames') - 1 : k \notin ConstructionDepths' => CallerFits(k)'
    <3> TAKE k \in 1..Len(frames') - 1
    <3>1. k \notin ConstructionDepths => CallerFits(k)
      BY DEF Live, Framed
    <3> QED BY <2>2, <3>1, CallerKept
  <2>4. \A c \in DOMAIN constructions' : ConstructionFits(c)'
    <3> TAKE c \in DOMAIN constructions'
    <3>1. PICK d : d = constructions[c].depth
      OBVIOUS
    <3>2. ConstructionFits(c) /\ GoesOn(c)
      BY DepthIsNat
    <3>3. Balance(d)' = Balance(d)
      BY <1>8
    <3>4. d \in 1..Len(frames')
      BY <1>1, <1>3, <3>1
    <3> QED BY <1>9, <3>1, <3>2, <3>3, <3>4, ConstructionGoesOn
  <2>5. \A c, d \in DOMAIN constructions' : c < d => constructions'[c].depth < constructions'[d].depth
    <3>1. \A c, d \in DOMAIN constructions : c < d => constructions[c].depth < constructions[d].depth
      BY DEF Live, Framed
    <3> QED BY <3>1 DEF GoesOn
  <2>6. frames' # <<>>
    BY <1>1, <1>3
  <2> QED BY <2>1, <2>3, <2>4, <2>5, <2>6 DEF Framed
<1>11. StackBalanced'
  <2>1. constructions' # <<>> /\ Last(constructions') = constructions'[last]
    BY <1>3 DEF Last
  <2> QED BY <2>1 DEF StackBalanced, ConstructionDue
<1> QED BY <1>5, <1>6, <1>7, <1>10, <1>11 DEF Live

(* What is due is called, and keeps the invariant whether it is run or not. *)
LEMMA RunNextLives ==
    ASSUME Runnable, NEW W, Live(W), MeetsNoError', status = "running", RunNext,
           UNCHANGED <<bytecode, globals, executed>>
    PROVE  Live(W)'
<1>1. PICK n, last, it, next : n = Len(frames) /\ last = Len(constructions)
                               /\ it = Last(constructions) /\ next = it.due[1]
  OBVIOUS
<1>2. PICK f, cl, at, args, bound :
          /\ f = next.fn /\ cl = Closure(f, <<>>) /\ at = Min({sp, it.callee}) - 1
          /\ args = next.args /\ bound = it.instance
  OBVIOUS
<1>3. /\ ConstructionDue /\ it.due # <<>> /\ UNCHANGED heapVars
      /\ constructions' = [constructions EXCEPT ![last].due = Tail(@), ![last].depth = n]
      /\ \/ status' = "crashed" /\ UNCHANGED <<stack, sp, frames>>
         \/ Enter(cl, bound, at, args, NullObject, frames) /\ UNCHANGED status
  BY <1>1, <1>2 DEF RunNext
<1>4. /\ n \in Nat \ {0} /\ frames \in Seq(Frames(W)) /\ DOMAIN frames = 1..n
      /\ last \in Nat \ {0} /\ last \in DOMAIN constructions
      /\ it = constructions[last] /\ it \in Constructions(W)
      /\ n \in ConstructionDepths /\ ConstructionFits(last)
      /\ it.instance \in 1..Len(instances) /\ it.callee \in Slots
  BY <1>1, <1>3, DueConstruction
<1>5. /\ constructions' \in Seq(Constructions(W)) /\ Len(constructions') = last
      /\ DOMAIN constructions' = DOMAIN constructions
      /\ constructions'[last].depth = n
      /\ \A c \in DOMAIN constructions : GoesOn(c)
  BY <1>1, <1>3, LessDue
<1>6. next \in Dues(W) /\ f \in DOMAIN bytecode.functions /\ args \in Seq(W) /\ 0 \in Callable[f]
  <2>1. PICK due \in Seq(Dues(W)) : due = it.due /\ due # <<>>
    BY <1>3, <1>4 DEF Constructions
  <2>2. 1 \in DOMAIN due /\ due[1] \in Dues(W)
    BY <2>1
  <2>3. 0 \in Callable[due[1].fn]
    BY <1>4, <2>1, <2>2 DEF ConstructionFits
  <2>4. next = due[1]
    BY <1>1, <2>1
  <2> QED BY <1>2, <2>2, <2>3, <2>4 DEF Dues
<1>7. cl \in W /\ cl.v = "closure"
  <2>1. f \in DOMAIN Callable
    BY <1>6 DEF Callable
  <2> QED BY <1>2, <1>6, <2>1 DEF Live, World, Valid, Closure
<1>8. at \in -1..StackSize - 1
  <2>1. PICK a \in Int, b \in Int : a = sp /\ b = it.callee /\ a >= 0 /\ b >= 0 /\ b <= StackSize - 1
    BY <1>4, LiveFacts, MachineAssumption DEF Slots
  <2>2. PICK m : m = Min({a, b})
    OBVIOUS
  <2>3. m \in Int /\ m <= a /\ m <= b /\ (m = a \/ m = b)
    BY <2>2, MinOf
  <2>4. at = m - 1
    BY <1>2, <2>1, <2>2
  <2> QED BY <2>1, <2>3, <2>4, MachineAssumption
<1>9. executed' \in 0..MaxInstructions
  BY LiveFacts
<1>10. ASSUME UNCHANGED frames, stack' \in [Slots -> W], sp' \in 0..StackSize, status' \in {"running", "crashed"}
       PROVE  Live(W)'
  <2>1. constructions'[last].depth = Len(frames)
    BY <1>1, <1>5
  <2>2. UNCHANGED <<bytecode, frames, globals, heapVars>>
    BY <1>3, <1>10
  <2> QED BY <1>1, <1>3, <1>5, <1>9, <1>10, <2>1, <2>2, NotRunLives
<1>11. CASE status' = "crashed" /\ UNCHANGED <<stack, sp, frames>>
  BY <1>10, <1>11, LiveFacts
<1>12. CASE Enter(cl, bound, at, args, NullObject, frames) /\ UNCHANGED status
  <2>1. PICK mismatch, callers : mismatch = NullObject /\ callers = frames
    OBVIOUS
  <2>2. mismatch \in W /\ Enter(cl, bound, at, args, mismatch, callers)
    BY <1>12, <2>1, PlainResults
  <2>3. \/ frames' = callers /\ Push(at, <<mismatch>>)
        \/ /\ stack' \in [Slots -> W]
           /\ sp' < StackSize => /\ frames' = Append(callers, Frame(cl, at + 1, bound))
                                 /\ sp' = at + 1 + LocalsOf(cl) /\ sp' \in 0..StackSize
                                 /\ at + 1 \in 0..StackSize
    BY <1>6, <1>7, <1>8, <2>2, EnterFacts
  <2>4. CASE frames' = callers /\ Push(at, <<mismatch>>)
    <3>1. stack \in [Slots -> W]
      BY LiveFacts
    <3>2. stack' \in [Slots -> W] /\ sp' \in 0..StackSize
      BY <1>8, <2>2, <2>4, <3>1, PushOver
    <3> QED BY <1>10, <1>12, <2>1, <2>4, <3>2
  <2>5. CASE ~(frames' = callers /\ Push(at, <<mismatch>>))
    <3>1. sp' < StackSize /\ status' = "running"
      BY <1>12 DEF MeetsNoError, HasRoom
    <3>2. PICK fr : fr = Frame(cl, at + 1, bound)
      OBVIOUS
    <3>3. /\ frames' = Append(callers, fr) /\ sp' = at + 1 + LocalsOf(cl) /\ sp' \in 0..StackSize
          /\ at + 1 \in 0..StackSize /\ stack' \in [Slots -> W]
      BY <2>3, <2>5, <3>1, <3>2
    <3>4. /\ fr \in Frames(W) /\ fr.cl = cl /\ fr.ip = 0 /\ fr.base = at + 1 /\ fr.bound = bound
          /\ fr.bound \in 0..Len(instances)
      <4>1. Len(instances) \in Nat
        BY InstancesCount DEF Live
      <4>2. bound \in Nat /\ bound \in 0..Len(instances)
        BY <1>2, <1>4, <4>1
      <4> QED BY <1>7, <3>2, <3>3, <4>2 DEF Frame, Frames
    <3>5. /\ callers \in Seq(Frames(W)) /\ Len(callers) = n
          /\ \A k \in 1..n - 1 : callers[k] = frames[k]
          /\ callers[n].cl = frames[n].cl /\ callers[n].base = frames[n].base
          /\ callers[n].bound = frames[n].bound /\ callers[n] = frames[n]
          /\ callers[n].ip \in DOMAIN Depths(CodeOf(frames[n].cl))
      <4>1. n \in DOMAIN frames
        BY <1>4
      <4>2. FrameFits(n)
        BY <4>1 DEF Live, Framed
      <4> QED BY <1>1, <1>4, <2>1, <4>2 DEF FrameFits
    <3>6. instances' = instances /\ UNCHANGED lists
      BY <1>3 DEF heapVars, memberVars
    <3>7. Calls(W)' /\ Framed' /\ StackBalanced'
      BY <1>1, <1>4, <1>5, <1>7, <1>9, <3>1, <3>3, <3>4, <3>5, <3>6, Enters
    <3>8. World(W)'
      BY <3>6, WorldKept DEF Live
    <3>9. Data(W)'
      <4>1. UNCHANGED <<bytecode, heapVars>> /\ globals' \in [DOMAIN globals' -> W]
        BY <1>3 DEF Live, Data
      <4> QED BY <3>3, <4>1, DataKept DEF Live
    <3> QED BY <3>7, <3>8, <3>9 DEF Live
  <2> QED BY <2>4, <2>5
<1> QED BY <1>3, <1>11, <1>12

(* The end of a construction keeps the invariant: the instance is in the    *)
(* slot of its class.                                                       *)
LEMMA FinishConstructionLives ==
    ASSUME Runnable, NEW W, Live(W), status = "running", FinishConstruction,
           UNCHANGED <<bytecode, globals, executed>>
    PROVE  \E V : Live(V)'
<1>1. PICK n, last, it, object : n = Len(frames) /\ last = Len(constructions)
                                /\ it = Last(constructions) /\ object = Instance(it.instance)
  OBVIOUS
<1>2. PICK callee : callee = it.callee
  OBVIOUS
<1>3. /\ ConstructionDue /\ constructions' = Front(constructions)
      /\ stack' = [i \in DOMAIN stack |->
                      IF i < callee THEN it.kept[i] ELSE IF i = callee THEN object ELSE stack[i]]
      /\ sp' = callee + 1 /\ UNCHANGED <<status, frames, heapVars>>
  BY <1>1, <1>2 DEF FinishConstruction
<1>4. /\ n \in Nat \ {0} /\ frames \in Seq(Frames(W)) /\ DOMAIN frames = 1..n
      /\ last \in Nat \ {0} /\ constructions \in Seq(Constructions(W))
      /\ DOMAIN constructions = 1..last /\ last \in DOMAIN constructions
      /\ it = constructions[last] /\ it \in Constructions(W) /\ it.depth = n
      /\ it.instance \in 1..Len(instances) /\ it.callee \in Slots /\ it.callee + 1 = Balance(n)
      /\ \A c \in DOMAIN constructions : constructions[c].depth \in 1..n
  BY <1>1, <1>3, DueConstruction
<1>5. UNCHANGED <<bytecode, frames, lists, instances, fieldIndex, globals>>
  BY <1>3 DEF heapVars, memberVars
<1>6. PICK new : new = {object}
  OBVIOUS
<1>7. PICK V : V = W \union new
  OBVIOUS
<1>8. Len(instances) \in Nat /\ Len(instances') \in Nat /\ Len(instances) <= Len(instances')
  BY <1>5, InstancesCount DEF Live
<1>9. World(V)'
  <2>1. \A v \in new : Joins(v, W, Callable, DOMAIN lists', Len(instances'))
    <3>1. \E id \in 1..Len(instances') : object = Instance(id)
      BY <1>1, <1>4, <1>5
    <3> QED BY <1>6, <3>1 DEF Joins
  <2>2. DOMAIN lists \subseteq DOMAIN lists' /\ World(W) /\ UNCHANGED bytecode
    BY <1>5 DEF Live
  <2> QED BY <1>7, <1>8, <2>1, <2>2, WorldWith
<1>10. Data(V)'
  <2>1. stack \in [Slots -> W] /\ it.kept \in [Slots -> W]
    BY <1>4, LiveFacts DEF Constructions
  <2>2. stack' \in [Slots -> V]
    BY <1>3, <1>6, <1>7, <2>1
  <2>3. globals' \in [DOMAIN globals' -> V] /\ W \subseteq V /\ Data(W)
    BY <1>5, <1>7 DEF Live, Data
  <2> QED BY <1>3, <2>2, <2>3, DataKept
<1>11. /\ constructions' \in Seq(Constructions(W)) /\ DOMAIN constructions' = 1..last - 1
       /\ \A c \in 1..last - 1 : constructions'[c] = constructions[c] /\ c \in DOMAIN constructions
  <2>1. PICK s, r : s = constructions /\ r = constructions'
    OBVIOUS
  <2>2. s \in Seq(Constructions(W)) /\ r = SubSeq(s, 1, last - 1) /\ last = Len(s)
    BY <1>1, <1>3, <1>4, <2>1 DEF Front
  <2>3. r \in Seq(Constructions(W)) /\ DOMAIN r = 1..last - 1
        /\ \A c \in 1..last - 1 : r[c] = s[c] /\ c \in DOMAIN s
    BY <1>4, <2>2
  <2> QED BY <2>1, <2>3
<1>12. Calls(V)'
  <2>1. Calls(W)'
    <3>1. constructions' \in Seq(Constructions(W))'
      BY <1>11 DEF Constructions, Dues, Slots
    <3>2. frames' \in Seq(Frames(W))'
      BY <1>4, <1>5 DEF Frames, Main, Closure
    <3>3. \A k \in DOMAIN frames' : frames'[k].cl \in IF k = 1 THEN {Main} ELSE W
      BY <1>5 DEF Live, Calls
    <3> QED BY <3>1, <3>2, <3>3 DEF Calls, Main, Closure
  <2>2. PICK U : U = V
    OBVIOUS
  <2>3. W \subseteq V
    BY <1>7
  <2>4. ASSUME NEW A, NEW B, A \subseteq B, Calls(A)' PROVE Calls(B)'
    <3>1. Frames(A)' \subseteq Frames(B)'
      BY <2>4 DEF Frames
    <3>2. Dues(A)' \subseteq Dues(B)'
      BY <2>4, SeqMono DEF Dues
    <3>3. Seq(Dues(A)') \subseteq Seq(Dues(B)')
      BY <3>2, SeqMono
    <3>4. Constructions(A)' \subseteq Constructions(B)'
      BY <2>4, <3>3 DEF Constructions
    <3>5. Seq(Frames(A)') \subseteq Seq(Frames(B)') /\ Seq(Constructions(A)') \subseteq Seq(Constructions(B)')
      BY <3>1, <3>4, SeqMono
    <3>6. \A k \in DOMAIN frames' : frames'[k].cl \in IF k = 1 THEN {Main'} ELSE B
      BY <2>4 DEF Calls
    <3>7. frames' \in Seq(Frames(B)') /\ constructions' \in Seq(Constructions(B)')
      BY <2>4, <3>5 DEF Calls
    <3> QED BY <3>6, <3>7 DEF Calls
  <2> QED BY <2>1, <2>3, <2>4
<1>13. \A k : Balance(k)' = Balance(k)
  BY <1>5, SameBalance
<1>14. \A k \in 1..Len(frames') - 1 : k \notin ConstructionDepths' => k \notin ConstructionDepths
  <2> TAKE k \in 1..Len(frames') - 1
  <2>1. k \in 1..n - 1
    BY <1>1, <1>5
  <2>2. k \in ConstructionDepths => k \in ConstructionDepths'
    <3> SUFFICES ASSUME NEW c \in DOMAIN constructions, k = constructions[c].depth
                 PROVE  k \in ConstructionDepths'
      BY DEF ConstructionDepths
    <3>1. c # last
      BY <1>4, <2>1
    <3>2. c \in DOMAIN constructions' /\ constructions'[c].depth = k
      BY <1>4, <1>11, <3>1
    <3> QED BY <3>2 DEF ConstructionDepths
  <2> QED BY <2>2
<1>15. Framed'
  <2>1. \A k \in DOMAIN frames' : FrameFits(k)'
    <3> TAKE k \in DOMAIN frames'
    <3>1. FrameFits(k)
      BY <1>5 DEF Live, Framed
    <3> QED BY <1>5, <1>8, <3>1, FrameKept
  <2>2. \A k \in 1..Len(frames') - 1 : k \notin ConstructionDepths' => CallerFits(k)'
    <3> TAKE k \in 1..Len(frames') - 1
    <3>1. k \notin ConstructionDepths => CallerFits(k)
      BY <1>5 DEF Live, Framed
    <3> QED BY <1>5, <1>14, <3>1, CallerKept
  <2>3. \A c \in DOMAIN constructions' : ConstructionFits(c)'
    <3> TAKE c \in DOMAIN constructions'
    <3>1. PICK d : d = constructions[c].depth
      OBVIOUS
    <3>2. c \in DOMAIN constructions /\ constructions'[c] = constructions[c]
      BY <1>11
    <3>3. ConstructionFits(c) /\ d \in 1..Len(frames')
      BY <1>1, <1>4, <1>5, <3>1, <3>2, DepthIsNat
    <3>4. Balance(d)' = Balance(d)
      BY <1>13
    <3> QED BY <1>5, <1>8, <3>1, <3>2, <3>3, <3>4, ConstructionKept
  <2>4. \A c, d \in DOMAIN constructions' : c < d => constructions'[c].depth < constructions'[d].depth
    <3>1. \A c, d \in DOMAIN constructions : c < d => constructions[c].depth < constructions[d].depth
      BY DEF Live, Framed
    <3> QED BY <1>11, <3>1
  <2>5. frames' # <<>> /\ sp' \in 0..StackSize /\ status' = "running" /\ executed' \in 0..MaxInstructions
    <3>1. callee + 1 \in 0..StackSize
      BY <1>2, <1>4, MachineAssumption DEF Slots
    <3>2. frames' # <<>>
      BY <1>4, <1>5
    <3> QED BY <1>3, <3>1, <3>2, LiveFacts
  <2> QED BY <2>1, <2>2, <2>3, <2>4, <2>5 DEF Framed
<1>16. StackBalanced'
  <2>1. sp' = Balance(n)'
    BY <1>2, <1>3, <1>4, <1>13
  <2>2. Len(frames)' = n
    BY <1>1, <1>5
  <2> QED BY <2>1, <2>2, BalancedAt
<1> QED BY <1>9, <1>10, <1>12, <1>15, <1>16 DEF Live

(* Both steps of the loop of call_class.                                    *)
LEMMA ConstructLives ==
    ASSUME Runnable, NEW W, Live(W), MeetsNoError', Construct
    PROVE  \E V : Live(V)'
<1>1. status = "running" /\ (RunNext \/ FinishConstruction) /\ UNCHANGED <<bytecode, globals, executed>>
  BY DEF Construct
<1> QED BY <1>1, RunNextLives, FinishConstructionLives

-----------------------------------------------------------------------------
(* Slices.                                                                  *)

(* The loop of a slice goes on at p.                                        *)
Before(p, limit, step) == IF step > 0 THEN p < limit ELSE p > limit

(* The number of steps that stay below a distance.                          *)
LEMMA CountedUp ==
    ASSUME NEW d \in Nat, NEW s \in Nat \ {0}, NEW k \in Nat \ {0}
    PROVE  k <= (d + s - 1) \div s <=> (k - 1) * s < d
<1> DEFINE q == (d + s - 1) \div s
           r == (d + s - 1) % s
<1>1. q \in Int /\ r \in Int /\ 0 <= r /\ r < s /\ d + s - 1 = s * q + r
  OBVIOUS
<1> HIDE DEF q, r
<1>2. ASSUME k <= q PROVE (k - 1) * s < d
  <2>1. s * k <= s * q
    BY <1>1, <1>2
  <2>2. (k - 1) * s = s * k - s
    OBVIOUS
  <2> QED BY <1>1, <2>1, <2>2
<1>3. ASSUME ~(k <= q) PROVE ~((k - 1) * s < d)
  <2>1. s * q <= s * (k - 1)
    BY <1>1, <1>3
  <2> QED BY <1>1, <2>1
<1> QED BY <1>2, <1>3 DEF q

(* The positions are those of the loop in newSubList and vm_new_sub_list: the *)
(* k-th is taken just if the loop comes to it before its limit, upwards or   *)
(* downwards.                                                               *)
THEOREM SliceIsLoop ==
    ASSUME NEW max \in Nat, NEW i1 \in Int, NEW i2 \in Int, NEW step \in Int,
           NEW k \in Nat \ {0}
    PROVE  LET p == Positions(max, i1, i2, step)
               position == First(max, i1, step) + (k - 1) * step
           IN  /\ k \in DOMAIN p <=>
                      /\ step # 0 /\ ~(step < 0 /\ i1 < -max)
                      /\ Before(position, Limit(max, i2, step), step)
               /\ k \in DOMAIN p => p[k] = position
<1> DEFINE first == First(max, i1, step)
           limit == Limit(max, i2, step)
           distance == IF step > 0 THEN limit - first ELSE first - limit
           stride == IF step > 0 THEN step ELSE -step
           count == (distance + stride - 1) \div stride
           none == step = 0 \/ distance <= 0 \/ (step < 0 /\ i1 < -max)
           p == Positions(max, i1, i2, step)
           loop == [j \in 1..count |-> first + (j - 1) * step]
<1>1. first \in Int /\ limit \in Int
  BY DEF First, Limit, Clamped, INT_MAX
<1>2. p = IF none THEN <<>> ELSE loop
  BY DEF Positions
<1>3. CASE none
  <2>1. DOMAIN p = {}
    BY <1>2, <1>3
  <2>2. ASSUME step # 0, ~(step < 0 /\ i1 < -max)
        PROVE  ~Before(first + (k - 1) * step, limit, step)
    <3>1. distance <= 0
      BY <1>3, <2>2
    <3>2. CASE step > 0
      <4>1. (k - 1) * step >= 0
        BY <3>2
      <4> HIDE DEF first, limit
      <4> QED BY <1>1, <3>1, <3>2, <4>1 DEF Before
    <3>3. CASE step < 0
      <4>1. (k - 1) * step <= 0
        BY <3>3
      <4> HIDE DEF first, limit
      <4> QED BY <1>1, <3>1, <3>3, <4>1 DEF Before
    <3> QED BY <2>2, <3>2, <3>3
  <2> QED BY <2>1, <2>2
<1>4. CASE ~none
  <2>1. distance \in Nat /\ stride \in Nat \ {0} /\ step # 0 /\ ~(step < 0 /\ i1 < -max)
    <3> HIDE DEF first, limit
    <3> QED BY <1>1, <1>4
  <2>2. k <= count <=> (k - 1) * stride < distance
    <3> HIDE DEF distance, stride
    <3> QED BY <2>1, CountedUp
  <2>3. count \in Int
    <3> HIDE DEF distance, stride
    <3> QED BY <2>1
  <2>4. p = loop
    BY <1>2, <1>4
  <2>5. k \in DOMAIN p <=> k <= count
    <3> HIDE DEF count, p
    <3> QED BY <2>3, <2>4
  <2>6. (k - 1) * stride < distance <=> Before(first + (k - 1) * step, limit, step)
    <3>1. (k - 1) * (-step) = -((k - 1) * step)
      OBVIOUS
    <3>2. (k - 1) * step \in Int
      OBVIOUS
    <3> HIDE DEF first, limit
    <3> QED BY <1>1, <2>1, <3>1, <3>2 DEF Before
  <2>7. k \in DOMAIN p => p[k] = first + (k - 1) * step
    <3> HIDE DEF count, p, first
    <3> QED BY <2>4
  <2> QED BY <2>1, <2>2, <2>5, <2>6, <2>7
<1> QED BY <1>3, <1>4

(* A slice takes elements of the list only, whatever bounds and step the     *)
(* program gives.  The exception is real: of an empty list from INT_MAX on,  *)
(* with a positive step, the code asks for element -1.                       *)
THEOREM SliceInside ==
    ASSUME NEW max \in Nat, NEW i1 \in Int, NEW i2 \in Int, NEW step \in Int,
           max > 0 \/ i1 # INT_MAX
    PROVE  LET p == Positions(max, i1, i2, step)
           IN  \A k \in DOMAIN p : p[k] \in 0..(max - 1)
<1> DEFINE first == First(max, i1, step)
           limit == Limit(max, i2, step)
           p == Positions(max, i1, i2, step)
<1>1. first \in Int /\ limit \in Int /\ limit >= -1 /\ limit <= max
  BY DEF First, Limit, Clamped, INT_MAX
<1>2. step > 0 => first >= 0
  BY DEF First, Clamped, INT_MAX
<1>3. step < 0 /\ ~(i1 < -max) => first < max
  BY DEF First, Clamped, INT_MAX
<1>4. ASSUME NEW k \in DOMAIN p PROVE p[k] \in 0..(max - 1)
  <2>1. k \in Nat \ {0}
    BY <1>4 DEF Positions
  <2>2. /\ step # 0 /\ ~(step < 0 /\ i1 < -max)
        /\ Before(first + (k - 1) * step, limit, step)
        /\ p[k] = first + (k - 1) * step
    <3>1. k \in DOMAIN p <=>
              /\ step # 0 /\ ~(step < 0 /\ i1 < -max)
              /\ Before(first + (k - 1) * step, limit, step)
      BY <2>1, SliceIsLoop
    <3>2. p[k] = first + (k - 1) * step
      BY <1>4, <2>1 DEF Positions
    <3> HIDE DEF p, first, limit
    <3> QED BY <1>4, <3>1, <3>2
  <2> HIDE DEF p, first, limit
  <2>3. CASE step > 0
    <3>1. (k - 1) * step >= 0 /\ (k - 1) * step \in Int
      BY <2>1, <2>3
    <3> QED BY <1>1, <1>2, <2>2, <2>3, <3>1 DEF Before
  <2>4. CASE step < 0
    <3>1. (k - 1) * step <= 0 /\ (k - 1) * step \in Int
      BY <2>1, <2>4
    <3> QED BY <1>1, <1>3, <2>2, <2>4, <3>1 DEF Before
  <2> QED BY <2>2, <2>3, <2>4
<1> QED BY <1>4

(* The positions of a slice are a sequence.                                 *)
LEMMA PositionsAreSequence ==
    ASSUME NEW max \in Nat, NEW i1 \in Int, NEW i2 \in Int, NEW step \in Int
    PROVE  \E m \in Nat : DOMAIN Positions(max, i1, i2, step) = 1..m
<1> DEFINE first == First(max, i1, step)
           distance == IF step > 0 THEN Limit(max, i2, step) - first
                       ELSE first - Limit(max, i2, step)
           stride == IF step > 0 THEN step ELSE -step
           count == (distance + stride - 1) \div stride
           p == Positions(max, i1, i2, step)
<1>1. p = <<>> \/ (step # 0 /\ p = [k \in 1..count |-> first + (k - 1) * step])
  BY DEF Positions
<1>2. first \in Int /\ Limit(max, i2, step) \in Int
  BY DEF First, Limit, Clamped, INT_MAX
<1>3. CASE p = <<>>
  <2>1. DOMAIN <<>> = 1..0 /\ 0 \in Nat
    OBVIOUS
  <2> HIDE DEF p
  <2>2. \E j \in Nat : DOMAIN p = 1..j
    BY <1>3, <2>1
  <2> QED BY <2>2 DEF p
<1>4. CASE step # 0 /\ p = [k \in 1..count |-> first + (k - 1) * step]
  <2>1. distance \in Int /\ stride \in Nat \ {0}
    <3> HIDE DEF first
    <3> QED BY <1>2, <1>4
  <2>2. count \in Int
    <3> HIDE DEF distance, stride
    <3> QED BY <2>1
  <2>3. DOMAIN p = 1..count
    <3> HIDE DEF count, p, first
    <3> QED BY <1>4
  <2>4. PICK m \in Nat : 1..count = 1..m
    <3> HIDE DEF count
    <3>1. count >= 0 \/ 1..count = 1..0
      BY <2>2
    <3> QED BY <2>2, <3>1
  <2>5. DOMAIN p = 1..m
    <3> HIDE DEF count, p
    <3> QED BY <2>3, <2>4
  <2> HIDE DEF p
  <2>6. \E j \in Nat : DOMAIN p = 1..j
    BY <2>5
  <2> QED BY <2>6 DEF p
<1> QED BY <1>1, <1>3, <1>4

(* There is nothing in an empty list for a step that is not positive.       *)
LEMMA NothingDownwards ==
    ASSUME NEW i2 \in Int, NEW step \in Int, step <= 0
    PROVE  Positions(0, INT_MAX, i2, step) = <<>>
<1>1. First(0, INT_MAX, step) = -1
  BY DEF First
<1>2. Limit(0, i2, step) \in Int /\ Limit(0, i2, step) >= -1
  BY DEF Limit, Clamped, INT_MAX
<1> QED BY <1>1, <1>2 DEF Positions

(* A slice of a list of values is one.                                      *)
LEMMA TakenIsSequence ==
    ASSUME NEW W, Live(W), NEW list \in Seq(W), NEW start \in W, NEW end \in W, NEW by \in W,
           IsBound(start), IsBound(end), IsBound(by),
           list = <<>> => ~(start.v = "int" /\ start.n = INT_MAX)
    PROVE  Taken(list, start, end, by) \in Seq(W)
<1>1. \A v \in W : v.v = "int" => v.n \in Int
  BY DEF Live, World, Valid
<1>2. PICK max \in Nat : max = Len(list) /\ DOMAIN list = 1..max /\ (max = 0 => list = <<>>)
  OBVIOUS
<1>3. PICK step \in Int : step = IF Nullish(by) THEN 1 ELSE by.n
  BY <1>1 DEF IsBound
<1>4. PICK i1 \in Int : i1 = IF Nullish(start) THEN DefaultStart(max, Nullish(end), step) ELSE start.n
  BY <1>1 DEF IsBound, DefaultStart, INT_MAX
<1>5. PICK i2 \in Int : i2 = IF Nullish(end) THEN DefaultEnd(max, step) ELSE end.n
  BY <1>1 DEF IsBound, DefaultEnd, INT_MAX
<1>6. PICK p : p = Positions(max, i1, i2, step)
  OBVIOUS
<1>7. PICK taken : taken = Taken(list, start, end, by)
  OBVIOUS
<1>8. taken = [k \in DOMAIN p |-> list[p[k] + 1]]
  BY <1>2, <1>3, <1>4, <1>5, <1>6, <1>7 DEF Taken
<1>9. PICK m \in Nat : DOMAIN p = 1..m
  <2>1. \E m \in Nat : DOMAIN Positions(max, i1, i2, step) = 1..m
    BY <1>2, <1>3, <1>4, <1>5, PositionsAreSequence
  <2> QED BY <1>6, <2>1
<1>10. \A k \in DOMAIN p : p[k] \in 0..max - 1
  <2>1. CASE max > 0 \/ i1 # INT_MAX
    BY <1>6, <2>1, SliceInside
  <2>2. CASE ~(max > 0 \/ i1 # INT_MAX)
    <3>1. max = 0 /\ i1 = INT_MAX /\ list = <<>>
      BY <1>2, <2>2
    <3>2. Nullish(start)
      <4>1. ~Nullish(start) => start.v = "int" /\ start.n = INT_MAX
        BY <1>4, <3>1 DEF IsBound
      <4> QED BY <3>1, <4>1
    <3>3. step <= 0
      BY <1>4, <3>1, <3>2 DEF DefaultStart, INT_MAX
    <3>4. p = <<>>
      BY <1>6, <3>1, <3>3, NothingDownwards
    <3> QED BY <3>4
  <2> QED BY <2>1, <2>2
<1>11. \A k \in 1..m : list[p[k] + 1] \in W
  <2> TAKE k \in 1..m
  <2>1. PICK i \in 0..max - 1 : i = p[k]
    BY <1>9, <1>10
  <2>2. i + 1 \in DOMAIN list
    BY <1>2, <2>1
  <2> QED BY <2>1, <2>2
<1>12. taken \in [1..m -> W]
  BY <1>8, <1>9, <1>11
<1> QED BY <1>7, <1>12

-----------------------------------------------------------------------------
(* Copies.                                                                  *)

(* A set of numbers with 0 and the successor of each of its elements.       *)
LEMMA Inductive ==
    ASSUME NEW T, 0 \in T, \A n \in Nat : n \in T => n + 1 \in T
    PROVE  \A n \in Nat : n \in T
<1> DEFINE others == {n \in Nat : n \notin T}
<1>1. SUFFICES ASSUME others # {} PROVE FALSE
  OBVIOUS
<1>2. PICK m \in others : \A n \in others : m <= n
  <2>1. others \in SUBSET Nat
    OBVIOUS
  <2> HIDE DEF others
  <2> QED BY <1>1, <2>1, Least
<1>3. m \in Nat /\ m \notin T /\ m # 0
  BY <1>2
<1>4. m - 1 \in Nat /\ m - 1 \in T
  <2>1. m - 1 \in Nat
    BY <1>3
  <2>2. m - 1 \notin others
    <3> HIDE DEF others
    <3> QED BY <1>2, <1>3, <2>1
  <2> QED BY <2>1, <2>2
<1>5. m \in T
  BY <1>3, <1>4
<1> QED BY <1>3, <1>5

(* The lists inside those of a level.                                       *)
Inside(list) ==
    {[path |-> Append(list.path, i), elements |-> lists[list.elements[i].id]] :
        i \in {j \in DOMAIN list.elements : list.elements[j].v = "list"}}
NextLevel(level) == UNION {Inside(list) : list \in level}
FirstLevel(elements) == {[path |-> <<>>, elements |-> elements]}

(* The levels up to n.                                                      *)
UpTo(n, elements, f) ==
    f = [d \in 0..n |-> IF d = 0 THEN FirstLevel(elements) ELSE NextLevel(f[d - 1])]

(* There are levels up to every number.                                     *)
LEMMA UpToExists == \A elements : \A n \in Nat : \E f : UpTo(n, elements, f)
<1> TAKE elements
<1> DEFINE T == {n \in Nat : \E f : UpTo(n, elements, f)}
<1>1. 0 \in T
  <2>1. PICK f : f = [d \in 0..0 |-> FirstLevel(elements)]
    OBVIOUS
  <2>2. \A d \in 0..0 : d = 0
    OBVIOUS
  <2>3. UpTo(0, elements, f)
    BY <2>1, <2>2 DEF UpTo
  <2> QED BY <2>3
<1>2. ASSUME NEW n \in Nat, n \in T PROVE n + 1 \in T
  <2>1. PICK f : UpTo(n, elements, f)
    BY <1>2
  <2>2. f = [d \in 0..n |-> IF d = 0 THEN FirstLevel(elements) ELSE NextLevel(f[d - 1])]
    BY <2>1 DEF UpTo
  <2>3. PICK g : g = [d \in 0..n + 1 |-> IF d = n + 1 THEN NextLevel(f[n]) ELSE f[d]]
    OBVIOUS
  <2>4. \A d \in 0..n + 1 : g[d] = IF d = 0 THEN FirstLevel(elements) ELSE NextLevel(g[d - 1])
    <3> TAKE d \in 0..n + 1
    <3>1. CASE d = n + 1
      <4>1. g[d] = NextLevel(f[n]) /\ d # 0 /\ d - 1 = n /\ n \in 0..n + 1 /\ n # n + 1
        BY <2>3, <3>1
      <4>2. g[n] = f[n]
        BY <2>3, <4>1
      <4> QED BY <4>1, <4>2
    <3>2. CASE d = 0
      <4>1. g[d] = f[d] /\ d \in 0..n
        BY <2>3, <3>2
      <4> QED BY <2>2, <3>2, <4>1
    <3>3. CASE d # 0 /\ d # n + 1
      <4>1. d \in 0..n /\ d - 1 \in 0..n /\ d - 1 \in 0..n + 1 /\ d - 1 # n + 1
        BY <3>3
      <4>2. g[d] = f[d] /\ g[d - 1] = f[d - 1]
        BY <2>3, <3>3, <4>1
      <4>3. f[d] = NextLevel(f[d - 1])
        BY <2>2, <3>3, <4>1
      <4> QED BY <3>3, <4>2, <4>3
    <3> QED BY <3>1, <3>2, <3>3
  <2>5. UpTo(n + 1, elements, g)
    BY <2>3, <2>4 DEF UpTo
  <2> QED BY <2>5
<1> HIDE DEF T
<1>3. \A n \in Nat : n \in T
  BY <1>1, <1>2, Inductive
<1> QED BY <1>3 DEF T

(* Those up to n and those up to m are the same as far as both go.          *)
LEMMA UpToUnique ==
    ASSUME NEW elements, NEW n \in Nat, NEW m \in Nat, NEW f, NEW g,
           UpTo(n, elements, f), UpTo(m, elements, g)
    PROVE  \A d \in Nat : d <= n /\ d <= m => f[d] = g[d]
<1> DEFINE T == {d \in Nat : d <= n /\ d <= m => f[d] = g[d]}
<1>1. \A d \in 0..n : f[d] = IF d = 0 THEN FirstLevel(elements) ELSE NextLevel(f[d - 1])
  BY DEF UpTo
<1>2. \A d \in 0..m : g[d] = IF d = 0 THEN FirstLevel(elements) ELSE NextLevel(g[d - 1])
  BY DEF UpTo
<1>3. 0 \in T
  BY <1>1, <1>2
<1>4. ASSUME NEW d \in Nat, d \in T PROVE d + 1 \in T
  <2> SUFFICES ASSUME d + 1 <= n, d + 1 <= m PROVE f[d + 1] = g[d + 1]
    OBVIOUS
  <2>1. f[d] = g[d]
    BY <1>4
  <2>2. d + 1 \in 0..n /\ d + 1 \in 0..m /\ d + 1 # 0 /\ d + 1 - 1 = d
    OBVIOUS
  <2>3. f[d + 1] = NextLevel(f[d]) /\ g[d + 1] = NextLevel(g[d])
    BY <1>1, <1>2, <2>2
  <2> QED BY <2>1, <2>3
<1> HIDE DEF T
<1>5. \A d \in Nat : d \in T
  BY <1>3, <1>4, Inductive
<1> QED BY <1>5 DEF T

(* The recursion of Levels has a solution.                                  *)
LEMMA LevelsUnfold ==
    ASSUME NEW elements, NEW levels, levels = Levels(elements)
    PROVE  \A d \in Nat : levels[d] = IF d = 0 THEN FirstLevel(elements) ELSE NextLevel(levels[d - 1])
<1> DEFINE Solves(f) == f = [d \in Nat |-> IF d = 0 THEN FirstLevel(elements) ELSE NextLevel(f[d - 1])]
<1>1. levels = CHOOSE f : Solves(f)
  BY DEF Levels, FirstLevel, NextLevel, Inside
<1>2. PICK upTo : upTo = [n \in Nat |-> CHOOSE f : UpTo(n, elements, f)]
  OBVIOUS
<1>3. \A n \in Nat : UpTo(n, elements, upTo[n])
  BY <1>2, UpToExists
<1>4. PICK h : h = [d \in Nat |-> upTo[d][d]]
  OBVIOUS
<1>5. \A d \in Nat : h[d] = IF d = 0 THEN FirstLevel(elements) ELSE NextLevel(h[d - 1])
  <2> TAKE d \in Nat
  <2>1. d \in 0..d
    OBVIOUS
  <2>2. upTo[d][d] = IF d = 0 THEN FirstLevel(elements) ELSE NextLevel(upTo[d][d - 1])
    BY <1>3, <2>1 DEF UpTo
  <2>3. CASE d = 0
    BY <1>4, <2>2, <2>3
  <2>4. CASE d # 0
    <3>1. d - 1 \in Nat /\ d - 1 <= d /\ d - 1 <= d - 1
      BY <2>4
    <3>2. PICK e \in Nat : e = d - 1 /\ e <= d /\ e <= e
      BY <3>1
    <3>3. PICK f, g : f = upTo[d] /\ g = upTo[e]
      OBVIOUS
    <3>4. upTo[d][e] = upTo[e][e]
      <4>1. UpTo(d, elements, f) /\ UpTo(e, elements, g)
        BY <1>3, <3>2, <3>3
      <4>2. \A c \in Nat : c <= d /\ c <= e => f[c] = g[c]
        BY <3>2, <4>1, UpToUnique
      <4> QED BY <3>2, <3>3, <4>2
    <3>5. h[d] = upTo[d][d] /\ h[e] = upTo[e][e]
      BY <1>4, <3>2
    <3> QED BY <2>2, <2>4, <3>2, <3>4, <3>5
  <2> QED BY <2>3, <2>4
<1>6. Solves(h)
  BY <1>4, <1>5
<1>7. Solves(levels)
  <2> HIDE DEF Solves
  <2> QED BY <1>1, <1>6
<1> QED BY <1>7

(* The image of a finite set is finite.                                     *)
LEMMA FiniteImage ==
    ASSUME NEW S, IsFiniteSet(S), NEW f
    PROVE  IsFiniteSet({f[x] : x \in S})
<1> DEFINE T == {f[x] : x \in S}
<1>1. PICK g : g = [x \in S |-> f[x]]
  OBVIOUS
<1>2. g \in Surjection(S, T)
  BY <1>1 DEF Surjection
<1> HIDE DEF T
<1>3. IsFiniteSet(T)
  BY <1>2, FS_Surjection
<1> QED BY <1>3 DEF T

(* The lists inside a list of values are lists of values, finitely many.    *)
LEMMA InsideIsFine ==
    ASSUME NEW W, Live(W), NEW list, list.elements \in Seq(W)
    PROVE  IsFiniteSet(Inside(list)) /\ \A inner \in Inside(list) : inner.elements \in Seq(W)
<1>1. PICK positions : positions = {j \in DOMAIN list.elements : list.elements[j].v = "list"}
  OBVIOUS
<1>2. IsFiniteSet(positions)
  <2>1. PICK n \in Nat : DOMAIN list.elements = 1..n
    OBVIOUS
  <2>2. positions \in SUBSET (1..n) /\ IsFiniteSet(1..n)
    BY <1>1, <2>1, FS_Interval
  <2> QED BY <2>2, FS_Subset
<1>3. PICK f : f = [i \in positions |->
                      [path |-> Append(list.path, i), elements |-> lists[list.elements[i].id]]]
  OBVIOUS
<1>4. Inside(list) = {f[i] : i \in positions}
  BY <1>1, <1>3 DEF Inside
<1>5. IsFiniteSet(Inside(list))
  <2>1. IsFiniteSet({f[i] : i \in positions})
    BY <1>2, FiniteImage
  <2> QED BY <1>4, <2>1
<1>6. ASSUME NEW i \in positions PROVE f[i].elements \in Seq(W)
  <2>1. list.elements[i] \in W /\ list.elements[i].v = "list"
    BY <1>1
  <2>2. lists[list.elements[i].id] \in Seq(W)
    BY <2>1, ListIsKnown
  <2> QED BY <1>3, <2>2
<1> QED BY <1>4, <1>5, <1>6

(* Finitely many lists of values.                                           *)
Fine(level, W) == IsFiniteSet(level) /\ \A list \in level : list.elements \in Seq(W)

(* What is inside finitely many lists of values is fine.                    *)
LEMMA NextIsFine ==
    ASSUME NEW W, Live(W), NEW level, Fine(level, W)
    PROVE  Fine(NextLevel(level), W)
<1>1. PICK f : f = [list \in level |-> Inside(list)]
  OBVIOUS
<1>2. NextLevel(level) = UNION {f[list] : list \in level}
  BY <1>1 DEF NextLevel
<1>3. \A list \in level : IsFiniteSet(f[list]) /\ \A inner \in f[list] : inner.elements \in Seq(W)
  BY <1>1, InsideIsFine DEF Fine
<1>4. IsFiniteSet(UNION {f[list] : list \in level})
  <2>1. PICK sets : sets = {f[list] : list \in level}
    OBVIOUS
  <2>2. IsFiniteSet(sets)
    BY <2>1, FiniteImage DEF Fine
  <2>3. \A s \in sets : IsFiniteSet(s)
    BY <1>3, <2>1
  <2>4. IsFiniteSet(UNION sets)
    BY <2>2, <2>3, FS_UNION
  <2> QED BY <2>1, <2>4
<1> QED BY <1>2, <1>3, <1>4 DEF Fine

(* So every level is fine.                                                  *)
LEMMA LevelsAreFine ==
    ASSUME NEW W, Live(W), NEW taken \in Seq(W), NEW levels, levels = Levels(taken)
    PROVE  \A d \in Nat : Fine(levels[d], W)
<1>1. \A d \in Nat : levels[d] = IF d = 0 THEN FirstLevel(taken) ELSE NextLevel(levels[d - 1])
  BY LevelsUnfold
<1>2. PICK T : T = {d \in Nat : Fine(levels[d], W)}
  OBVIOUS
<1>3. 0 \in T
  <2>1. Fine(FirstLevel(taken), W)
    <3>1. PICK root : root = [path |-> <<>>, elements |-> taken]
      OBVIOUS
    <3>2. IsFiniteSet({root})
      BY FS_Singleton
    <3>3. FirstLevel(taken) = {root} /\ root.elements = taken
      BY <3>1 DEF FirstLevel
    <3> QED BY <3>2, <3>3 DEF Fine
  <2>2. levels[0] = FirstLevel(taken)
    BY <1>1
  <2> QED BY <1>2, <2>1, <2>2
<1>4. ASSUME NEW d \in Nat, d \in T PROVE d + 1 \in T
  <2>1. d + 1 \in Nat /\ d + 1 # 0 /\ d + 1 - 1 = d
    OBVIOUS
  <2>2. levels[d + 1] = NextLevel(levels[d])
    BY <1>1, <2>1
  <2>3. Fine(levels[d], W)
    BY <1>2, <1>4
  <2>4. Fine(levels[d + 1], W)
    BY <2>2, <2>3, NextIsFine
  <2> QED BY <1>2, <2>1, <2>4
<1>5. \A d \in Nat : d \in T
  BY <1>3, <1>4, Inductive
<1> QED BY <1>2, <1>5

(* A slice that ends copies the lists inside those that it copies.          *)
LEMMA CopiedFacts ==
    ASSUME NEW W, Live(W), NEW taken \in Seq(W), ~Endless(taken), NEW copied, copied = Copied(taken)
    PROVE  /\ Fine(copied, W)
           /\ [path |-> <<>>, elements |-> taken] \in copied
           /\ \A list \in copied : Inside(list) \subseteq copied
<1>1. PICK levels : levels = Levels(taken)
  OBVIOUS
<1>2. PICK depth \in Nat : depth = Depth
  <2>1. IsFiniteSet(DOMAIN lists)
    BY DEF Live, Data
  <2>2. Cardinality(DOMAIN lists) \in Nat
    BY <2>1, FS_CardinalityType
  <2> QED BY <2>2 DEF Depth
<1>3. \A d \in Nat : levels[d] = IF d = 0 THEN FirstLevel(taken) ELSE NextLevel(levels[d - 1])
  BY <1>1, LevelsUnfold
<1>4. \A d \in Nat : Fine(levels[d], W)
  BY <1>1, LevelsAreFine
<1>5. copied = UNION {levels[d] : d \in 0..depth}
  BY <1>1, <1>2 DEF Copied
<1>6. levels[depth + 1] = {}
  BY <1>1, <1>2 DEF Endless
<1>7. Fine(copied, W)
  <2>1. PICK sets : sets = {levels[d] : d \in 0..depth}
    OBVIOUS
  <2>2. IsFiniteSet(sets)
    <3>1. IsFiniteSet(0..depth)
      BY FS_Interval
    <3> QED BY <2>1, <3>1, FiniteImage
  <2>3. \A s \in sets : Fine(s, W)
    BY <1>4, <2>1
  <2>4. IsFiniteSet(UNION sets)
    BY <2>2, <2>3, FS_UNION DEF Fine
  <2> QED BY <1>5, <2>1, <2>3, <2>4 DEF Fine
<1>8. [path |-> <<>>, elements |-> taken] \in copied
  <2>1. 0 \in 0..depth /\ levels[0] = FirstLevel(taken)
    BY <1>3
  <2> QED BY <1>5, <2>1 DEF FirstLevel
<1>9. ASSUME NEW list \in copied PROVE Inside(list) \subseteq copied
  <2>1. PICK d \in 0..depth : list \in levels[d]
    BY <1>5
  <2>2. d + 1 \in Nat /\ d + 1 # 0 /\ d + 1 - 1 = d /\ (d + 1 \in 0..depth \/ d + 1 = depth + 1)
    BY <2>1
  <2>3. levels[d + 1] = NextLevel(levels[d])
    BY <1>3, <2>2
  <2>4. Inside(list) \subseteq levels[d + 1]
    BY <2>1, <2>3 DEF NextLevel
  <2>5. d + 1 \in 0..depth => levels[d + 1] \subseteq copied
    BY <1>5
  <2>6. d + 1 = depth + 1 => levels[d + 1] = {}
    BY <1>6
  <2> QED BY <2>2, <2>4, <2>5, <2>6
<1> QED BY <1>7, <1>8, <1>9

(* The identifiers of the copies.                                           *)
NewIds(copied) == {NewId(list.path) : list \in copied}

(* The copies hold new lists, numbers and null pointers.                    *)
LEMMA CopyIsFine ==
    ASSUME NEW W, Live(W), NEW copied, \A list \in copied : Inside(list) \subseteq copied,
           NEW list \in copied, list.elements \in Seq(W),
           NEW V, W \subseteq V, \A id \in NewIds(copied) : ListObject(id) \in V
    PROVE  CopyOf(list) \in Seq(V)
<1>1. PICK n \in Nat : DOMAIN list.elements = 1..n
  OBVIOUS
<1>2. PICK copy : copy = CopyOf(list)
  OBVIOUS
<1>3. ASSUME NEW i \in 1..n PROVE copy[i] \in V
  <2>1. PICK v \in W : v = list.elements[i]
    BY <1>1
  <2>2. copy[i] = CASE v.v = "int" -> v
                    [] v.v = "list" -> ListObject(NewId(Append(list.path, i)))
                    [] OTHER -> NullPtr
    BY <1>1, <1>2, <2>1 DEF CopyOf
  <2>3. CASE v.v = "list"
    <3>1. PICK inner : inner = [path |-> Append(list.path, i), elements |-> lists[list.elements[i].id]]
      OBVIOUS
    <3>2. inner \in Inside(list) /\ inner.path = Append(list.path, i)
      BY <1>1, <2>1, <2>3, <3>1 DEF Inside
    <3>3. NewId(inner.path) \in NewIds(copied)
      BY <3>2 DEF NewIds
    <3>4. copy[i] = ListObject(NewId(inner.path))
      BY <2>2, <2>3, <3>2
    <3> QED BY <3>3, <3>4
  <2>4. CASE v.v # "list"
    <3>1. v \in V /\ NullPtr \in V
      BY <2>1, PlainResults
    <3>2. copy[i] = v \/ copy[i] = NullPtr
      BY <2>2, <2>4
    <3> QED BY <3>1, <3>2
  <2> QED BY <2>3, <2>4
<1>4. copy \in [1..n -> V]
  BY <1>1, <1>2, <1>3 DEF CopyOf
<1> QED BY <1>2, <1>4

(* The copies, what is sliced, and what TakeSlice does, by what it finds.   *)
SliceCopies(copied) ==
    [id \in NewIds(copied) |-> CopyOf(CHOOSE list \in copied : NewId(list.path) = id)]

SliceLeft == Below(3)
IsSlice == SliceLeft.v = "list" /\ \A i \in 0..2 : IsBound(Below(i))
SliceTaken == Taken(lists[SliceLeft.id], Below(2), Below(1), Below(0))

SliceOutcome(taken, copied) ==
    CASE sp < 4 -> Next1 /\ UNCHANGED <<status, stack, sp, lists, output>>
      [] sp >= 4 /\ ~IsSlice ->
            PopPush(4, <<NullObject>>) /\ Next1 /\ UNCHANGED <<status, lists, output>>
      [] sp >= 4 /\ IsSlice /\ (Endless(taken) \/ HasHoleIn(taken)) ->
            status' = "crashed" /\ UNCHANGED <<stack, sp, frames, lists, output>>
      [] OTHER ->
            /\ lists' = WithLists(SliceCopies(copied))
            /\ output' = output \o [i \in 1..Refusals(taken) |-> [shown |-> "no copy"]]
            /\ PopPush(4, <<ListObject(NewId(<<>>))>>)
            /\ Next1
            /\ UNCHANGED status

(* That is what TakeSlice does.                                             *)
LEMMA SliceActs ==
    ASSUME TakeSlice
    PROVE  /\ Executes({"SLICE"}) /\ UNCHANGED <<globals, memberVars, constructions>>
           /\ SliceOutcome(SliceTaken, Copied(SliceTaken))
  BY Zenon DEF TakeSlice, SliceOutcome, SliceTaken, IsSlice, SliceLeft, SliceCopies, NewIds

(* A slice that is made.                                                    *)
LEMMA SliceMakes ==
    ASSUME Runnable, NEW W, Live(W), Executes({"SLICE"}), Next1,
           UNCHANGED <<status, globals, memberVars, constructions>>,
           4 <= sp, sp - 4 < StackSize, Growth(Instruction) = -3,
           NEW taken \in Seq(W), ~Endless(taken), NEW copied, copied = Copied(taken),
           lists' = WithLists(SliceCopies(copied)),
           NEW root, root = ListObject(NewId(<<>>)), PopPush(4, <<root>>)
    PROVE  \E V : Live(V)'
<1>1. /\ Fine(copied, W)
      /\ [path |-> <<>>, elements |-> taken] \in copied
      /\ \A list \in copied : Inside(list) \subseteq copied
  BY CopiedFacts
<1>2. PICK ids, new, V : ids = NewIds(copied) /\ new = {ListObject(id) : id \in ids} /\ V = W \union new
  OBVIOUS
<1>3. W \subseteq V /\ (\A id \in ids : ListObject(id) \in V) /\ Seq(W) \subseteq Seq(V)
  <2>1. W \subseteq V
    BY <1>2
  <2> QED BY <1>2, <2>1, SeqMonotonic
<1>4. PICK copies : copies = SliceCopies(copied)
  OBVIOUS
<1>5. DOMAIN copies = ids /\ \A id \in ids : copies[id] \in Seq(V)
  <2>1. DOMAIN copies = ids
    BY <1>2, <1>4 DEF SliceCopies
  <2>2. ASSUME NEW id \in ids PROVE copies[id] \in Seq(V)
    <3>1. PICK list : list = CHOOSE l \in copied : NewId(l.path) = id
      OBVIOUS
    <3>2. \E l \in copied : NewId(l.path) = id
      BY <1>2, <2>2 DEF NewIds
    <3>3. list \in copied
      BY <3>1, <3>2
    <3>4. list.elements \in Seq(W)
      BY <1>1, <3>3 DEF Fine
    <3>5. \A i \in NewIds(copied) : ListObject(i) \in V
      BY <1>2, <1>3
    <3>6. CopyOf(list) \in Seq(V)
      BY <1>1, <1>3, <3>3, <3>4, <3>5, CopyIsFine
    <3>7. copies[id] = CopyOf(list)
      BY <1>2, <1>4, <2>2, <3>1 DEF SliceCopies
    <3> QED BY <3>6, <3>7
  <2> QED BY <2>1, <2>2
<1>6. lists \in [DOMAIN lists -> Seq(W)] /\ IsFiniteSet(DOMAIN lists)
  BY DEF Live, Data
<1>7. /\ DOMAIN lists' = DOMAIN lists \union ids
      /\ lists' \in [DOMAIN lists' -> Seq(V)]
  <2>1. lists' = [id \in DOMAIN lists \union DOMAIN copies |->
                    IF id \in DOMAIN copies THEN copies[id] ELSE lists[id]]
    BY <1>4 DEF WithLists
  <2>2. lists' = [id \in DOMAIN lists \union ids |-> IF id \in ids THEN copies[id] ELSE lists[id]]
    BY <1>5, <2>1
  <2>3. \A id \in DOMAIN lists : lists[id] \in Seq(V)
    BY <1>3, <1>6
  <2>4. DOMAIN lists' = DOMAIN lists \union ids
    BY <2>2
  <2>5. \A id \in DOMAIN lists \union ids : lists'[id] \in Seq(V)
    BY <1>5, <2>2, <2>3
  <2> QED BY <2>2, <2>4, <2>5
<1>8. IsFiniteSet(DOMAIN lists')
  <2>1. PICK f : f = [list \in copied |-> NewId(list.path)]
    OBVIOUS
  <2>2. ids = {f[list] : list \in copied}
    BY <1>2, <2>1 DEF NewIds
  <2>3. IsFiniteSet({f[list] : list \in copied})
    BY <1>1, FiniteImage DEF Fine
  <2>4. IsFiniteSet(ids)
    BY <2>2, <2>3
  <2>5. IsFiniteSet(DOMAIN lists \union ids)
    BY <1>6, <2>4, FS_Union
  <2> QED BY <1>7, <2>5
<1>9. root \in V
  <2>1. PICK top : top = [path |-> <<>>, elements |-> taken]
    OBVIOUS
  <2>2. top \in copied /\ top.path = <<>>
    BY <1>1, <2>1
  <2>3. NewId(<<>>) \in ids
    BY <1>2, <2>2 DEF NewIds
  <2> QED BY <1>3, <2>3
<1>10. sp' = sp + Growth(Instruction) /\ sp' \in 0..StackSize /\ stack' \in [Slots -> V]
  <2>1. sp' = sp - 4 + 1 /\ sp' \in 0..StackSize /\ stack' \in [Slots -> V]
    BY <1>3, <1>9, PopPushOne
  <2> QED BY <2>1, LiveFacts
<1>11. UNCHANGED bytecode /\ status = "running" /\ Instruction.op = "SLICE"
  BY ExecutesFacts
<1>12. /\ Data(V)' /\ Len(instances') = Len(instances) /\ Len(instances') \in Nat
       /\ Len(instances) <= Len(instances')
  <2>1. UNCHANGED <<bytecode, globals, memberVars>>
    BY <1>11
  <2> QED BY <1>3, <1>7, <1>8, <1>10, <2>1, ListsData
<1>13. \A u \in new : Joins(u, W, Callable, DOMAIN lists', Len(instances'))
  BY <1>2, <1>7 DEF Joins
<1>14. DOMAIN lists \subseteq DOMAIN lists' /\ status' \in {"running", "halted", "crashed"}
       /\ UNCHANGED constructions /\ Instruction.op \notin {"JUMP", "RETURN_VALUE", "RETURN"}
  BY <1>7, <1>11
<1> QED BY <1>2, <1>10, <1>12, <1>13, <1>14, StepsWith

(* A slice keeps the invariant: four operands are replaced by the copy of a *)
(* list.                                                                    *)
LEMMA TakeSliceLives ==
    ASSUME Runnable, NEW W, Live(W), MeetsNoError, TakeSlice
    PROVE  \E V : Live(V)'
<1>1. /\ Executes({"SLICE"}) /\ UNCHANGED <<globals, memberVars, constructions>>
      /\ SliceOutcome(SliceTaken, Copied(SliceTaken))
  BY SliceActs
<1>2. /\ Ready /\ Instruction.op = "SLICE" /\ status = "running" /\ UNCHANGED bytecode
      /\ executed' \in 0..MaxInstructions
  BY <1>1, ExecutesFacts
<1>3. Growth(Instruction) = -3 /\ 4 <= Operands
  <2>1. Growth(Instruction) = -3 /\ Operands + Growth(Instruction) >= 1 /\ Operands \in Nat
    BY <1>2, Fetched DEF Growth, OperandsExist, LeavingValue
  <2> QED BY <2>1
<1>4. 4 <= sp /\ sp \in Nat /\ sp - 4 < StackSize
  BY <1>2, <1>3, OperandsOnStack, LiveFacts, MachineAssumption
<1>a. ~(sp < 4) /\ sp >= 4
  BY <1>4
<1>5. CASE ~IsSlice
  <2>1. PopPush(4, <<NullObject>>) /\ Next1 /\ UNCHANGED <<status, lists, output>>
    BY <1>1, <1>a, <1>5, Zenon DEF SliceOutcome
  <2>2. UNCHANGED <<status, globals, objectVars>>
    BY <1>1, <2>1 DEF objectVars, heapVars
  <2>3. NullObject \in W
    BY PlainResults
  <2>4. Instruction.op \notin {"JUMP", "RETURN_VALUE", "RETURN"} /\ Growth(Instruction) = 1 - 4
    BY <1>2, <1>3
  <2> QED BY <1>1, <1>4, <2>1, <2>2, <2>3, <2>4, YieldsOne
<1>6. CASE IsSlice /\ (Endless(SliceTaken) \/ HasHoleIn(SliceTaken))
  <2>1. status' = "crashed" /\ UNCHANGED <<stack, sp, frames, lists, output>>
    BY <1>1, <1>a, <1>6, Zenon DEF SliceOutcome
  <2>2. UNCHANGED <<bytecode, stack, sp, frames, globals, objectVars>>
    BY <1>1, <1>2, <2>1 DEF objectVars, heapVars
  <2> QED BY <1>2, <2>1, <2>2, Stops
<1>7. CASE IsSlice /\ ~(Endless(SliceTaken) \/ HasHoleIn(SliceTaken))
  <2>1. /\ lists' = WithLists(SliceCopies(Copied(SliceTaken)))
        /\ PopPush(4, <<ListObject(NewId(<<>>))>>) /\ Next1 /\ UNCHANGED status
    BY <1>1, <1>a, <1>7, Zenon DEF SliceOutcome
  <2>2. PICK left \in W : left = Below(3)
    BY BelowIsValue
  <2>3. PICK start \in W : start = Below(2)
    BY BelowIsValue
  <2>4. PICK end \in W : end = Below(1)
    BY BelowIsValue
  <2>5. PICK by \in W : by = Below(0)
    BY BelowIsValue
  <2>6. left.v = "list" /\ IsBound(start) /\ IsBound(end) /\ IsBound(by)
    BY <1>7, <2>2, <2>3, <2>4, <2>5 DEF IsSlice, SliceLeft
  <2>7. PICK list \in Seq(W) : list = lists[left.id]
    BY <2>2, <2>6, ListIsKnown
  <2>8. list = <<>> => ~(start.v = "int" /\ start.n = INT_MAX)
    <3>1. HasResult
      BY <1>2 DEF MeetsNoError, Ready
    <3> QED BY <1>2, <2>2, <2>3, <2>6, <2>7, <3>1 DEF HasResult
  <2>9. Taken(list, start, end, by) \in Seq(W)
    BY <2>3, <2>4, <2>5, <2>6, <2>7, <2>8, TakenIsSequence
  <2>10. PICK taken \in Seq(W) : taken = SliceTaken
    BY <2>2, <2>3, <2>4, <2>5, <2>7, <2>9 DEF SliceTaken, SliceLeft
  <2>11. PICK copied, root : copied = Copied(taken) /\ root = ListObject(NewId(<<>>))
    OBVIOUS
  <2>12. ~Endless(taken) /\ lists' = WithLists(SliceCopies(copied)) /\ PopPush(4, <<root>>)
    BY <1>7, <2>1, <2>10, <2>11
  <2>13. Growth(Instruction) = -3 /\ UNCHANGED <<status, globals, memberVars, constructions>>
    BY <1>1, <1>3, <2>1
  <2> QED BY <1>1, <1>4, <2>1, <2>10, <2>11, <2>12, <2>13, SliceMakes
<1> QED BY <1>5, <1>6, <1>7

-----------------------------------------------------------------------------
(* The machine as a whole.                                                  *)

(* Every step of the machine.                                               *)
LEMMA StepLives ==
    ASSUME Runnable, NEW W, Live(W), MeetsNoError, MeetsNoError', Step
    PROVE  \E V : Live(V)'
<1>1. CASE LoadValue
  BY <1>1, LoadValueLives
<1>2. CASE BinaryOperation
  BY <1>2, BinaryOperationLives
<1>3. CASE Compare
  BY <1>3, CompareLives
<1>4. CASE UnaryOperation
  BY <1>4, UnaryOperationLives
<1>5. CASE Pop
  BY <1>5, PopLives
<1>6. CASE FileStmtOutput
  BY <1>6, FileStmtOutputLives
<1>7. CASE SetGlobal
  BY <1>7, SetGlobalLives
<1>8. CASE SetLocal
  BY <1>8, SetLocalLives
<1>9. CASE Jump
  BY <1>9, JumpLives
<1>10. CASE JumpNotTruthy
  BY <1>10, JumpNotTruthyLives
<1>11. CASE MakeClosure
  BY <1>11, MakeClosureLives
<1>12. CASE LookUp
  BY <1>12, LookUpLives
<1>13. CASE SetMember
  BY <1>13, SetMemberLives
<1>14. CASE MakeList
  BY <1>14, MakeListLives
<1>15. CASE GetElement
  BY <1>15, GetElementLives
<1>16. CASE SetElement
  BY <1>16, SetElementLives
<1>17. CASE TakeSlice
  BY <1>17, TakeSliceLives
<1>18. CASE CallFunction
  BY <1>18, CallFunctionLives
<1>19. CASE CallClass
  BY <1>19, CallClassLives
<1>20. CASE CallKw
  BY <1>20, CallKwLives
<1>21. CASE Construct
  BY <1>21, ConstructLives
<1>22. CASE CallBuiltin
  BY <1>22, CallPrintLives, CallLenLives, CallAppendLives, CallPopLives DEF CallBuiltin
<1>23. CASE CallOther
  BY <1>23, CallOtherLives
<1>24. CASE ReturnValue
  BY <1>24, ReturnValueLives
<1>25. CASE Halt
  BY <1>25, HaltLives
<1> QED
  BY <1>1, <1>2, <1>3, <1>4, <1>5, <1>6, <1>7, <1>8, <1>9, <1>10, <1>11, <1>12, <1>13, <1>14,
     <1>15, <1>16, <1>17, <1>18, <1>19, <1>20, <1>21, <1>22, <1>23, <1>24, <1>25 DEF Step

(* The machine before it is loaded.                                         *)
Fresh ==
    /\ stack = [i \in Slots |-> NullPtr] /\ sp = 0 /\ frames = <<>>
    /\ lists = [id \in {} |-> <<>>] /\ instances = <<>> /\ constructions = <<>> /\ executed = 0

(* The values that a program begins with.                                   *)
FirstValues ==
    {NullPtr, NullObject, ErrorObject}
        \union {IntObject(i) : i \in Int} \union {BoolObject(b) : b \in BOOLEAN}
        \union {BuiltinObject(i) : i \in Nat}
        \union {Closure(f, <<>>) : f \in {g \in DOMAIN Callable : 0 \in Callable[g]}}
        \union {bytecode.constants[i] : i \in DOMAIN bytecode.constants}
        \union UNION {{bytecode.functions[f].defaults[i] : i \in DOMAIN bytecode.functions[f].defaults} :
                        f \in DOMAIN bytecode.functions}

(* What Valid asks of a value.                                              *)
ValueFits(v, W, callable, classes, ids, n) ==
    /\ v.v = "int" => v.n \in Int
    /\ v.v = "closure" => v.free \in Seq(W) /\ v.fn \in DOMAIN callable /\ Len(v.free) \in callable[v.fn]
    /\ v.v = "bound" => v.owner \in 1..n /\ v.cl \in W /\ v.cl.v = "closure"
    /\ v.v = "list" => v.id \in ids
    /\ v.v = "instance" => v.id \in 1..n
    /\ v.v = "class" => v.class \in classes

(* A literal refers to functions and classes only.                          *)
LEMMA LiteralFits ==
    ASSUME NEW v, IsLiteral(v), NEW W, NEW callable, NEW ids, NEW n
    PROVE  ValueFits(v, W, callable, DOMAIN bytecode.classes, ids, n)
<1>1. v.v \in {"int", "function", "class", "string", "newBool", "null"}
  BY DEF IsLiteral
<1>2. v.v = "int" => v.n \in Int
  BY DEF IsLiteral
<1>3. v.v = "class" => v.class \in DOMAIN bytecode.classes
  BY DEF IsLiteral
<1> QED BY <1>1, <1>2, <1>3 DEF ValueFits

(* The values that a program begins with refer to what exists.              *)
LEMMA FirstWorld ==
    ASSUME Runnable, NEW W, W = FirstValues
    PROVE  /\ Valid(W, Callable, DOMAIN bytecode.classes, {}, 0)
           /\ \A i \in DOMAIN bytecode.constants : bytecode.constants[i] \in W
           /\ \A f \in DOMAIN bytecode.functions :
                 \A i \in DOMAIN bytecode.functions[f].defaults : bytecode.functions[f].defaults[i] \in W
<1>1. PICK callable, classes : callable = Callable /\ classes = DOMAIN bytecode.classes
  OBVIOUS
<1>2. /\ {NullPtr, NullObject, ErrorObject} \subseteq W
      /\ \A i \in Int : IntObject(i) \in W
      /\ \A b \in BOOLEAN : BoolObject(b) \in W
      /\ \A i \in Nat : BuiltinObject(i) \in W
  BY DEF FirstValues
<1>3. \A f \in DOMAIN callable : 0 \in callable[f] => Closure(f, <<>>) \in W
  BY <1>1 DEF FirstValues
<1>4. \A i \in DOMAIN bytecode.constants : bytecode.constants[i] \in W
  BY DEF FirstValues
<1>5. \A f \in DOMAIN bytecode.functions :
        \A i \in DOMAIN bytecode.functions[f].defaults : bytecode.functions[f].defaults[i] \in W
  BY DEF FirstValues
<1>6. ASSUME NEW v \in W PROVE ValueFits(v, W, callable, classes, {}, 0)
  <2>1. CASE v \in {NullPtr, NullObject, ErrorObject}
    BY <2>1 DEF ValueFits, NullPtr, NullObject, ErrorObject
  <2>2. CASE \E i \in Int : v = IntObject(i)
    BY <2>2 DEF ValueFits, IntObject
  <2>3. CASE \E b \in BOOLEAN : v = BoolObject(b)
    BY <2>3 DEF ValueFits, BoolObject
  <2>4. CASE \E i \in Nat : v = BuiltinObject(i)
    BY <2>4 DEF ValueFits, BuiltinObject
  <2>5. CASE \E f \in DOMAIN callable : 0 \in callable[f] /\ v = Closure(f, <<>>)
    <3>1. PICK f \in DOMAIN callable : 0 \in callable[f] /\ v = Closure(f, <<>>)
      BY <2>5
    <3>2. <<>> \in Seq(W) /\ Len(<<>>) = 0
      OBVIOUS
    <3>3. v.v = "closure" /\ v.free = <<>> /\ v.fn = f
      BY <3>1 DEF Closure
    <3> QED BY <3>1, <3>2, <3>3 DEF ValueFits
  <2>6. CASE IsLiteral(v)
    BY <1>1, <2>6, LiteralFits
  <2>7. \/ v \in {NullPtr, NullObject, ErrorObject}
        \/ \E i \in Int : v = IntObject(i)
        \/ \E b \in BOOLEAN : v = BoolObject(b)
        \/ \E i \in Nat : v = BuiltinObject(i)
        \/ \E f \in DOMAIN callable : 0 \in callable[f] /\ v = Closure(f, <<>>)
        \/ \E i \in DOMAIN bytecode.constants : v = bytecode.constants[i]
        \/ \E f \in DOMAIN bytecode.functions :
              \E i \in DOMAIN bytecode.functions[f].defaults : v = bytecode.functions[f].defaults[i]
    BY <1>1 DEF FirstValues
  <2>8. \A i \in DOMAIN bytecode.constants : IsLiteral(bytecode.constants[i])
    BY DEF Runnable
  <2>9. \A f \in DOMAIN bytecode.functions :
          \A i \in DOMAIN bytecode.functions[f].defaults : IsLiteral(bytecode.functions[f].defaults[i])
    BY DEF Runnable, FunctionWellFormed
  <2> QED BY <2>1, <2>2, <2>3, <2>4, <2>5, <2>6, <2>7, <2>8, <2>9
<1>7. Valid(W, callable, classes, {}, 0)
  BY <1>2, <1>3, <1>6 DEF Valid, ValueFits
<1> QED BY <1>1, <1>4, <1>5, <1>7

(* The machine is loaded with the invariant.                                *)
LEMMA LoadLives ==
    ASSUME Runnable, Fresh, Load
    PROVE  \E V : Live(V)'
<1>1. /\ status' = "running" /\ frames' = <<Frame(Main, 0, 0)>> /\ globals' = [i \in {} |-> NullPtr]
      /\ fieldIndex' = [class \in DOMAIN bytecode.classes |-> bytecode.classes[class].fields]
      /\ UNCHANGED <<bytecode, stack, sp, lists, instances, constructions, executed>>
  BY DEF Load, Main
<1>2. /\ stack = [i \in Slots |-> NullPtr] /\ sp = 0
      /\ lists = [id \in {} |-> <<>>] /\ instances = <<>> /\ constructions = <<>> /\ executed = 0
  BY DEF Fresh
<1>3. PICK W : W = FirstValues
  OBVIOUS
<1>4. /\ Valid(W, Callable, DOMAIN bytecode.classes, {}, 0)
      /\ \A i \in DOMAIN bytecode.constants : bytecode.constants[i] \in W
      /\ \A f \in DOMAIN bytecode.functions :
            \A i \in DOMAIN bytecode.functions[f].defaults : bytecode.functions[f].defaults[i] \in W
  BY <1>3, FirstWorld
<1>5. World(W)'
  <2>1. DOMAIN lists' = {} /\ Len(instances') = 0
    BY <1>1, <1>2
  <2>2. Callable' = Callable
    BY <1>1, SameCallable
  <2> QED BY <1>1, <1>4, <2>1, <2>2 DEF World
<1>6. Data(W)'
  <2>1. NullPtr \in W
    BY <1>4 DEF Valid
  <2>2. stack' \in [Slots -> W]
    BY <1>1, <1>2, <2>1
  <2>3. globals' \in [DOMAIN globals' -> W]
    BY <1>1
  <2>4. lists' \in [DOMAIN lists' -> Seq(W)] /\ IsFiniteSet(DOMAIN lists')
    <3>1. DOMAIN lists' = {}
      BY <1>1, <1>2
    <3>2. IsFiniteSet({})
      BY FS_EmptySet
    <3> QED BY <1>1, <1>2, <3>1, <3>2
  <2>5. instances' = <<>> /\ DOMAIN instances' = {}
    BY <1>1, <1>2
  <2>6. \A k \in DOMAIN bytecode.classes : \A name \in DOMAIN bytecode.classes[k].fields :
           bytecode.classes[k].fields[name] \in 0..Dynamic - 1
    BY DEF Runnable, ClassWellFormed
  <2>7. /\ DOMAIN fieldIndex' = DOMAIN bytecode'.classes
        /\ \A k \in DOMAIN fieldIndex' : \A name \in DOMAIN fieldIndex'[k] :
              fieldIndex'[k][name] \in 0..Dynamic - 1
    BY <1>1, <2>6
  <2>8. instances' \in Seq(Objects(W))' /\ \A i \in DOMAIN instances' : Len(instances'[i].fields) <= Dynamic
    BY <2>5
  <2> QED BY <2>2, <2>3, <2>4, <2>7, <2>8 DEF Data
<1>7. PICK fr : fr = Frame(Main, 0, 0)
  OBVIOUS
<1>8. /\ frames' = <<fr>> /\ Len(frames') = 1 /\ DOMAIN frames' = {1} /\ frames'[1] = fr
      /\ fr.cl = Main /\ fr.ip = 0 /\ fr.base = 0 /\ fr.bound = 0
  BY <1>1, <1>7 DEF Frame
<1>9. Calls(W)'
  <2>1. fr \in [cl : W \union {Main}, ip : Nat, base : 0..StackSize, bound : Nat]
    BY <1>7, MachineAssumption DEF Frame
  <2>2. frames' \in Seq(Frames(W))'
    BY <1>8, <2>1 DEF Frames, Main, Closure
  <2>3. constructions' \in Seq(Constructions(W))'
    BY <1>1, <1>2
  <2>4. \A k \in DOMAIN frames' : frames'[k].cl \in IF k = 1 THEN {Main} ELSE W
    BY <1>8
  <2> QED BY <2>2, <2>3, <2>4 DEF Calls, Main, Closure
<1>10. /\ 0 \in DOMAIN Depths(bytecode.code) /\ Depths(bytecode.code)[0] = 0
       /\ LocalsOf(Main) = 0 /\ CodeOf(Main) = bytecode.code /\ Main.v = "closure"
  <2>1. IsProgram(bytecode.code)
    BY DEF Runnable
  <2> QED BY <2>1, MainCode DEF IsProgram, WellFormed
<1>11. Balance(1)' = 0
  <2>1. Balance(1)' = BalanceOf(fr)
    BY <1>1, <1>8, BalanceAt
  <2>2. BalanceOf(fr) = 0
    BY <1>8, <1>10 DEF BalanceOf
  <2> QED BY <2>1, <2>2
<1>12. StackBalanced'
  <2>1. Len(frames)' = 1 /\ sp' = Balance(1)'
    BY <1>1, <1>2, <1>8, <1>11
  <2> QED BY <2>1, BalancedAt
<1>13. Framed'
  <2>1. FrameFits(1)'
    <3>1. CodeOf(Main)' = bytecode.code
      BY <1>1, <1>10 DEF CodeOf, FunctionOf, Main, Closure
    <3>2. Main' = Main /\ Len(instances') = 0
      BY <1>1, <1>2 DEF Main, Closure
    <3> QED BY <1>8, <1>10, <3>1, <3>2 DEF FrameFits
  <2>2. \A k \in DOMAIN frames' : FrameFits(k)'
    BY <1>8, <2>1
  <2>3. 1..Len(frames') - 1 = {}
    BY <1>8
  <2>4. DOMAIN constructions' = {}
    BY <1>1, <1>2
  <2>5. /\ status' = "running" /\ frames' # <<>> /\ sp' \in 0..StackSize /\ executed' \in 0..MaxInstructions
    BY <1>1, <1>2, <1>8, MachineAssumption
  <2> QED BY <2>2, <2>3, <2>4, <2>5 DEF Framed
<1> QED BY <1>5, <1>6, <1>9, <1>12, <1>13 DEF Live

(* Runnable is a property of the bytecode.                                  *)
LEMMA RunnableKept ==
    ASSUME UNCHANGED bytecode
    PROVE  Runnable' <=> Runnable
  BY DEF Runnable, Codes, ClassWellFormed, FunctionWellFormed, IsLiteral, IsFunction, IsProgram,
         WellFormed, OperandsExist, Lineage, Initializers

(* A step of another component keeps the invariant.                         *)
LEMMA MachineKept ==
    ASSUME NEW W, Live(W), UNCHANGED <<bytecode, machineVars>>
    PROVE  Live(W)'
<1>1. UNCHANGED <<bytecode, stack, sp, frames, globals, objectVars>> /\ UNCHANGED <<status, executed>>
  BY DEF machineVars
<1>2. executed' \in 0..MaxInstructions /\ status' \in {"running", "crashed", "halted", "out of budget"}
  BY <1>1 DEF Live, Framed
<1> QED BY <1>1, <1>2, Rests

(* Only a machine that runs takes steps, and none changes its code.         *)
LEMMA StepRuns ==
    ASSUME Step
    PROVE  status = "running" /\ UNCHANGED bytecode
<1>0. \A ops : Executes(ops) => status = "running" /\ UNCHANGED bytecode
  BY DEF Executes
<1>1. CASE LoadValue
  BY <1>0, <1>1 DEF LoadValue
<1>2. CASE BinaryOperation
  BY <1>0, <1>2 DEF BinaryOperation
<1>3. CASE Compare
  BY <1>0, <1>3 DEF Compare
<1>4. CASE UnaryOperation
  BY <1>0, <1>4 DEF UnaryOperation
<1>5. CASE Pop
  BY <1>0, <1>5 DEF Pop
<1>6. CASE FileStmtOutput
  BY <1>0, <1>6 DEF FileStmtOutput
<1>7. CASE SetGlobal
  BY <1>0, <1>7 DEF SetGlobal
<1>8. CASE SetLocal
  BY <1>0, <1>8 DEF SetLocal
<1>9. CASE Jump
  BY <1>0, <1>9 DEF Jump
<1>10. CASE JumpNotTruthy
  BY <1>0, <1>10 DEF JumpNotTruthy
<1>11. CASE MakeClosure
  BY <1>0, <1>11 DEF MakeClosure
<1>12. CASE LookUp
  BY <1>0, <1>12 DEF LookUp
<1>13. CASE SetMember
  BY <1>0, <1>13 DEF SetMember
<1>14. CASE MakeList
  BY <1>0, <1>14 DEF MakeList
<1>15. CASE GetElement
  BY <1>0, <1>15 DEF GetElement
<1>16. CASE SetElement
  BY <1>0, <1>16 DEF SetElement
<1>17. CASE TakeSlice
  BY <1>0, <1>17 DEF TakeSlice
<1>18. CASE CallFunction
  BY <1>0, <1>18 DEF CallFunction
<1>19. CASE CallClass
  BY <1>0, <1>19 DEF CallClass
<1>20. CASE CallKw
  BY <1>0, <1>20 DEF CallKw
<1>21. CASE CallOther
  BY <1>0, <1>21 DEF CallOther
<1>22. CASE ReturnValue
  BY <1>0, <1>22 DEF ReturnValue
<1>23. CASE CallBuiltin
  BY <1>0, <1>23 DEF CallBuiltin, CallPrint, CallLen, CallAppend, CallPop, CallsBuiltin
<1>24. CASE Construct
  BY <1>24 DEF Construct
<1>25. CASE Halt
  BY <1>25 DEF Halt
<1> QED
  BY <1>1, <1>2, <1>3, <1>4, <1>5, <1>6, <1>7, <1>8, <1>9, <1>10, <1>11, <1>12, <1>13, <1>14, <1>15, <1>16, <1>17, <1>18, <1>19, <1>20, <1>21, <1>22, <1>23, <1>24, <1>25 DEF Step

(* The machine is as it was made until it is loaded, and it is loaded with  *)
(* code that it can run.                                                    *)
LanguageInv ==
    /\ phase \in {"text", "parsed", "evaluated", "compiled"}
    /\ phase # "compiled" => status = "idle"
    /\ status = "idle" => Fresh
    /\ status # "idle" => Runnable /\ \E W : Live(W)

(* Nothing has happened at first.                                           *)
LEMMA LanguageInitial == LanguageInit => LanguageInv
  BY DEF LanguageInit, Init, LanguageInv, Fresh, Slots

(* Every step keeps it.  The bytecode that is loaded is known to be well-   *)
(* formed then; a call needs room in the state after it.                    *)
LEMMA LanguageStep ==
    ASSUME LanguageInv, BytecodeWellFormed, MeetsNoError, MeetsNoError', [Next]_vars
    PROVE  LanguageInv'
<1>1. CASE Parse \/ Evaluate \/ Compile
  <2>1. status = "idle" /\ UNCHANGED machineVars /\ phase' \in {"parsed", "evaluated", "compiled"}
    BY <1>1 DEF Parse, Evaluate, Compile, LanguageInv
  <2>2. status' = "idle" /\ Fresh'
    BY <2>1 DEF LanguageInv, Fresh, machineVars, objectVars, heapVars, memberVars
  <2> QED BY <2>1, <2>2 DEF LanguageInv
<1>2. CASE phase = "compiled" /\ Load /\ UNCHANGED languageVars
  <2>1. status = "idle" /\ status' = "running" /\ UNCHANGED bytecode
    BY <1>2 DEF Load
  <2>2. Runnable /\ Fresh
    BY <1>2, <2>1 DEF BytecodeWellFormed, LanguageInv
  <2>3. \E W : Live(W)'
    BY <1>2, <2>2, LoadLives
  <2>4. Runnable' /\ phase' = "compiled"
    BY <1>2, <2>1, <2>2, RunnableKept DEF languageVars
  <2> QED BY <2>1, <2>3, <2>4 DEF LanguageInv
<1>3. CASE phase = "compiled" /\ Step /\ UNCHANGED languageVars
  <2>1. status = "running" /\ UNCHANGED bytecode
    BY <1>3, StepRuns
  <2>2. Runnable /\ \E W : Live(W)
    BY <2>1 DEF LanguageInv
  <2>3. PICK W : Live(W)
    BY <2>2
  <2>4. PICK V : Live(V)'
    BY <1>3, <2>2, <2>3, StepLives
  <2>5. status' # "idle"
    BY <2>4 DEF Live, Framed
  <2>6. Runnable' /\ phase' = "compiled"
    BY <1>3, <2>1, <2>2, RunnableKept DEF languageVars
  <2> QED BY <2>4, <2>5, <2>6 DEF LanguageInv
<1>4. CASE UNCHANGED vars
  <2>1. UNCHANGED <<bytecode, machineVars>> /\ UNCHANGED <<status, phase>>
    BY <1>4 DEF vars, languageVars, machineVars
  <2>2. Fresh => Fresh'
    BY <2>1 DEF Fresh, machineVars, objectVars, heapVars, memberVars
  <2>3. (\E W : Live(W)) => \E W : Live(W)'
    BY <2>1, MachineKept
  <2>4. Runnable => Runnable'
    BY <2>1, RunnableKept
  <2> QED BY <2>1, <2>2, <2>3, <2>4 DEF LanguageInv
<1> QED BY <1>1, <1>2, <1>3, <1>4 DEF Next, Run

(* What follows from it.                                                    *)
LEMMA LanguageSafe == LanguageInv => LanguageTypeOK /\ StackBalanced
<1> SUFFICES ASSUME LanguageInv PROVE LanguageTypeOK /\ StackBalanced
  OBVIOUS
<1>1. CASE status = "idle"
  <2>1. /\ stack = [i \in Slots |-> NullPtr] /\ sp = 0 /\ executed = 0
        /\ DOMAIN frames = {} /\ DOMAIN instances = {} /\ DOMAIN constructions = {}
    BY <1>1 DEF LanguageInv, Fresh
  <2>2. sp \in 0..StackSize /\ DOMAIN stack = 0..StackSize - 1 /\ executed \in 0..MaxInstructions
    BY <2>1, MachineAssumption DEF Slots
  <2> QED BY <1>1, <2>1, <2>2 DEF LanguageInv, LanguageTypeOK, StackBalanced
<1>2. CASE status # "idle"
  <2>1. Runnable /\ \E W : Live(W)
    BY <1>2 DEF LanguageInv
  <2>2. PICK W : Live(W)
    BY <2>1
  <2>3. StackBalanced
    BY <2>2 DEF Live
  <2>4. /\ status \in {"idle", "running", "halted", "crashed", "out of budget"}
        /\ phase \in {"text", "parsed", "evaluated", "compiled"}
        /\ executed \in 0..MaxInstructions
    BY <2>2 DEF LanguageInv, Live, Framed
  <2>5. sp \in 0..StackSize /\ DOMAIN stack = 0..StackSize - 1
    BY <2>2, LiveFacts DEF Slots
  <2>6. ASSUME NEW k \in DOMAIN frames
        PROVE  /\ frames[k].cl.v = "closure"
               /\ frames[k].ip \in 0..Len(CodeOf(frames[k].cl))
               /\ frames[k].base \in 0..StackSize
               /\ frames[k].bound \in 0..Len(instances)
    <3>1. frames[k] \in Frames(W) /\ Fits(frames[k].cl, W)
      BY <2>1, <2>2, LiveFacts, FrameCode
    <3>2. FrameFits(k)
      BY <2>2 DEF Live, Framed
    <3>3. WellFormed(CodeOf(frames[k].cl), NamedLocals(frames[k].cl), Len(frames[k].cl.free))
      BY <3>1 DEF Fits
    <3>4. frames[k].ip \in 0..Len(CodeOf(frames[k].cl))
      BY <3>2, <3>3 DEF FrameFits, WellFormed
    <3> QED BY <3>1, <3>2, <3>4 DEF FrameFits, Frames
  <2>7. ASSUME NEW i \in DOMAIN instances
        PROVE  instances[i].class \in DOMAIN bytecode.classes /\ Len(instances[i].fields) <= Dynamic
    <3>1. instances \in Seq(Objects(W))
      BY <2>2 DEF Live, Data
    <3>2. i \in 1..Len(instances)
      BY <3>1
    <3> QED BY <2>2, <3>2, InstanceFacts
  <2>8. ASSUME NEW k \in DOMAIN constructions
        PROVE  /\ constructions[k].instance \in DOMAIN instances
               /\ constructions[k].depth \in 1..Len(frames)
               /\ constructions[k].callee \in 0..StackSize - 1
    <3>1. ConstructionFits(k)
      BY <2>2 DEF Live, Framed
    <3>2. instances \in Seq(Objects(W)) /\ constructions \in Seq(Constructions(W))
      BY <2>2 DEF Live, Data, Calls
    <3>3. constructions[k] \in Constructions(W)
      BY <3>2
    <3> QED BY <3>1, <3>2, <3>3 DEF ConstructionFits, Constructions, Slots
  <2> QED BY <2>3, <2>4, <2>5, <2>6, <2>7, <2>8 DEF LanguageTypeOK
<1> QED BY <1>1, <1>2

(* At every instruction the stack of the machine has exactly the operands   *)
(* that the compiler's code has there on every path: ReturnValue,           *)
(* call_class, the builtins and every other instruction pop and push what   *)
(* the compiler counts on, for every program that compiles to well-formed   *)
(* code and keeps to what the machine has a result for.                     *)
THEOREM LanguageStackBalanced ==
    Spec /\ []BytecodeWellFormed /\ []MeetsNoError => []StackBalanced
<1>1. LanguageInit => LanguageInv
  BY LanguageInitial
<1>2. /\ LanguageInv /\ BytecodeWellFormed /\ MeetsNoError /\ MeetsNoError'
      /\ [Next]_vars
      => LanguageInv'
  BY LanguageStep
<1>3. LanguageInv => StackBalanced
  BY LanguageSafe
<1> QED BY <1>1, <1>2, <1>3, PTL DEF Spec

(* For such a program nothing that the machine refers to is missing: frames *)
(* are inside their code and on the stack, instances have a class,          *)
(* constructions have an instance and a frame to go back to.                *)
THEOREM LanguageTypeCorrect ==
    Spec /\ []BytecodeWellFormed /\ []MeetsNoError => []LanguageTypeOK
<1>1. LanguageInit => LanguageInv
  BY LanguageInitial
<1>2. /\ LanguageInv /\ BytecodeWellFormed /\ MeetsNoError /\ MeetsNoError'
      /\ [Next]_vars
      => LanguageInv'
  BY LanguageStep
<1>3. LanguageInv => LanguageTypeOK
  BY LanguageSafe
<1> QED BY <1>1, <1>2, <1>3, PTL DEF Spec
=============================================================================
