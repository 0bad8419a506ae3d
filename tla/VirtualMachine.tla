--------------------------- MODULE VirtualMachine ---------------------------
(***************************************************************************)
(* The stack machine of cpp-v3 (vm/vm.cpp) on the bytecode of Compiler: one *)
(* action per kind of instruction, as execute_instruction dispatches them.  *)
(* A position counts instructions, and ip is the next one, where the code   *)
(* keeps the last byte it has executed.  Integers stay where the code's     *)
(* detour through float is exact (below 2^24).                              *)
(*                                                                         *)
(* call_class runs the field initializers and the constructor in loops of   *)
(* its own, inside the instruction that calls the class: constructions is   *)
(* the stack of those that are not over.                                    *)
(*                                                                         *)
(* Left out: hashes, operations on strings, tasks, the collector, and       *)
(* closures that a builtin has bound to an instance.                        *)
(***************************************************************************)
EXTENDS Slices, SequencesExt, FiniteSetsExt

CONSTANTS StackSize,       \* stackSize
          MaxInstructions, \* AD_VM_MAX_INSTRUCTIONS
          BuiltinNames     \* AD_VM_BUILTIN_NAMES

ASSUME MachineAssumption == StackSize \in Nat \ {0} /\ MaxInstructions \in Nat

VARIABLES
    bytecode,   \* what the compiler made
    status,     \* "idle", "running", "halted", or why it stopped
    stack,      \* slots from 0; what is popped stays in its slot
    sp,
    frames,     \* closure, ip, base pointer and bound instance of every call
    globals,
    lists,          \* elements of every list, by its identifier
    instances,      \* class and fields of every instance
    fieldIndex,     \* of every class: the indices of its fields
    constructions,  \* the instances whose call_class has not returned
    output,     \* what has been printed
    executed    \* instructions so far

memberVars == <<instances, fieldIndex>>
heapVars == <<lists, memberVars>>
objectVars == <<heapVars, constructions>>
machineVars == <<status, stack, sp, frames, globals, objectVars, output, executed>>

------------------------------------------------------------------------------
(* Objects.  NullPtr is a null pointer, Null is NULLOBJECT.                 *)
NullPtr == [v |-> "nullptr"]
NullObject == [v |-> "null"]
IntObject(n) == [v |-> "int", n |-> n]
BoolObject(b) == [v |-> "bool", b |-> b]
ErrorObject == [v |-> "error"]
BuiltinObject(i) == [v |-> "builtin", index |-> i]

(* A closure over a function of the bytecode; function 0 is the program     *)
(* itself.                                                                  *)
Closure(fn, free) == [v |-> "closure", fn |-> fn, free |-> free]
Instance(id) == [v |-> "instance", id |-> id]
ListObject(id) == [v |-> "list", id |-> id]
BoundMethod(owner, cl) == [v |-> "bound", owner |-> owner, cl |-> cl]

(* A boolean that a default value made is neither of the two true booleans. *)
IsTruthy(value) ==
    CASE value.v \in {"nullptr", "null"} -> FALSE
      [] value.v = "bool" -> value.b
      [] OTHER -> TRUE

(* Inspect and repr, as far as two programs' output is compared.  Of a list *)
(* they dereference every element.                                          *)
Shown(value) ==
    LET Plain(v) == CASE v.v = "int" -> [shown |-> "int", n |-> v.n]
                      [] v.v \in {"bool", "newBool"} -> [shown |-> "bool", b |-> v.b]
                      [] OTHER -> [shown |-> v.v]
        List[id \in DOMAIN lists] ==
            [shown |-> "list",
             elements |-> [i \in DOMAIN lists[id] |->
                LET v == lists[id][i] IN IF v.v = "list" THEN List[v.id] ELSE Plain(v)]]
    IN  IF value.v = "list" THEN List[value.id] ELSE Plain(value)

HasHole(value) ==
    LET List[id \in DOMAIN lists] ==
            \E i \in DOMAIN lists[id] :
                LET v == lists[id][i] IN IF v.v = "list" THEN List[v.id] ELSE v = NullPtr
    IN  IF value.v = "list" THEN List[value.id] ELSE value = NullPtr

HasHoleIn(values) == \E i \in DOMAIN values : HasHole(values[i])

(* vm_objects_equal                                                         *)
ObjectsEqual(left, right) ==
    LET booleans == {"bool", "newBool"}
        AreLists(a, b) == a.v = "list" /\ b.v = "list"
        Plain(a, b) == IF a.v \in booleans /\ b.v \in booleans THEN a.b = b.b ELSE a = b
        Lists[x, y \in DOMAIN lists] ==
            /\ Len(lists[x]) = Len(lists[y])
            /\ \A i \in DOMAIN lists[x] :
                  LET a == lists[x][i]
                      b == lists[y][i]
                  IN  IF AreLists(a, b) THEN Lists[a.id, b.id] ELSE Plain(a, b)
    IN  IF AreLists(left, right) THEN Lists[left.id, right.id] ELSE Plain(left, right)

(* C++ division and remainder round towards zero.                           *)
Magnitude(n) == IF n < 0 THEN -n ELSE n
Quotient(a, b) ==
    LET q == Magnitude(a) \div Magnitude(b) IN IF (a < 0) = (b < 0) THEN q ELSE -q
Remainder(a, b) == a - b * Quotient(a, b)

(* What an operation pushes: for other types and a division by zero it      *)
(* pushes nothing.                                                          *)
Arithmetic(op, left, right) ==
    LET a == left.n
        b == right.n
    IN  CASE left.v # "int" \/ right.v # "int" -> <<>>
          [] OTHER ->
             CASE op = "ADD" -> <<IntObject(a + b)>>
               [] op = "SUB" -> <<IntObject(a - b)>>
               [] op = "MULTIPLY" -> <<IntObject(a * b)>>
               [] op = "DIVIDE" -> IF b = 0 THEN <<>> ELSE <<IntObject(Quotient(a, b))>>
               [] op = "MOD" -> IF b = 0 THEN <<>> ELSE <<IntObject(Remainder(a, b))>>

(* What is no list is compared by its address.                              *)
Same(left, right) == IF left.v = "list" /\ right.v = "list" THEN ObjectsEqual(left, right) ELSE left = right

Comparison(op, left, right) ==
    IF left.v = "int" /\ right.v = "int"
    THEN <<BoolObject(CASE op = "EQUAL" -> left.n = right.n
                        [] op = "NOTEQUAL" -> left.n # right.n
                        [] op = "GREATERTHAN" -> left.n > right.n
                        [] op = "GREATERTHAN_EQUAL" -> left.n >= right.n)>>
    ELSE CASE op = "EQUAL" -> <<BoolObject(Same(left, right))>>
           [] op = "NOTEQUAL" -> <<BoolObject(~Same(left, right))>>
           [] OTHER -> <<>>

------------------------------------------------------------------------------
(* The frame that runs and its instruction.                                 *)

(* bound is the number of an instance, or 0.                                *)
Frame(cl, base, bound) == [cl |-> cl, ip |-> 0, base |-> base, bound |-> bound]

FunctionOf(cl) == bytecode.functions[cl.fn]
CodeOf(cl) == IF cl.fn = 0 THEN bytecode.code ELSE FunctionOf(cl).code

Current == Last(frames)
AtEnd == Current.ip >= Len(CodeOf(Current.cl))
Instruction == CodeOf(Current.cl)[Current.ip + 1]

(* The loop of call_class has come to its end.                              *)
ConstructionDue == constructions # <<>> /\ Len(frames) = Last(constructions).depth

(* Only the instructions of the outer loop count.                           *)
Executes(ops) ==
    /\ status = "running"
    /\ constructions = <<>> => executed < MaxInstructions
    /\ ~ConstructionDue
    /\ ~AtEnd
    /\ Instruction.op \in ops
    /\ executed' = IF constructions = <<>> THEN executed + 1 ELSE executed
    /\ UNCHANGED bytecode

GoTo(ip) == frames' = [frames EXCEPT ![Len(frames)].ip = ip]
Next1 == GoTo(Current.ip + 1)

(* The object i below the top; pop of an empty stack gives a null pointer.  *)
Below(i) == IF sp > i THEN stack[sp - i - 1] ELSE NullPtr

Floor(n) == IF n < 0 THEN 0 ELSE n

(* push on a full stack is dropped.                                         *)
Push(at, values) ==
    LET room == Floor(StackSize - at)
        pushed == IF Len(values) > room THEN SubSeq(values, 1, room) ELSE values
    IN  /\ stack' = [i \in DOMAIN stack |->
                        IF i >= at /\ i < at + Len(pushed) THEN pushed[i - at + 1] ELSE stack[i]]
        /\ sp' = at + Len(pushed)

PopPush(n, values) == Push(Floor(sp - n), values)

Init ==
    /\ bytecode = [code |-> <<>>, constants |-> <<>>, functions |-> <<>>, classes |-> <<>>,
                   globalNames |-> [i \in {} |-> ""]]
    /\ status = "idle"
    /\ stack = [i \in 0..StackSize - 1 |-> NullPtr]
    /\ sp = 0
    /\ frames = <<>>
    /\ globals = [i \in {} |-> NullPtr]
    /\ lists = [id \in {} |-> <<>>]
    /\ instances = <<>>
    /\ fieldIndex = <<>>
    /\ constructions = <<>>
    /\ output = <<>>
    /\ executed = 0

Load ==
    /\ status = "idle"
    /\ status' = "running"
    /\ frames' = <<Frame(Closure(0, <<>>), 0, 0)>>
    /\ globals' = [i \in {} |-> NullPtr]
    /\ fieldIndex' = [class \in DOMAIN bytecode.classes |-> bytecode.classes[class].fields]
    /\ UNCHANGED <<bytecode, stack, sp, lists, instances, constructions, output, executed>>

------------------------------------------------------------------------------
(* Instances.                                                               *)

(* The fields of a class get new names while the program runs, and with     *)
(* them every instance of the class.                                        *)
IndexOf(instance, name) ==
    LET known == fieldIndex[instances[instance].class]
    IN  IF name \in DOMAIN known THEN known[name] ELSE -1

FieldAt(instance, index) ==
    LET fields == instances[instance].fields
    IN  IF index \in 0..Len(fields) - 1 THEN fields[index + 1] ELSE NullPtr
FieldNamed(instance, name) == FieldAt(instance, IndexOf(instance, name))

(* A class and those that it inherits from, in the order in which           *)
(* lookup_class_method asks them: its first parent's, its second parent's.  *)
Lineage(class) ==
    LET Line[c \in DOMAIN bytecode.classes] ==
            <<c>> \o FlattenSeq([i \in DOMAIN bytecode.classes[c].supers |->
                                    Line[bytecode.classes[c].supers[i]]])
    IN  Line[class]

Method(class, name) ==
    LET methods == [i \in DOMAIN Lineage(class) |-> bytecode.classes[Lineage(class)[i]].methods]
        having == {i \in DOMAIN methods : name \in DOMAIN methods[i]}
    IN  IF having = {} THEN 0 ELSE methods[Min(having)][name]

(* push_bound_instance_member                                               *)
MemberOf(instance, name) ==
    LET method == Method(instances[instance].class, name)
    IN  CASE FieldNamed(instance, name) # NullPtr -> FieldNamed(instance, name)
          [] FieldNamed(instance, name) = NullPtr /\ method # 0 ->
                BoundMethod(instance, Closure(method, <<>>))
          [] OTHER -> NullObject

(* current_bound_instance: that of the nearest frame that has one.          *)
BoundInstance ==
    LET bound == {i \in DOMAIN frames : frames[i].bound # 0}
    IN  IF bound = {} THEN 0 ELSE frames[Max(bound)].bound

(* A field beyond those that the instance has so far makes room for itself. *)
Patched(fields, index, value) ==
    [i \in 1..Max({Len(fields), index + 1}) |->
        IF i = index + 1 THEN value ELSE IF i <= Len(fields) THEN fields[i] ELSE NullPtr]

SetField(instance, name, index, value) ==
    /\ instances' = [instances EXCEPT ![instance].fields = Patched(@, index, value)]
    /\ fieldIndex' = [fieldIndex EXCEPT ![instances[instance].class] =
                        [n \in DOMAIN @ \union {name} |-> IF n = name THEN index ELSE @[n]]]

------------------------------------------------------------------------------
(* Instructions that only push.                                             *)

Slot(local) == Current.base + local

GlobalValue(i) == IF i \in DOMAIN globals THEN globals[i] ELSE NullPtr

(* In a method, a global without a value can be a field.                    *)
FieldOfGlobal(i) ==
    IF Current.bound = 0 \/ ~FunctionOf(Current.cl).isMethod THEN NullPtr
    ELSE FieldNamed(Current.bound, bytecode.globalNames[i])

Loaded(instr) ==
    CASE instr.op = "CONSTANT" -> bytecode.constants[instr.x + 1]
      [] instr.op = "TRUE" -> BoolObject(TRUE)
      [] instr.op = "FALSE" -> BoolObject(FALSE)
      [] instr.op = "NULL" -> NullObject
      [] instr.op = "GET_GLOBAL" ->
            CASE GlobalValue(instr.x) # NullPtr -> GlobalValue(instr.x)
              [] GlobalValue(instr.x) = NullPtr /\ FieldOfGlobal(instr.x) # NullPtr ->
                    FieldOfGlobal(instr.x)
              [] OTHER -> ErrorObject
      [] instr.op = "GET_LOCAL" -> stack[Slot(instr.x)]
      [] instr.op = "GET_BUILTIN" -> BuiltinObject(instr.x)
      [] instr.op = "GET_FREE" ->
            IF Current.cl.free[instr.x + 1] = NullPtr THEN NullObject
            ELSE Current.cl.free[instr.x + 1]
      [] instr.op = "CURRENT_CLOSURE" -> Current.cl
      [] instr.op = "GET_THIS" -> IF Current.bound = 0 THEN NullObject ELSE Instance(Current.bound)

LoadValue ==
    /\ Executes({"CONSTANT", "TRUE", "FALSE", "NULL", "GET_GLOBAL", "GET_LOCAL", "GET_BUILTIN",
                 "GET_FREE", "CURRENT_CLOSURE", "GET_THIS"})
    /\ PopPush(0, IF Instruction.op = "GET_LOCAL" /\ Slot(Instruction.x) >= StackSize THEN <<>>
                  ELSE <<Loaded(Instruction)>>)
    /\ Next1
    /\ UNCHANGED <<status, globals, objectVars, output>>

------------------------------------------------------------------------------
(* Operators.  Both operands are dereferenced: a function that returned     *)
(* nothing has left a null pointer there.                                   *)

(* With fewer than two operands nothing happens.                            *)
Operate(values) ==
    CASE sp < 2 -> Next1 /\ UNCHANGED <<status, stack, sp>>
      [] sp >= 2 /\ (Below(0) = NullPtr \/ Below(1) = NullPtr) ->
            status' = "crashed" /\ UNCHANGED <<stack, sp, frames>>
      [] OTHER -> PopPush(2, values) /\ Next1 /\ UNCHANGED status

BinaryOperation ==
    /\ Executes({"ADD", "SUB", "MULTIPLY", "DIVIDE", "MOD"})
    /\ Operate(Arithmetic(Instruction.op, Below(1), Below(0)))
    /\ UNCHANGED <<globals, objectVars, output>>

Compare ==
    /\ Executes({"EQUAL", "NOTEQUAL", "GREATERTHAN", "GREATERTHAN_EQUAL"})
    /\ Operate(Comparison(Instruction.op, Below(1), Below(0)))
    /\ UNCHANGED <<globals, objectVars, output>>

UnaryOperation ==
    /\ Executes({"BANG", "MINUS"})
    /\ PopPush(1, IF Instruction.op = "BANG" THEN <<BoolObject(~IsTruthy(Below(0)))>>
                  ELSE IF Below(0).v = "int" THEN <<IntObject(-Below(0).n)>> ELSE <<>>)
    /\ Next1
    /\ UNCHANGED <<status, globals, objectVars, output>>

------------------------------------------------------------------------------
(* Instructions that pop.                                                   *)

Pop ==
    /\ Executes({"POP"})
    /\ PopPush(1, <<>>)
    /\ Next1
    /\ UNCHANGED <<status, globals, objectVars, output>>

(* What is printed of a list with a hole is lost with the program.          *)
WithPrinted(value) ==
    IF value = NullPtr \/ HasHole(value) THEN output ELSE Append(output, Shown(value))
Crashes(value) == value # NullPtr /\ HasHole(value)

(* The value of a statement of the program; an error ends it.               *)
FileStmtOutput ==
    /\ Executes({"FILE_STMT_OUTPUT"})
    /\ PopPush(1, <<>>)
    /\ Next1
    /\ output' = WithPrinted(Below(0))
    /\ status' = IF Crashes(Below(0)) THEN "crashed"
                 ELSE IF Below(0) = ErrorObject THEN "halted" ELSE status
    /\ UNCHANGED <<globals, objectVars>>

(* An error ends the innermost loop, which is that of call_class while it   *)
(* makes an instance.                                                       *)
SetGlobal ==
    /\ Executes({"SET_GLOBAL"})
    /\ PopPush(1, <<>>)
    /\ Next1
    /\ IF Below(0) = ErrorObject
       THEN /\ output' = Append(output, Shown(ErrorObject))
            /\ IF constructions = <<>>
               THEN status' = "halted" /\ UNCHANGED constructions
               ELSE /\ constructions' = [constructions EXCEPT ![Len(constructions)].depth = Len(frames)]
                    /\ UNCHANGED status
            /\ UNCHANGED globals
       ELSE /\ globals' = [i \in DOMAIN globals \union {Instruction.x} |->
                              IF i = Instruction.x THEN Below(0) ELSE globals[i]]
            /\ UNCHANGED <<output, status, constructions>>
    /\ UNCHANGED heapVars

SetLocal ==
    /\ Executes({"SET_LOCAL"})
    /\ IF Slot(Instruction.x) >= StackSize THEN UNCHANGED <<stack, sp>>
       ELSE /\ stack' = [stack EXCEPT ![Slot(Instruction.x)] = Below(0)]
            /\ sp' = Floor(sp - 1)
    /\ Next1
    /\ UNCHANGED <<status, globals, objectVars, output>>

Jump ==
    /\ Executes({"JUMP"})
    /\ GoTo(Instruction.x)
    /\ UNCHANGED <<status, stack, sp, globals, objectVars, output>>

JumpNotTruthy ==
    /\ Executes({"JUMP_NOT_TRUTHY"})
    /\ PopPush(1, <<>>)
    /\ IF IsTruthy(Below(0)) THEN Next1 ELSE GoTo(Instruction.x)
    /\ UNCHANGED <<status, globals, objectVars, output>>

MakeClosure ==
    /\ Executes({"CLOSURE"})
    /\ LET n == Instruction.y
           fn == bytecode.constants[Instruction.x + 1].fn
       IN  PopPush(n, <<Closure(fn, [i \in 1..n |-> Below(n - i)])>>)
    /\ Next1
    /\ UNCHANGED <<status, globals, objectVars, output>>

------------------------------------------------------------------------------
(* Members.  With too few operands nothing happens.                         *)

(* execute_get_method: a field counts when it holds a function.             *)
MethodOf(instance, name) ==
    LET method == Method(instances[instance].class, name)
        field == FieldNamed(instance, name)
    IN  CASE method # 0 -> BoundMethod(instance, Closure(method, <<>>))
          [] method = 0 /\ field.v = "closure" -> BoundMethod(instance, field)
          [] method = 0 /\ field.v = "bound" -> field
          [] OTHER -> NullObject

(* Only the methods that the named parent has itself.                       *)
SuperMethodOf(instance, parent, name) ==
    LET parents == bytecode.classes[instances[instance].class].byName
        methods == bytecode.classes[parents[parent]].methods
    IN  IF parent \in DOMAIN parents /\ name \in DOMAIN methods
        THEN BoundMethod(instance, Closure(methods[name], <<>>)) ELSE NullObject

Dynamic == 65535

BoundField(name, index) ==
    CASE BoundInstance = 0 -> NullObject
      [] BoundInstance # 0 /\ index = Dynamic -> MemberOf(BoundInstance, name)
      [] OTHER -> IF FieldAt(BoundInstance, index) = NullPtr THEN NullObject
                  ELSE FieldAt(BoundInstance, index)

LookUp ==
    /\ Executes({"GET_PROPERTY_SYM", "GET_PROPERTY", "GET_METHOD", "GET_SUPER_METHOD"})
    /\ LET operands == CASE Instruction.op = "GET_PROPERTY_SYM" -> 1
                         [] Instruction.op = "GET_SUPER_METHOD" -> 3
                         [] OTHER -> 2
           owner == Below(operands - 1)
           name == Below(0).s
           member == CASE Instruction.op = "GET_PROPERTY_SYM" -> BoundField(name, Instruction.x)
                       [] Instruction.op # "GET_PROPERTY_SYM" /\ owner.v # "instance" -> NullObject
                       [] OTHER ->
                          CASE Instruction.op = "GET_PROPERTY" -> MemberOf(owner.id, name)
                            [] Instruction.op = "GET_METHOD" -> MethodOf(owner.id, name)
                            [] OTHER -> SuperMethodOf(owner.id, Below(1).s, name)
       IN  IF sp < operands THEN UNCHANGED <<stack, sp>> ELSE PopPush(operands, <<member>>)
    /\ Next1
    /\ UNCHANGED <<status, globals, objectVars, output>>

(* A name that the class does not know gets the index after the fields of   *)
(* this instance, in all instances of the class.                            *)
IndexToSet(instance, name) ==
    IF IndexOf(instance, name) >= 0 THEN IndexOf(instance, name) ELSE Len(instances[instance].fields)

SetMember ==
    /\ Executes({"PATCH_PROPERTY_SYM", "SET_PROPERTY"})
    /\ LET isPatch == Instruction.op = "PATCH_PROPERTY_SYM"
           operands == IF isPatch THEN 2 ELSE 3
           owner == IF isPatch THEN BoundInstance ELSE IF Below(2).v = "instance" THEN Below(2).id ELSE 0
           index == IF isPatch /\ Instruction.x # Dynamic THEN Instruction.x
                    ELSE IndexToSet(owner, Below(0).s)
       IN  /\ IF sp < operands THEN UNCHANGED <<stack, sp>> ELSE PopPush(operands, <<>>)
           /\ IF sp < operands \/ owner = 0 THEN UNCHANGED heapVars
              ELSE SetField(owner, Below(0).s, index, Below(1)) /\ UNCHANGED lists
    /\ Next1
    /\ UNCHANGED <<status, globals, constructions, output>>

------------------------------------------------------------------------------
(* Lists.  An index counts from 0.                                          *)

(* Identifiers of lists that one instruction makes: how many there are, and *)
(* a path that tells them apart.                                            *)
NewId(path) == <<Cardinality(DOMAIN lists), path>>
WithLists(new) ==
    [id \in DOMAIN lists \union DOMAIN new |-> IF id \in DOMAIN new THEN new[id] ELSE lists[id]]

MakeList ==
    /\ Executes({"ARRAY"})
    /\ LET n == Instruction.x
       IN  /\ lists' = WithLists([id \in {NewId(<<>>)} |-> [i \in 1..n |-> Below(n - i)]])
           /\ PopPush(n, <<ListObject(NewId(<<>>))>>)
    /\ Next1
    /\ UNCHANGED <<status, globals, memberVars, constructions, output>>

ElementOf(list, i) == IF i \in 0..Len(list) - 1 THEN list[i + 1] ELSE NullObject

(* The index of a list is read as an integer whatever it is; what comes of  *)
(* another object is undefined, here the end like that of a null pointer.   *)
GetElement ==
    LET index == Below(0)
        left == Below(1)
    IN  /\ Executes({"INDEX"})
        /\ IF left = NullPtr \/ (left.v = "list" /\ index.v # "int")
           THEN status' = "crashed" /\ UNCHANGED <<stack, sp, frames>>
           ELSE /\ PopPush(2, <<IF left.v = "list" THEN ElementOf(lists[left.id], index.n)
                                ELSE NullObject>>)
                /\ Next1
                /\ UNCHANGED status
        /\ UNCHANGED <<globals, objectVars, output>>

(* execute_set_index_expression: what cannot be written is dropped.         *)
WithElement(left, index, value) ==
    IF left.v = "list" /\ index.v = "int" /\ index.n \in 0..Len(lists[left.id]) - 1
    THEN [lists EXCEPT ![left.id][index.n + 1] = value] ELSE lists

SetElement ==
    /\ Executes({"SET_INDEX", "PATCH_INDEX", "POSTFIX_INDEX"})
    /\ CASE Instruction.op = "SET_INDEX" ->
              lists' = WithElement(Below(2), Below(1), Below(0)) /\ PopPush(3, <<>>)
         [] Instruction.op = "PATCH_INDEX" ->
              IF sp < 3 THEN UNCHANGED <<lists, stack, sp>>
              ELSE lists' = WithElement(Below(1), Below(0), Below(2)) /\ PopPush(3, <<>>)
         [] Instruction.op = "POSTFIX_INDEX" ->
              IF sp < 4 THEN UNCHANGED <<lists, stack, sp>>
              ELSE /\ lists' = WithElement(Below(1), Below(0), Below(2))
                   /\ PopPush(4, <<IF Below(3) = NullPtr THEN NullObject ELSE Below(3)>>)
    /\ Next1
    /\ UNCHANGED <<status, globals, memberVars, constructions, output>>

(* copy, of a list with all it holds: the lists that are copied, level by   *)
(* level, each with the path of indices that leads to it.  A list that is   *)
(* met on two paths is copied twice.                                        *)
Levels(elements) ==
    LET Inside(list) ==
            {[path |-> Append(list.path, i), elements |-> lists[list.elements[i].id]] :
                i \in {j \in DOMAIN list.elements : list.elements[j].v = "list"}}
        level[d \in Nat] ==
            IF d = 0 THEN {[path |-> <<>>, elements |-> elements]}
            ELSE UNION {Inside(list) : list \in level[d - 1]}
    IN  level

Depth == Cardinality(DOMAIN lists)
Copied(elements) == UNION {Levels(elements)[d] : d \in 0..Depth}

(* The copy of a list that holds itself is never done.                      *)
Endless(elements) == Levels(elements)[Depth + 1] # {}

(* Most kinds of objects have no copy and give a null pointer; those that   *)
(* inherit Ad_Object's also say so on the standard output.                  *)
CopyOf(list) ==
    [i \in DOMAIN list.elements |->
        CASE list.elements[i].v = "int" -> list.elements[i]
          [] list.elements[i].v = "list" -> ListObject(NewId(Append(list.path, i)))
          [] OTHER -> NullPtr]
Refusals(elements) ==
    LET Refused(list) == {<<list.path, i>> : i \in {j \in DOMAIN list.elements :
                            list.elements[j].v \in {"null", "bool", "newBool", "builtin", "error"}}}
    IN  Cardinality(UNION {Refused(list) : list \in Copied(elements)})

Nullish(value) == value.v \in {"nullptr", "null"}
IsBound(value) == value.v = "int" \/ Nullish(value)

(* What the slice of a list takes: a missing step is 1.                     *)
Taken(list, start, end, by) ==
    LET max == Len(list)
        step == IF Nullish(by) THEN 1 ELSE by.n
        i1 == IF Nullish(start) THEN DefaultStart(max, Nullish(end), step) ELSE start.n
        i2 == IF Nullish(end) THEN DefaultEnd(max, step) ELSE end.n
        positions == Positions(max, i1, i2, step)
    IN  [k \in DOMAIN positions |-> list[positions[k] + 1]]

TakeSlice ==
    LET left == Below(3)
        isSlice == left.v = "list" /\ \A i \in 0..2 : IsBound(Below(i))
        taken == Taken(lists[left.id], Below(2), Below(1), Below(0))
        copied == Copied(taken)
        ids == {NewId(list.path) : list \in copied}
    IN  /\ Executes({"SLICE"})
        /\ CASE sp < 4 -> Next1 /\ UNCHANGED <<status, stack, sp, lists, output>>
             [] sp >= 4 /\ ~isSlice ->
                    PopPush(4, <<NullObject>>) /\ Next1 /\ UNCHANGED <<status, lists, output>>
             [] sp >= 4 /\ isSlice /\ (Endless(taken) \/ HasHoleIn(taken)) ->
                    status' = "crashed" /\ UNCHANGED <<stack, sp, frames, lists, output>>
             [] OTHER ->
                    /\ lists' = WithLists([id \in ids |->
                            CopyOf(CHOOSE list \in copied : NewId(list.path) = id)])
                    /\ output' = output \o [i \in 1..Refusals(taken) |-> [shown |-> "no copy"]]
                    /\ PopPush(4, <<ListObject(NewId(<<>>))>>)
                    /\ Next1
                    /\ UNCHANGED status
        /\ UNCHANGED <<globals, memberVars, constructions>>

------------------------------------------------------------------------------
(* Calls: the callee is below its arguments, and its frame begins at the    *)
(* first of them.                                                           *)

CalleeIndex == sp - 1 - Instruction.x
Callee == IF CalleeIndex >= 0 THEN stack[CalleeIndex] ELSE NullPtr
OnStack == [i \in 1..Instruction.x |-> stack[CalleeIndex + i]]

(* The defaults that stand in for the arguments that are missing; too few   *)
(* of them are none.                                                        *)
MissingDefaults(fn, given) ==
    LET missing == Len(fn.params) - given
    IN  IF missing > 0 /\ missing <= Len(fn.defaults)
        THEN SubSeq(fn.defaults, Len(fn.defaults) - missing + 1, Len(fn.defaults))
        ELSE <<>>

NextFrames == [frames EXCEPT ![Len(frames)].ip = @ + 1]

(* A frame for the function, over the callee in the slot below, or what a   *)
(* call with a wrong number of arguments gives.                             *)
Enter(cl, bound, callee, args, mismatch, callers) ==
    LET fn == FunctionOf(cl)
        all == args \o MissingDefaults(fn, Len(args))
        top == Min({callee + 1 + Len(all), StackSize})
    IN  IF Len(all) # Len(fn.params)
        THEN Push(callee, <<mismatch>>) /\ frames' = callers
        ELSE /\ stack' = [i \in DOMAIN stack |->
                            IF i > callee /\ i <= callee + Len(all) THEN all[i - callee] ELSE stack[i]]
             /\ sp' = top - Len(all) + Max({fn.numLocals, 1})
             /\ frames' = Append(callers, Frame(cl, top - Len(all), bound))

CallFunctionObject(function, callee, args) ==
    IF function.v = "closure" THEN Enter(function, 0, callee, args, ErrorObject, NextFrames)
    ELSE Enter(function.cl, function.owner, callee, args, NullObject, NextFrames)

CallFunction ==
    /\ Executes({"CALL"})
    /\ Callee.v \in {"closure", "bound"}
    /\ CallFunctionObject(Callee, CalleeIndex, OnStack)
    /\ UNCHANGED <<status, globals, objectVars, output>>

(* A builtin replaces its arguments by its value; some give a null pointer. *)
CallsBuiltin(names) ==
    /\ Executes({"CALL"})
    /\ Callee.v = "builtin"
    /\ BuiltinNames[Callee.index + 1] \in names
Gives(value) == Push(CalleeIndex, <<value>>) /\ Next1 /\ UNCHANGED status
Dies == status' = "crashed" /\ UNCHANGED <<stack, sp, frames>>

CallPrint ==
    /\ CallsBuiltin({"print"})
    /\ IF Crashes(OnStack[1]) THEN Dies ELSE Gives(NullPtr)
    /\ output' = WithPrinted(OnStack[1])
    /\ UNCHANGED <<globals, objectVars>>

CallLen ==
    /\ CallsBuiltin({"len"})
    /\ IF OnStack[1] = NullPtr THEN Dies
       ELSE Gives(IntObject(IF OnStack[1].v = "list" THEN Len(lists[OnStack[1].id]) ELSE 0))
    /\ UNCHANGED <<globals, objectVars, output>>

CallAppend ==
    /\ CallsBuiltin({"__append"})
    /\ IF OnStack[1].v = "list"
       THEN Gives(NullPtr) /\ lists' = [lists EXCEPT ![OnStack[1].id] = Append(@, OnStack[2])]
       ELSE Dies /\ UNCHANGED lists
    /\ UNCHANGED <<globals, memberVars, constructions, output>>

(* Without an index, the last element.                                      *)
CallPop ==
    LET list == OnStack[1]
        elements == lists[list.id]
        i == IF Instruction.x = 1 THEN Len(elements) ELSE OnStack[2].n + 1
        isPop == /\ list.v = "list"
                 /\ Instruction.x = 1 \/ (Instruction.x = 2 /\ OnStack[2].v = "int")
    IN  /\ CallsBuiltin({"__pop"})
        /\ IF isPop /\ i \in DOMAIN elements
           THEN Gives(elements[i]) /\ lists' = [lists EXCEPT ![list.id] = RemoveAt(@, i)]
           ELSE Gives(NullObject) /\ UNCHANGED lists
        /\ UNCHANGED <<globals, memberVars, constructions, output>>

CallBuiltin == CallPrint \/ CallLen \/ CallAppend \/ CallPop

(* A null pointer is left with its arguments on the stack; any other object *)
(* is replaced by null.                                                     *)
CallOther ==
    /\ Executes({"CALL"})
    /\ Callee.v \notin {"closure", "bound", "builtin", "class"}
    /\ IF Callee = NullPtr THEN UNCHANGED <<stack, sp>> ELSE Push(CalleeIndex, <<NullObject>>)
    /\ Next1
    /\ UNCHANGED <<status, globals, objectVars, output>>

------------------------------------------------------------------------------
(* Instances are made.                                                      *)

(* Those of the parents first; of a common ancestor more than once.         *)
Initializers(class) ==
    LET All[c \in DOMAIN bytecode.classes] ==
            FlattenSeq([i \in DOMAIN bytecode.classes[c].supers |->
                            All[bytecode.classes[c].supers[i]]])
                \o bytecode.classes[c].initializers
    IN  All[class]

(* The initializers and then the constructor are due; the slots below the   *)
(* callee are kept, since what returns in between writes to the topmost.    *)
BeginConstruction(class, callee, args) ==
    LET constructor == Method(class, "constructor")
        fn == bytecode.functions[constructor]
        initializers == Initializers(class)
        due == [i \in DOMAIN initializers |-> [fn |-> initializers[i], args |-> <<>>]]
                 \o IF constructor = 0 THEN <<>> ELSE <<[fn |-> constructor, args |-> args]>>
    IN  /\ IF constructor # 0 /\ Len(args) + Len(fn.defaults) < Len(fn.params)
           THEN /\ Push(callee, <<ErrorObject>>)
                /\ UNCHANGED <<instances, constructions>>
           ELSE /\ sp' = callee
                /\ instances' = Append(instances, [class |-> class, fields |-> <<>>])
                /\ constructions' = Append(constructions,
                        [instance |-> Len(instances) + 1, due |-> due, callee |-> callee,
                         kept |-> stack, depth |-> Len(frames)])
                /\ UNCHANGED stack
        /\ Next1
        /\ UNCHANGED <<lists, fieldIndex>>

CallClass ==
    /\ Executes({"CALL"})
    /\ Callee.v = "class"
    /\ BeginConstruction(Callee.class, CalleeIndex, OnStack)
    /\ UNCHANGED <<status, globals, output>>

(* What the initializers and the constructor return is popped.  A           *)
(* constructor with surplus arguments is not run; for a callee in slot 0    *)
(* the null that says so is written below the stack.                        *)
RunNext ==
    LET construction == Last(constructions)
        next == construction.due[1]
        fn == bytecode.functions[next.fn]
        at == Min({sp, construction.callee})
    IN  /\ ConstructionDue
        /\ construction.due # <<>>
        /\ constructions' = [constructions EXCEPT ![Len(constructions)].due = Tail(@),
                                                  ![Len(constructions)].depth = Len(frames)]
        /\ IF at = 0 /\ Len(next.args) > Len(fn.params)
           THEN status' = "crashed" /\ UNCHANGED <<stack, sp, frames>>
           ELSE /\ Enter(Closure(next.fn, <<>>), construction.instance, at - 1, next.args,
                         NullObject, frames)
                /\ UNCHANGED status
        /\ UNCHANGED heapVars

FinishConstruction ==
    LET construction == Last(constructions)
        callee == construction.callee
    IN  /\ ConstructionDue
        /\ construction.due = <<>>
        /\ constructions' = Front(constructions)
        /\ stack' = [i \in DOMAIN stack |->
                        IF i < callee THEN construction.kept[i]
                        ELSE IF i = callee THEN Instance(construction.instance) ELSE stack[i]]
        /\ sp' = callee + 1
        /\ UNCHANGED <<status, frames, heapVars>>

Construct ==
    /\ status = "running"
    /\ RunNext \/ FinishConstruction
    /\ UNCHANGED <<bytecode, globals, output, executed>>

------------------------------------------------------------------------------
(* Calls with keyword arguments.                                            *)

(* Of two with one name the first counts, which is popped last.             *)
KeywordArguments ==
    LET Name(j) == Below(2 * j).s
        positions == 0..Instruction.y - 1
    IN  [name \in {Name(j) : j \in positions} |->
            Below(2 * Max({j \in positions : Name(j) = name}) + 1)]

(* vm_function_from_callee, 0 for none.                                     *)
CalledFunction(callee) ==
    CASE callee.v = "closure" -> callee.fn
      [] callee.v = "bound" -> callee.cl.fn
      [] callee.v = "class" -> Method(callee.class, "constructor")
      [] OTHER -> 0

(* The value of every parameter: a null pointer for none.                   *)
Resolved(fn, args, kw) ==
    LET optional == Len(fn.params) - Len(fn.defaults)
    IN  [i \in DOMAIN fn.params |->
            CASE fn.params[i] \in DOMAIN kw -> kw[fn.params[i]]
              [] fn.params[i] \notin DOMAIN kw /\ i <= Len(args) -> args[i]
              [] OTHER -> IF i > optional THEN fn.defaults[i - optional] ELSE NullPtr]

CallKw ==
    LET pairs == 2 * Instruction.y
        index == CalleeIndex - pairs
        callee == stack[index]
        args == [i \in 1..Instruction.x |-> stack[index + i]]
        resolved == Resolved(bytecode.functions[CalledFunction(callee)], args, KeywordArguments)
    IN  /\ Executes({"CALL_KW"})
        /\ CASE index < 0 -> PopPush(pairs, <<>>) /\ Next1 /\ UNCHANGED objectVars
             [] index >= 0 /\ CalledFunction(callee) = 0 ->
                    Push(index, <<NullObject>>) /\ Next1 /\ UNCHANGED objectVars
             [] index >= 0 /\ CalledFunction(callee) # 0 /\ Contains(resolved, NullPtr) ->
                    Push(index, <<ErrorObject>>) /\ Next1 /\ UNCHANGED objectVars
             [] OTHER ->
                IF callee.v = "class" THEN BeginConstruction(callee.class, index, resolved)
                ELSE CallFunctionObject(callee, index, resolved) /\ UNCHANGED objectVars
        /\ UNCHANGED <<status, globals, output>>

------------------------------------------------------------------------------
(* Broken on purpose: the callee stays below the value of its call.         *)
ReturnAboveCallee ==
    /\ Executes({"RETURN_VALUE", "RETURN"})
    /\ Push(Current.base, <<IF Instruction.op = "RETURN" THEN NullPtr ELSE Below(0)>>)
    /\ frames' = Front(frames)
    /\ status' = IF Len(frames) = 1 THEN "halted" ELSE status
    /\ UNCHANGED <<globals, objectVars, output>>

ReturnValue ==
    /\ Executes({"RETURN_VALUE", "RETURN"})
    /\ Push(Floor(Current.base - 1), <<IF Instruction.op = "RETURN" THEN NullPtr ELSE Below(0)>>)
    /\ frames' = Front(frames)
    /\ status' = IF Len(frames) = 1 THEN "halted" ELSE status
    /\ UNCHANGED <<globals, objectVars, output>>

------------------------------------------------------------------------------
(* run: at the end of the frame's code, or of the budget.                   *)
Halt ==
    /\ status = "running"
    /\ constructions = <<>>
    /\ AtEnd \/ executed = MaxInstructions
    /\ status' = IF AtEnd THEN "halted" ELSE "out of budget"
    /\ UNCHANGED <<bytecode, stack, sp, frames, globals, objectVars, output, executed>>

Step ==
    \/ LoadValue
    \/ BinaryOperation
    \/ Compare
    \/ UnaryOperation
    \/ Pop
    \/ FileStmtOutput
    \/ SetGlobal
    \/ SetLocal
    \/ Jump
    \/ JumpNotTruthy
    \/ MakeClosure
    \/ LookUp
    \/ SetMember
    \/ MakeList
    \/ GetElement
    \/ SetElement
    \/ TakeSlice
    \/ CallFunction
    \/ CallClass
    \/ CallKw
    \/ Construct
    \/ CallBuiltin
    \/ CallOther
    \/ ReturnValue
    \/ Halt
=============================================================================
