------------------------------- MODULE Language -------------------------------
(***************************************************************************)
(* A program on its way through cpp-v3: the parser makes a tree of its      *)
(* tokens, and the tree is run by both engines, the evaluator at once       *)
(* (main.cpp without -vm) and the compiler and the virtual machine one      *)
(* instruction at a time (-vm).  The code runs one engine or the other;    *)
(* here a program goes through both, which is what docs/vm-parity-contract  *)
(* compares.                                                                *)
(***************************************************************************)
EXTENDS VirtualMachine, StrictFold

CONSTANTS Programs,   \* [tree, text, runs]: a tree, tokens that stand for it, and
                      \* whether it has only what the engines are modelled for
          TreeOf,         \* the parser as a function: the tree of a text
          StrippedOf,     \* the tree without its empty statements
          EvaluationOf,   \* the evaluator: its last state, of a tree
          CompiledOf      \* the compiler: the bytecode of a tree

VARIABLES
    program,    \* which of the programs it is
    phase,      \* how far it has come
    tree,       \* what the parser made of it
    evaluated   \* out and undefined of the evaluator

languageVars == <<program, phase, tree, evaluated>>
vars == <<languageVars, bytecode, machineVars>>

NotEvaluated == [out |-> <<>>, undefined |-> FALSE]

LanguageInit ==
    /\ Init
    /\ program \in DOMAIN Programs
    /\ phase = "text"
    /\ tree = <<>>
    /\ evaluated = NotEvaluated

(* Repl::ExecuteFile                                                        *)
Parse ==
    /\ phase = "text"
    /\ phase' = "parsed"
    /\ tree' = TreeOf[Programs[program].text]
    /\ UNCHANGED <<program, evaluated, bytecode, machineVars>>

Evaluate ==
    /\ phase = "parsed"
    /\ Programs[program].runs
    /\ phase' = "evaluated"
    /\ LET s == EvaluationOf[tree]
       IN  evaluated' = [out |-> s.out, undefined |-> s.undefined]
    /\ UNCHANGED <<program, tree, bytecode, machineVars>>

Compile ==
    /\ phase = "evaluated"
    /\ phase' = "compiled"
    /\ bytecode' = CompiledOf[tree]
    /\ UNCHANGED <<program, tree, evaluated, machineVars>>

Run ==
    /\ phase = "compiled"
    /\ Load \/ Step
    /\ UNCHANGED languageVars

Next == Parse \/ Evaluate \/ Compile \/ Run

Spec == LanguageInit /\ [][Next]_vars

------------------------------------------------------------------------------
(* Static depths of the operand stack in the code of one function: a        *)
(* function from the positions that are reached, in order of the code, to   *)
(* the number of operands on the stack there, or -1 where two paths         *)
(* disagree.                                                                *)

Growth(instr) ==
    CASE instr.op \in {"CONSTANT", "TRUE", "FALSE", "NULL", "GET_GLOBAL", "GET_LOCAL",
                       "GET_BUILTIN", "GET_FREE", "CURRENT_CLOSURE", "GET_THIS"} -> 1
      [] instr.op \in {"ADD", "SUB", "MULTIPLY", "DIVIDE", "MOD", "EQUAL", "NOTEQUAL",
                       "GREATERTHAN", "GREATERTHAN_EQUAL", "POP", "FILE_STMT_OUTPUT",
                       "SET_GLOBAL", "SET_LOCAL", "JUMP_NOT_TRUTHY", "RETURN_VALUE",
                       "GET_PROPERTY", "GET_METHOD", "INDEX"} -> -1
      [] instr.op \in {"PATCH_PROPERTY_SYM", "GET_SUPER_METHOD"} -> -2
      [] instr.op \in {"SET_PROPERTY", "SET_INDEX", "PATCH_INDEX", "POSTFIX_INDEX", "SLICE"} -> -3
      [] instr.op = "ARRAY" -> 1 - instr.x
      [] instr.op = "CALL_KW" -> -(instr.x + 2 * instr.y)
      [] instr.op = "CLOSURE" -> 1 - instr.y
      [] instr.op = "CALL" -> -instr.x
      [] OTHER -> 0

Successors(instr, i) ==
    CASE instr.op = "JUMP" -> {instr.x}
      [] instr.op = "JUMP_NOT_TRUTHY" -> {instr.x, i + 1}
      [] instr.op \in {"RETURN_VALUE", "RETURN"} -> {}
      [] OTHER -> {i + 1}

Depths(code) ==
    LET Flow(depths, i) ==
            LET after == depths[i] + Growth(code[i + 1])
                reached == Successors(code[i + 1], i)
                meets(j) == j \in DOMAIN depths /\ depths[j] # after
            IN  IF i \notin DOMAIN depths THEN depths
                ELSE [j \in reached |-> IF meets(j) THEN -1 ELSE after] @@ depths
    IN  Fold(Flow, [i \in {0} |-> 0], [i \in 1..Len(code) |-> i - 1])

(* Instructions that put a value in the place of their operands.            *)
LeavingValue == {"ADD", "SUB", "MULTIPLY", "DIVIDE", "MOD", "EQUAL", "NOTEQUAL", "GREATERTHAN",
                 "GREATERTHAN_EQUAL", "BANG", "MINUS", "GET_PROPERTY", "GET_METHOD",
                 "GET_SUPER_METHOD", "ARRAY", "INDEX", "POSTFIX_INDEX", "SLICE"}

(* What an instruction needs: constants, locals and captured variables that *)
(* exist, operands to pop, and nothing else on the stack of a function that *)
(* returns.                                                                 *)
OperandsExist(instr, depth, locals, captured) ==
    CASE instr.op = "CONSTANT" -> instr.x < Len(bytecode.constants)
      [] instr.op = "CLOSURE" ->
            /\ instr.x < Len(bytecode.constants)
            /\ bytecode.constants[instr.x + 1].v = "function"
            /\ instr.y <= depth
      [] instr.op \in {"GET_LOCAL", "SET_LOCAL"} -> instr.x < locals /\ depth + Growth(instr) >= 0
      [] instr.op = "GET_FREE" -> instr.x < captured
      [] instr.op \in {"CALL", "CALL_KW"} -> depth >= instr.x + 2 * instr.y + 1
      [] instr.op = "GET_PROPERTY_SYM" -> depth >= 1
      [] instr.op = "RETURN_VALUE" -> depth = 1
      [] instr.op = "RETURN" -> depth = 0
      [] OTHER -> depth + Growth(instr) >= IF instr.op \in LeavingValue THEN 1 ELSE 0

(* Depths is an assignment of depths that every instruction agrees with:    *)
(* where it leads, the depth is that before it and its growth.              *)
WellFormed(code, locals, captured) ==
    LET depths == Depths(code)
    IN  /\ code \in Seq([op : STRING, x : 0..Dynamic, y : Nat])
        /\ 0 \in DOMAIN depths /\ depths[0] = 0
        /\ \A i \in DOMAIN depths : i \in 0..Len(code) /\ depths[i] \in Nat
        /\ \A i \in DOMAIN depths \ {Len(code)} :
              LET instr == code[i + 1]
              IN  /\ OperandsExist(instr, depths[i], locals, captured)
                  /\ \A j \in Successors(instr, i) :
                        j \in DOMAIN depths /\ depths[j] = depths[i] + Growth(instr)

(* Only the program ends behind its last instruction, and no closure is     *)
(* what runs it.                                                            *)
IsProgram(code) ==
    /\ WellFormed(code, 0, 0)
    /\ Len(code) \in DOMAIN Depths(code) => Depths(code)[Len(code)] = 0
    /\ \A i \in DOMAIN code : code[i].op # "CURRENT_CLOSURE"

IsFunction(f, captured) ==
    LET fn == bytecode.functions[f]
    IN  /\ f \in DOMAIN bytecode.functions
        /\ WellFormed(fn.code, fn.numLocals, captured)
        /\ Len(fn.code) \notin DOMAIN Depths(fn.code)

IsSequence(s) == s \in Seq(ToSet(s))

IsLiteral(value) ==
    CASE value.v = "int" -> value.n \in Int
      [] value.v = "function" -> value.fn \in DOMAIN bytecode.functions
      [] value.v = "class" -> value.class \in DOMAIN bytecode.classes
      [] OTHER -> value.v \in {"string", "newBool", "null"}

FunctionWellFormed(fn) ==
    /\ IsSequence(fn.params) /\ IsSequence(fn.defaults)
    /\ \A i \in DOMAIN fn.defaults : IsLiteral(fn.defaults[i])
    /\ fn.numLocals \in Nat /\ Len(fn.params) <= fn.numLocals

ClassWellFormed(k) ==
    LET class == bytecode.classes[k]
    IN  /\ \A name \in DOMAIN class.fields : class.fields[name] \in 0..Dynamic - 1
        /\ \A name \in DOMAIN class.methods : IsFunction(class.methods[name], 0)
        /\ \A name \in DOMAIN class.byName : class.byName[name] \in DOMAIN bytecode.classes
        /\ Lineage(k) \in Seq(DOMAIN bytecode.classes)
        /\ Initializers(k) \in Seq(DOMAIN bytecode.functions)
        /\ \A f \in ToSet(Initializers(k)) : IsFunction(f, 0)

Codes == {bytecode.code} \union {bytecode.functions[f].code : f \in DOMAIN bytecode.functions}

Runnable ==
    /\ IsSequence(bytecode.constants) /\ IsSequence(bytecode.functions) /\ IsSequence(bytecode.classes)
    /\ IsProgram(bytecode.code)
    /\ \A i \in DOMAIN bytecode.constants : IsLiteral(bytecode.constants[i])
    /\ \A f \in DOMAIN bytecode.functions : FunctionWellFormed(bytecode.functions[f])
    /\ \A k \in DOMAIN bytecode.classes : ClassWellFormed(k)
    /\ \A code \in Codes : \A i \in DOMAIN code :
          code[i].op = "CLOSURE" => IsFunction(bytecode.constants[code[i].x + 1].fn, code[i].y)

------------------------------------------------------------------------------
(* What a program does that keeps to what the machine has a result for.     *)

(* The machine reports none of these: an operator without a result pops its *)
(* operands all the same, a call of a null pointer leaves its arguments, an *)
(* error ends the loop of call_class in the middle of a call.  A slice of   *)
(* an empty list from INT_MAX on asks for an element before the first.      *)
HasResult ==
    LET op == Instruction.op
    IN  /\ op \in {"ADD", "SUB", "MULTIPLY", "DIVIDE", "MOD"} => Arithmetic(op, Below(1), Below(0)) # <<>>
        /\ op \in {"EQUAL", "NOTEQUAL", "GREATERTHAN", "GREATERTHAN_EQUAL"} =>
              Comparison(op, Below(1), Below(0)) # <<>>
        /\ op = "MINUS" => Below(0).v = "int"
        /\ op = "CALL" /\ Callee = NullPtr => Instruction.x = 0
        /\ op = "CALL" /\ Callee.v = "builtin" =>
              Instruction.x >= IF BuiltinNames[Callee.index + 1] = "__append" THEN 2 ELSE 1
        /\ op = "SET_GLOBAL" /\ Below(0) = ErrorObject => constructions = <<>>
        /\ op = "SLICE" /\ Below(3).v = "list" /\ lists[Below(3).id] = <<>> =>
              ~(Below(2).v = "int" /\ Below(2).n = INT_MAX)

(* There is room for one value more on the stack and for one field more in  *)
(* every instance.                                                          *)
HasRoom ==
    /\ sp < StackSize
    /\ \A i \in DOMAIN instances : Len(instances[i].fields) < Dynamic

MeetsNoError ==
    status = "running" => HasRoom /\ (~ConstructionDue /\ ~AtEnd => HasResult)

------------------------------------------------------------------------------
(* Properties.                                                              *)

LanguageTypeOK ==
    /\ phase \in {"text", "parsed", "evaluated", "compiled"}
    /\ status \in {"idle", "running", "halted", "crashed", "out of budget"}
    /\ sp \in 0..StackSize
    /\ DOMAIN stack = 0..StackSize - 1
    /\ executed \in 0..MaxInstructions
    /\ \A k \in DOMAIN frames :
          /\ frames[k].cl.v = "closure"
          /\ frames[k].ip \in 0..Len(CodeOf(frames[k].cl))
          /\ frames[k].base \in 0..StackSize
          /\ frames[k].bound \in 0..Len(instances)
    /\ \A i \in DOMAIN instances :
          /\ instances[i].class \in DOMAIN bytecode.classes
          /\ Len(instances[i].fields) <= Dynamic
    /\ \A k \in DOMAIN constructions :
          /\ constructions[k].instance \in DOMAIN instances
          /\ constructions[k].depth \in 1..Len(frames)
          /\ constructions[k].callee \in 0..StackSize - 1

(* Parsing undoes writing: tokens with no more parentheses, semicolons and  *)
(* braces than the precedences of the operators ask for are parsed to the   *)
(* tree they were written from.  It is about ParseExpression's precedences, *)
(* and about where every statement of the parser leaves current_token.      *)
RoundTrip ==
    phase = "parsed" => StrippedOf[tree] = Programs[program].tree

(* The bytecode of every function is one that the machine can run: all      *)
(* paths to an instruction leave the same number of operands, jumps stay in *)
(* the function, operands refer to what exists, no path runs off the end of *)
(* a function.  It is about compile, rebase_jump_operands and the loop      *)
(* stack, whose backpatched jumps cross each other in nested loops.         *)
BytecodeWellFormed == phase = "compiled" /\ status = "idle" => Runnable

(* Where the operands of a frame end: behind its locals, as many as the     *)
(* code has at its position.                                                *)
LocalsOf(cl) == IF cl.fn = 0 THEN 0 ELSE Max({FunctionOf(cl).numLocals, 1})
Balance(k) ==
    frames[k].base + LocalsOf(frames[k].cl) + Depths(CodeOf(frames[k].cl))[frames[k].ip]

(* At every instruction the machine has exactly the operands on its stack   *)
(* that the code has there on every path: a loop leaks nothing, a call      *)
(* leaves one value for its callee and arguments, and so a push is dropped  *)
(* only for the depth of the calls.                                         *)
StackBalanced == status = "running" /\ ~ConstructionDue => sp = Balance(Len(frames))

(* Both engines print the same (L2 of docs/vm-parity-contract.md): what the *)
(* machine has printed so far is the beginning of what the evaluator        *)
(* printed, and all of it when the machine halts, which it does of itself   *)
(* and without an error that it does not report.                            *)
OutputParity ==
    /\ phase = "compiled" => ~evaluated.undefined
    /\ IsPrefix(output, evaluated.out)
    /\ status = "halted" => output = evaluated.out
    /\ status \notin {"crashed", "out of budget"}
    /\ MeetsNoError
=============================================================================
