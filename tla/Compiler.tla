------------------------------ MODULE Compiler ------------------------------
(***************************************************************************)
(* The bytecode compiler of cpp-v3 (vm/compiler.cpp) for programs of        *)
(* integers, booleans, null, lists, control flow, functions, closures and   *)
(* classes.  All functions are compiled into one buffer, from which         *)
(* leave_scope cuts the function it leaves; functions is what it has cut,   *)
(* in their order.  A position counts instructions, where the code counts   *)
(* bytes.  A compile function is an operator of the compiler's state c and  *)
(* the node, and gives the new state.                                       *)
(*                                                                         *)
(* Left out: strings and hashes, spawn and await, default values that are   *)
(* no literals, what a class captures of the function it is in, and         *)
(* operands wider than their bytes.                                         *)
(***************************************************************************)
EXTENDS Syntax, SymbolTable
LOCAL INSTANCE SequencesExt

CONSTANT Builtins   \* names of the builtin functions, in their order

Instr(op, x, y) == [op |-> op, x |-> x, y |-> y]

DefineAll(tables, names) == Fold(Define, tables, names)

Scope(start, isClass) == [start |-> start, last |-> "", isClass |-> isClass]

Initial ==
    LET Register(tables, i) == DefineBuiltin(tables, i - 1, Builtins[i])
    IN  [code |-> <<>>,
         constants |-> <<>>,
         functions |-> <<>>,
         classes |-> <<>>,
         compiled |-> [name \in {} |-> 0],
         scopes |-> <<Scope(0, FALSE)>>,
         tables |-> Fold(Register, <<EmptyTable>>, [i \in DOMAIN Builtins |-> i]),
         loops |-> <<>>,
         direct |-> FALSE,
         literal |-> FALSE,
         assigned |-> {}]

Here(c) == Len(c.code)

Emit2(c, op, x, y) ==
    [c EXCEPT !.code = Append(@, Instr(op, x, y)), !.scopes[Len(c.scopes)].last = op]
Emit1(c, op, x) == Emit2(c, op, x, 0)
Emit(c, op) == Emit2(c, op, 0, 0)

(* changeOperand: the jump at pos goes to target.                           *)
Patch(c, pos, target) == [c EXCEPT !.code[pos + 1].x = target]
PatchAll(c, positions, target) ==
    [c EXCEPT !.code = [i \in DOMAIN @ |->
        IF i - 1 \in positions THEN [@[i] EXCEPT !.x = target] ELSE @[i]]]

(* A jump whose target is not known when it is emitted.                     *)
Pending == 9999

EmitConstant(c, value) ==
    Emit1([c EXCEPT !.constants = Append(@, value)], "CONSTANT", Len(c.constants))

LastIs(c, op) == Last(c.scopes).last = op

ReplaceLastPopWithReturn(c) ==
    [c EXCEPT !.code[Len(c.code)].op = "RETURN_VALUE",
              !.scopes[Len(c.scopes)].last = "RETURN_VALUE"]

(* A name on the stack, for the instruction that looks it up.               *)
EmitName(c, name) == EmitConstant(c, [v |-> "string", s |-> name])

(* A field by its index in the instances of its class, or, where the class  *)
(* is not known, by its name.                                               *)
Dynamic == 65535
Field(name, index) == Symbol(name, "CLASS", index)

LoadSymbol(c, symbol) ==
    CASE symbol.scope = "GLOBAL" -> Emit1(c, "GET_GLOBAL", symbol.index)
      [] symbol.scope = "LOCAL" -> Emit1(c, "GET_LOCAL", symbol.index)
      [] symbol.scope = "BUILTIN" -> Emit1(c, "GET_BUILTIN", symbol.index)
      [] symbol.scope = "FREE" -> Emit1(c, "GET_FREE", symbol.index)
      [] symbol.scope = "FUNCTION" -> Emit(c, "CURRENT_CLOSURE")
      [] symbol.scope = "CLASS" ->
            Emit1(EmitName(c, symbol.name), "GET_PROPERTY_SYM", symbol.index)

(* What the handlers of let, assignments and definitions end with.          *)
SetSymbol(c, symbol) ==
    CASE symbol.scope = "GLOBAL" -> Emit1(c, "SET_GLOBAL", symbol.index)
      [] symbol.scope = "LOCAL" -> Emit1(c, "SET_LOCAL", symbol.index)
      [] symbol.scope = "CLASS" ->
            Emit1(EmitName(c, symbol.name), "PATCH_PROPERTY_SYM", symbol.index)
      [] OTHER -> c

Defining(c, name) == [c EXCEPT !.tables = Define(@, name)]

RECURSIVE Compile(_, _)

CompileAll(c, nodes) == Fold(Compile, c, nodes)

(* A body, in which no statement is one of the program itself.              *)
CompileBlock(c, stmts) ==
    [CompileAll([c EXCEPT !.direct = FALSE], stmts) EXCEPT !.direct = c.direct]

CompileIndirect(c, node) ==
    [Compile([c EXCEPT !.direct = FALSE], node) EXCEPT !.direct = c.direct]

------------------------------------------------------------------------------
(* Expressions.                                                             *)

Opcodes ==
    [o \in {"+", "-", "*", "/", "%", "==", "!=", ">", ">=", "<", "<=", "++", "--", "+=", "-=", "!"} |->
        CASE o \in {"+", "++", "+="} -> "ADD"
          [] o \in {"-", "--", "-="} -> "SUB"
          [] o = "*" -> "MULTIPLY"
          [] o = "/" -> "DIVIDE"
          [] o = "%" -> "MOD"
          [] o = "==" -> "EQUAL"
          [] o = "!=" -> "NOTEQUAL"
          [] o \in {">", "<"} -> "GREATERTHAN"
          [] o \in {">=", "<="} -> "GREATERTHAN_EQUAL"
          [] o = "!" -> "BANG"]

CompilePrefix(c, node) ==
    Emit(Compile(c, node.right), IF node.op = "-" THEN "MINUS" ELSE "BANG")

(* and, or: the right operand is skipped when the left one decides.         *)
CompileAnd(c, node) ==
    LET left == Compile(c, node.left)
        right == Compile(Emit1(left, "JUMP_NOT_TRUTHY", Pending), node.right)
        jumped == Emit1(right, "JUMP", Pending)
        false == Emit(Patch(jumped, Here(left), Here(jumped)), "FALSE")
    IN  Patch(false, Here(right), Here(false))

CompileOr(c, node) ==
    LET left == Compile(c, node.left)
        true == Emit(Emit1(left, "JUMP_NOT_TRUTHY", Pending), "TRUE")
        jumped == Emit1(true, "JUMP", Pending)
        right == Compile(Patch(jumped, Here(left), Here(jumped)), node.right)
    IN  Patch(right, Here(true), Here(right))

CompileInfix(c, node) ==
    CASE node.op = "and" -> CompileAnd(c, node)
      [] node.op = "or" -> CompileOr(c, node)
      [] node.op \in {"<", "<="} ->
            Emit(Compile(Compile(c, node.right), node.left), Opcodes[node.op])
      [] OTHER -> Emit(Compile(Compile(c, node.left), node.right), Opcodes[node.op])

CompileList(c, node) == Emit1(CompileAll(c, node.elements), "ARRAY", Len(node.elements))

CompileElement(c, node) == Compile(Compile(c, node.left), node.index)
ReadElement(c, node) == Emit(CompileElement(c, node), "INDEX")

CompileIndex(c, node) ==
    LET slice == <<node.index, node.indexEnd, node.step>>
    IN  IF node.indexEnd = Nothing THEN ReadElement(c, node)
        ELSE Emit(CompileAll(Compile(c, node.left), slice), "SLICE")

EnclosedInClassMethod(c) == Len(c.scopes) > 1 /\ c.scopes[Len(c.scopes) - 1].isClass

(* A name that nothing defines yet: in a method or a function literal it is *)
(* a field of an instance, in another function it is read from a global     *)
(* that the program assigns later, or is null; at the top level it becomes  *)
(* a global.                                                                *)
CompileUnresolved(c, name) ==
    LET root == DefineInTable(c.tables[1], name, "GLOBAL")
        isField == EnclosedInClassMethod(c) \/ c.literal
    IN  CASE isField -> LoadSymbol(c, Field(name, Dynamic))
          [] ~isField /\ ~IsRoot(c.tables) /\ name \in c.assigned ->
                Emit1([c EXCEPT !.tables[1] = root], "GET_GLOBAL", root.store[name].index)
          [] ~isField /\ ~IsRoot(c.tables) /\ name \notin c.assigned -> Emit(c, "NULL")
          [] ~isField /\ IsRoot(c.tables) ->
                Emit1([c EXCEPT !.tables = <<root>>], "GET_GLOBAL", root.store[name].index)

CompileIdentifier(c, node) ==
    LET r == Resolve(c.tables, node.name)
        resolved == [c EXCEPT !.tables = r.tables]
    IN  IF r.symbol = Unresolved THEN CompileUnresolved(resolved, node.name)
        ELSE LoadSymbol(resolved, r.symbol)

(* The variable that ++, -- or += changes; in a function an unknown name is *)
(* a field.                                                                 *)
ResolveToChange(c, name) ==
    LET r == Resolve(c.tables, name)
    IN  IF r.symbol = Unresolved /\ ~IsRoot(c.tables)
        THEN [r EXCEPT !.symbol = Field(name, Dynamic)] ELSE r

(* List and index are compiled for every use of the element.                *)
CompileElementIncrement(c, node, isPrefix) ==
    LET Read(d) == ReadElement(d, node.target)
        Plus1(d) == Emit(EmitConstant(Read(d), [v |-> "int", n |-> 1]), Opcodes[node.op])
        Patched(d) == Emit(CompileElement(d, node.target), "PATCH_INDEX")
    IN  IF isPrefix THEN Read(Patched(Plus1(c)))
        ELSE Emit(CompileElement(Plus1(Read(c)), node.target), "POSTFIX_INDEX")

(* The prefix form loads the new value, the postfix form has loaded the old *)
(* one.  For members and captured names nothing is emitted, for other       *)
(* scopes the variable is not set.                                          *)
CompileIncrement(c, node, isPrefix) ==
    LET r == ResolveToChange(c, node.target.name)
        resolved == [c EXCEPT !.tables = r.tables]
        old == IF isPrefix THEN resolved ELSE LoadSymbol(resolved, r.symbol)
        sum == Emit(EmitConstant(LoadSymbol(old, r.symbol), [v |-> "int", n |-> 1]),
                    Opcodes[node.op])
        set == SetSymbol(sum, r.symbol)
    IN  CASE node.target.k = "member" -> c
          [] node.target.k = "index" -> CompileElementIncrement(c, node, isPrefix)
          [] OTHER ->
                IF r.symbol.scope \in {"FREE", "UNRESOLVED"} THEN resolved
                ELSE IF isPrefix /\ r.symbol.scope \in {"GLOBAL", "LOCAL", "CLASS"}
                THEN LoadSymbol(set, r.symbol)
                ELSE set

(* emit_call_op: every keyword argument is its value and its name.          *)
EmitCall(c, node) ==
    LET Pair(d, kw) == EmitName(Compile(d, kw.value), kw.target.name)
        pushed == CompileAll(c, node.args)
    IN  IF node.kwArgs = <<>> THEN Emit1(pushed, "CALL", Len(node.args))
        ELSE Emit2(Fold(Pair, pushed, node.kwArgs), "CALL_KW", Len(node.args), Len(node.kwArgs))

LoadMethod(c, member) ==
    LET this == EmitName(Emit(c, "GET_THIS"), member.owner.name)
    IN  IF member.owner.k = "super" THEN Emit(EmitName(this, member.name), "GET_SUPER_METHOD")
        ELSE Emit(EmitName(Compile(c, member.owner), member.name), "GET_METHOD")

(* Of a call of what a method has returned, only the outer arguments count. *)
CompileCall(c, node) ==
    IF node.fn.k = "member" /\ node.fn.isMethod THEN EmitCall(LoadMethod(c, node.fn), node)
    ELSE EmitCall(Compile(c, node.fn), node)

(* resolve_class_field_symbol: what the innermost class knows of the name.  *)
FieldOf(c, name) ==
    LET knowing == {i \in DOMAIN c.tables :
                      Defines(c.tables[i], name) /\ c.tables[i].store[name].scope = "CLASS"}
    IN  IF knowing = {} THEN Field(name, Dynamic) ELSE c.tables[Max(knowing)].store[name]

CompileMember(c, node) ==
    LET field == FieldOf(c, node.name)
    IN  CASE node.isMethod -> EmitCall(LoadMethod(c, node), node)
          [] ~node.isMethod /\ node.owner.k \in {"this", "super"} /\ field.index # Dynamic ->
                LoadSymbol(c, field)
          [] OTHER -> Emit(EmitName(Compile(c, node.owner), node.name), "GET_PROPERTY")

------------------------------------------------------------------------------
(* Assignments.                                                             *)

CompileLet(c, node) ==
    LET defined == Defining(c, node.name)
    IN  SetSymbol(Compile(defined, node.value), Defined(defined.tables, node.name))

(* A name that is not known is defined before its value is compiled.  The   *)
(* value of a captured variable or builtin stays on the stack.              *)
AssignName(c, node) ==
    LET name == node.target.name
        r == Resolve(c.tables, name)
        resolved == [c EXCEPT !.tables = r.tables]
        defined == Defining(resolved, name)
    IN  IF r.symbol = Unresolved
        THEN SetSymbol(Compile(defined, node.value), Defined(defined.tables, name))
        ELSE SetSymbol(Compile(resolved, node.value), r.symbol)

(* compile_nested_member_property_assign: the owner and the value go        *)
(* through two variables of the function.                                   *)
AssignNested(c, node) ==
    LET Stash(d, name) == LET e == Defining(d, name) IN SetSymbol(e, Defined(e.tables, name))
        owner == Stash(Compile(c, node.target.owner), "__nested_owner_tmp")
        value == Stash(Compile(owner, node.value), "__nested_value_tmp")
        Load(d, name) == LoadSymbol(d, Defined(d.tables, name))
        loaded == Load(Load(value, "__nested_owner_tmp"), "__nested_value_tmp")
    IN  Emit(EmitName(loaded, node.target.name), "SET_PROPERTY")

CompileAssign(c, node) ==
    LET target == node.target
    IN  CASE target.k = "identifier" -> AssignName(c, node)
          [] target.k = "index" ->
                Emit(Compile(CompileElement(c, target), node.value), "SET_INDEX")
          [] target.k = "member" ->
             CASE target.owner.k = "this" ->
                     SetSymbol(Compile(c, node.value), FieldOf(c, target.name))
               [] target.owner.k = "member" -> AssignNested(c, node)
               [] OTHER -> Emit(EmitName(Compile(Compile(c, target.owner), node.value), target.name),
                                "SET_PROPERTY")

(* The owner of a member is compiled twice.                                 *)
PlusEqualsMember(c, node) ==
    LET owner == Compile(Compile(c, node.target.owner), node.target.owner)
        old == Emit(EmitName(owner, node.target.name), "GET_PROPERTY")
        sum == Emit(Compile(old, node.value), Opcodes[node.op])
    IN  Emit(EmitName(sum, node.target.name), "SET_PROPERTY")

PlusEqualsElement(c, node) ==
    LET sum == Emit(Compile(ReadElement(c, node.target), node.value), Opcodes[node.op])
    IN  Emit(CompileElement(sum, node.target), "PATCH_INDEX")

PlusEqualsSymbol(c, symbol, node) ==
    SetSymbol(Emit(Compile(LoadSymbol(c, symbol), node.value), Opcodes[node.op]), symbol)

CompilePlusEquals(c, node) ==
    LET target == node.target
        r == ResolveToChange(c, target.name)
        resolved == [c EXCEPT !.tables = r.tables]
    IN  CASE target.k = "member" ->
                IF target.owner.k = "this" THEN PlusEqualsSymbol(c, FieldOf(c, target.name), node)
                ELSE PlusEqualsMember(c, node)
          [] target.k = "index" -> PlusEqualsElement(c, node)
          [] target.k = "identifier" ->
                IF r.symbol.scope \in {"FREE", "UNRESOLVED"} THEN resolved
                ELSE PlusEqualsSymbol(resolved, r.symbol, node)

------------------------------------------------------------------------------
(* Functions.                                                               *)

EnterScopeOf(c, isClass) ==
    [c EXCEPT !.scopes = Append(@, Scope(Here(c), isClass)), !.tables = Append(@, EmptyTable)]
EnterScope(c) == EnterScopeOf(c, FALSE)

IsJump(instr) == instr.op \in {"JUMP", "JUMP_NOT_TRUTHY"}

(* Broken on purpose: the jumps of a function keep the positions they had   *)
(* in the compiler's buffer.                                                *)
NotRebased(chunk, start) == chunk

(* rebase_jump_operands_in_extracted_chunk                                  *)
Rebased(chunk, start) ==
    [i \in DOMAIN chunk |->
        IF IsJump(chunk[i]) /\ chunk[i].x >= start THEN [chunk[i] EXCEPT !.x = @ - start]
        ELSE chunk[i]]

LeaveScope(c) ==
    LET start == Last(c.scopes).start
    IN  [c EXCEPT !.code = SubSeq(@, 1, start), !.scopes = Front(@), !.tables = Front(@)]

ScopeCode(c) ==
    LET start == Last(c.scopes).start IN Rebased(SubSeq(c.code, start + 1, Here(c)), start)

(* fill_default_arg_values.  A boolean is a new object, neither of the two  *)
(* that the rest of the machine knows.                                      *)
DefaultValue(c, node, i) ==
    CASE node.k = "integer" -> [v |-> "int", n |-> node.n]
      [] node.k = "boolean" -> [v |-> "newBool", b |-> node.b, id |-> <<Len(c.functions), i>>]
      [] node.k = "null" -> [v |-> "null"]

(* The function whose body has just been compiled, and its scope left.      *)
AddFunction(c, params, defaults, isMethod) ==
    LET function == [code |-> ScopeCode(c),
                     numLocals |-> Top(c.tables).numDefinitions,
                     params |-> params,
                     defaults |-> [i \in DOMAIN defaults |-> DefaultValue(c, defaults[i], i)],
                     isMethod |-> isMethod]
    IN  [LeaveScope(c) EXCEPT !.functions = Append(@, function)]

(* The function becomes a constant, and the enclosing one loads what it     *)
(* captures.                                                                *)
CloseFunction(c, node) ==
    LET free == Top(c.tables).freeSymbols
        left == AddFunction(c, node.params, node.defaults, FALSE)
        loaded == Fold(LoadSymbol, left, free)
        constant == [v |-> "function", fn |-> Len(left.functions)]
    IN  Emit2([loaded EXCEPT !.constants = Append(@, constant)],
              "CLOSURE", Len(loaded.constants), Len(free))

NamedFunction(c, name, params) ==
    [EnterScope(c) EXCEPT !.tables = DefineAll(DefineFunctionName(@, name), params)]

WithReturn(c) == IF LastIs(c, "RETURN_VALUE") THEN c ELSE Emit(c, "RETURN")

(* A function literal returns the value of its last expression statement.   *)
CompileFunctionLiteral(c, node) ==
    LET entered == IF node.name = "" THEN [EnterScope(c) EXCEPT !.tables = DefineAll(@, node.params)]
                   ELSE NamedFunction(c, node.name, node.params)
        body == CompileBlock([entered EXCEPT !.literal = TRUE], node.body)
        ended == WithReturn(IF LastIs(body, "POP") THEN ReplaceLastPopWithReturn(body) ELSE body)
    IN  [CloseFunction(ended, node) EXCEPT !.literal = c.literal]

CompileDef(c, node) ==
    LET defined == Defining(c, node.name)
        body == CompileBlock(NamedFunction(defined, node.name, node.params), node.body)
    IN  SetSymbol(CloseFunction(WithReturn(body), node), Defined(defined.tables, node.name))

CompileReturn(c, node) ==
    Emit(IF node.value = Nothing THEN Emit(c, "NULL") ELSE Compile(c, node.value), "RETURN_VALUE")

------------------------------------------------------------------------------
(* Classes.  The table of the class gives every field its index in the      *)
(* instances: first those of the parents, then the attributes.              *)

ClassNamed(name) ==
    [name |-> name, supers |-> <<>>, byName |-> [n \in {} |-> 0], fields |-> [n \in {} |-> 0],
     initializers |-> <<>>, methods |-> [n \in {} |-> 0]]

Entry(entries, name, value) ==
    [n \in DOMAIN entries \union {name} |-> IF n = name THEN value ELSE entries[n]]

(* r: the compiler's state c, and the class so far.                         *)
WithField(r, name) ==
    LET tables == DefineField(r.c.tables, name)
    IN  [c |-> [r.c EXCEPT !.tables = tables],
         class |-> [r.class EXCEPT !.fields = Entry(@, name, Defined(tables, name).index)]]

(* merge_parent_class: the fields in some order of a hash table.            *)
MergeParent(r, parent) ==
    LET id == r.c.compiled[parent.name]
        merged == [r EXCEPT !.class.supers = Append(@, id),
                            !.class.byName = Entry(@, parent.name, id)]
        Inherit(name, q) == WithField(q, name)
    IN  IF parent.name \notin DOMAIN r.c.compiled THEN r
        ELSE FoldSet(Inherit, merged, DOMAIN r.c.classes[id].fields \ DOMAIN r.class.fields)

CompileInitializer(r, attribute) ==
    LET assign == attribute.value
        field == Resolve(r.c.tables, assign.target.name).symbol
        value == Compile(EnterScope(r.c), assign.value)
        added == AddFunction(Emit(SetSymbol(value, field), "RETURN"), <<>>, <<>>, FALSE)
    IN  [c |-> added, class |-> [r.class EXCEPT !.initializers = Append(@, Len(added.functions))]]

CompileMethod(r, method) ==
    LET entered == [EnterScope(r.c) EXCEPT !.tables = DefineAll(@, method.params)]
        body == WithReturn(CompileBlock(entered, method.body))
        added == AddFunction(body, method.params, method.defaults, TRUE)
    IN  [c |-> added,
         class |-> [r.class EXCEPT !.methods = Entry(@, method.name, Len(added.functions))]]

CompileClass(c, node) ==
    LET defined == Defining(c, node.name)
        entered == [c |-> EnterScopeOf(defined, TRUE), class |-> ClassNamed(node.name)]
        AddAttribute(r, attribute) == WithField(r, attribute.value.target.name)
        declared == Fold(AddAttribute, Fold(MergeParent, entered, node.parents), node.attributes)
        r == Fold(CompileMethod, Fold(CompileInitializer, declared, node.attributes), node.methods)
        id == Len(r.c.classes) + 1
        added == [LeaveScope(r.c) EXCEPT !.classes = Append(@, r.class),
                                         !.compiled = Entry(@, node.name, id)]
    IN  SetSymbol(EmitConstant(added, [v |-> "class", class |-> id]),
                  Defined(defined.tables, node.name))

------------------------------------------------------------------------------
(* Control flow.                                                            *)

(* Both branches leave a null, which the statement pops.                    *)
CompileIf(c, node) ==
    LET cond == Compile(c, node.cond)
        body == Emit(CompileBlock(Emit1(cond, "JUMP_NOT_TRUTHY", Pending), node.body), "NULL")
        jumped == Emit1(body, "JUMP", Pending)
        patched == Patch(jumped, Here(cond), Here(jumped))
        alternative == Emit(IF node.alternative = NoElse THEN patched
                            ELSE CompileBlock(patched, node.alternative), "NULL")
    IN  Emit(Patch(alternative, Here(body), Here(alternative)), "POP")

EnterLoop(c, isFor) ==
    [c EXCEPT !.loops = Append(@, [isFor |-> isFor, begin |-> Here(c),
                                   breaks |-> {}, continues |-> {}])]

(* emitLoopBreak, emitLoopContinue                                          *)
CompileBreak(c) ==
    IF c.loops = <<>> THEN c
    ELSE [Emit1(c, "JUMP", Pending) EXCEPT !.loops[Len(c.loops)].breaks = @ \union {Here(c)}]

CompileContinue(c) ==
    IF c.loops = <<>> THEN c
    ELSE IF Last(c.loops).isFor
    THEN [Emit1(c, "JUMP", Pending) EXCEPT !.loops[Len(c.loops)].continues = @ \union {Here(c)}]
    ELSE Emit1(c, "JUMP", Last(c.loops).begin)

(* Both loops end the same way: back to the condition, out for its exit and *)
(* for every break.                                                         *)
LeaveLoop(c, exitJump) ==
    LET loop == Last(c.loops)
        jumped == Emit1(c, "JUMP", loop.begin)
    IN  [PatchAll(jumped, loop.breaks \union {exitJump}, Here(jumped)) EXCEPT !.loops = Front(@)]

CompileWhile(c, node) ==
    LET cond == Compile(EnterLoop(c, FALSE), node.cond)
        body == CompileBlock(Emit1(cond, "JUMP_NOT_TRUTHY", Pending), node.body)
    IN  LeaveLoop(body, Here(cond))

(* Broken on purpose: what the step leaves on the stack stays there.        *)
StepWithoutPop(c, step) == CompileIndirect(c, step)

CompileStep(c, step) ==
    LET compiled == CompileIndirect(c, step)
    IN  IF step.k \in {"prefixIncrement", "postfixIncrement"} THEN Emit(compiled, "POP")
        ELSE compiled

CompileFor(c, node) ==
    LET init == IF node.init = Nothing THEN c ELSE CompileIndirect(c, node.init)
        cond == Compile(EnterLoop(init, TRUE), node.cond)
        body == CompileBlock(Emit1(cond, "JUMP_NOT_TRUTHY", Pending), node.body)
        step == IF node.step = Nothing THEN body ELSE CompileStep(body, node.step)
    IN  LeaveLoop(PatchAll(step, Last(step.loops).continues, Here(body)), Here(cond))

------------------------------------------------------------------------------
(* Statements that leave nothing on the stack; the value of any other is    *)
(* printed at the top level and dropped elsewhere.                          *)
CompileExpressionStatement(c, node) ==
    LET bare == {"def", "class", "assign", "while", "for", "plusEquals"}
    IN  CASE node.value = Nothing -> c
          [] node.value.k \in bare -> Compile(c, node.value)
          [] OTHER -> Emit(Compile(c, node.value), IF c.direct THEN "FILE_STMT_OUTPUT" ELSE "POP")

CompileNode(c, node) ==
    CASE node.k = "expression" -> CompileExpressionStatement(c, node)
      [] node.k = "prefix" -> CompilePrefix(c, node)
      [] node.k = "prefixIncrement" -> CompileIncrement(c, node, TRUE)
      [] node.k = "postfixIncrement" -> CompileIncrement(c, node, FALSE)
      [] node.k = "infix" -> CompileInfix(c, node)
      [] node.k = "list" -> CompileList(c, node)
      [] node.k = "index" -> CompileIndex(c, node)
      [] node.k = "integer" -> EmitConstant(c, [v |-> "int", n |-> node.n])
      [] node.k = "boolean" -> Emit(c, IF node.b THEN "TRUE" ELSE "FALSE")
      [] node.k = "null" -> Emit(c, "NULL")
      [] node.k = "identifier" -> CompileIdentifier(c, node)
      [] node.k = "if" -> CompileIf(c, node)
      [] node.k = "let" -> CompileLet(c, node)
      [] node.k = "assign" -> CompileAssign(c, node)
      [] node.k = "plusEquals" -> CompilePlusEquals(c, node)
      [] node.k = "functionLiteral" -> CompileFunctionLiteral(c, node)
      [] node.k = "def" -> CompileDef(c, node)
      [] node.k = "call" -> CompileCall(c, node)
      [] node.k = "class" -> CompileClass(c, node)
      [] node.k = "this" -> Emit(c, "GET_THIS")
      [] node.k = "super" -> c
      [] node.k = "member" -> CompileMember(c, node)
      [] node.k = "return" -> CompileReturn(c, node)
      [] node.k = "while" -> CompileWhile(c, node)
      [] node.k = "for" -> CompileFor(c, node)
      [] node.k = "break" -> CompileBreak(c)
      [] node.k = "continue" -> CompileContinue(c)

Compile(c, node) == CompileNode(c, node)

------------------------------------------------------------------------------
(* Programs.                                                                *)

DefOf(stmt) ==
    IF stmt.k = "def" THEN {stmt.name}
    ELSE IF stmt.k = "expression" /\ stmt.value.k = "def" THEN {stmt.value.name} ELSE {}

(* Every function of the program is a global before anything is compiled.   *)
HoistFunctions(tables, program) ==
    LET Hoist(ts, stmt) == FoldSet(LAMBDA name, t : Define(t, name), ts, DefOf(stmt))
    IN  Fold(Hoist, tables, program)

AssignedNames(program) ==
    {program[i].value.target.name : i \in {j \in DOMAIN program :
        /\ program[j].k = "expression"
        /\ program[j].value.k = "assign"
        /\ program[j].value.target.k = "identifier"}}

CompileProgram(program) ==
    LET start == [Initial EXCEPT !.tables = HoistFunctions(@, program),
                                 !.assigned = AssignedNames(program)]
        Direct(c, stmt) == [Compile([c EXCEPT !.direct = TRUE], stmt) EXCEPT !.direct = FALSE]
    IN  Fold(Direct, start, program)

(* collect_global_names                                                     *)
GlobalNames(table) ==
    LET globals == {name \in DOMAIN table.store : table.store[name].scope = "GLOBAL"}
    IN  [i \in {table.store[name].index : name \in globals} |->
            CHOOSE name \in globals : table.store[name].index = i]

(* getBytecode                                                              *)
BytecodeOf(program) ==
    LET c == CompileProgram(program)
    IN  [code |-> c.code, constants |-> c.constants, functions |-> c.functions,
         classes |-> c.classes, globalNames |-> GlobalNames(c.tables[1])]
=============================================================================
