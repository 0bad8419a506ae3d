------------------------------ MODULE Evaluator ------------------------------
(***************************************************************************)
(* The tree-walking evaluator of cpp-v3 (evaluator.cpp) on the programs     *)
(* that Compiler compiles.  Eval threads the evaluator's state s: the heaps *)
(* of environments, of lists and of integer objects, which += changes in    *)
(* place, what has been printed, and whether the code has done something    *)
(* undefined (dereferenced a null pointer, read an object as one of another *)
(* type, written beyond a list).                                            *)
(* Left out: strings, hashes, async functions, size() of a list in a chain, *)
(* members of files, sockets and threads, and the collector.                *)
(***************************************************************************)
EXTENDS Syntax, Environment, Slices, Integers
LOCAL INSTANCE SequencesExt

CONSTANT Builtins   \* names of the builtin functions

(* Objects.  NULLOBJECT, TRUE and FALSE exist once.                         *)
NULLOBJECT == [o |-> "null"]
Bool(b) == [o |-> "bool", b |-> b]
IntAt(ref) == [o |-> "int", ref |-> ref]
ListAt(ref) == [o |-> "list", ref |-> ref]
Error == [o |-> "error"]
Function(node, env) == [o |-> "function", node |-> node, env |-> env]
ClassObject(node) == [o |-> "class", node |-> node]
InstanceOf(env) == [o |-> "instance", env |-> env]
Signal(kind) == [o |-> kind]

Yield(s, v) == [s |-> s, v |-> v]
Undefined(s) == Yield([s EXCEPT !.undefined = TRUE], NIL)
NewInt(s, n) == Yield([s EXCEPT !.ints = Append(@, n)], IntAt(Len(s.ints) + 1))
NewList(s, vs) == Yield([s EXCEPT !.lists = Append(@, vs)], ListAt(Len(s.lists) + 1))

IsTruthy(v) == ~(v = NIL \/ v = NULLOBJECT \/ v = Bool(FALSE))
IsError(v) == v.o = "error"
IsInt(v) == v.o = "int"
IsList(v) == v.o = "list"

(* Inspect; of a list it dereferences every element.                        *)
RECURSIVE Inspect(_, _), HasHole(_, _)
Inspect(s, v) ==
    CASE v.o = "int" -> [shown |-> "int", n |-> s.ints[v.ref]]
      [] v.o = "bool" -> [shown |-> "bool", b |-> v.b]
      [] v.o = "list" ->
            LET vs == s.lists[v.ref]
            IN  [shown |-> "list", elements |-> [i \in DOMAIN vs |-> Inspect(s, vs[i])]]
      [] OTHER -> [shown |-> v.o]
HasHole(s, v) ==
    IF IsList(v) THEN \E i \in DOMAIN s.lists[v.ref] : HasHole(s, s.lists[v.ref][i]) ELSE v = NIL
Shown(s, v) == IF HasHole(s, v) THEN Undefined(s).s ELSE [s EXCEPT !.out = Append(@, Inspect(s, v))]
Printed(s, v) == IF v = NIL THEN s ELSE Shown(s, v)

RECURSIVE Eval(_, _, _)

------------------------------------------------------------------------------
(* Operators.                                                               *)

Abs(n) == IF n < 0 THEN -n ELSE n
Divided(a, b) == IF (a < 0) = (b < 0) THEN Abs(a) \div Abs(b) ELSE -(Abs(a) \div Abs(b))

IntegerInfix(s, op, a, b) ==
    CASE op = "+" -> NewInt(s, a + b)
      [] op = "-" -> NewInt(s, a - b)
      [] op = "*" -> NewInt(s, a * b)
      [] op \in {"/", "%"} /\ b = 0 -> Undefined(s)
      [] op = "/" /\ b # 0 -> NewInt(s, Divided(a, b))
      [] op = "%" /\ b # 0 -> NewInt(s, a - b * Divided(a, b))
      [] op = "<" -> Yield(s, Bool(a < b))
      [] op = ">" -> Yield(s, Bool(a > b))
      [] op = "<=" -> Yield(s, Bool(a <= b))
      [] op = ">=" -> Yield(s, Bool(a >= b))
      [] op = "==" -> Yield(s, Bool(a = b))
      [] op = "!=" -> Yield(s, Bool(a # b))
      [] OTHER -> Yield(s, NIL)

BooleanInfix(op, a, b) ==
    CASE op = "==" -> Bool(a = b)
      [] op = "!=" -> Bool(a # b)
      [] op = "and" -> Bool(a /\ b)
      [] op = "or" -> Bool(a \/ b)
      [] OTHER -> NIL

NullInfix(op, left, right) ==
    CASE op = "==" -> Bool(left = right)
      [] op = "!=" -> Bool(left # right)
      [] OTHER -> NULLOBJECT

InfixExpression(s, op, left, right) ==
    LET Both(kind) == left.o = kind /\ right.o = kind
        Either(kind) == left.o = kind \/ right.o = kind
    IN  CASE Either("nil") -> Yield(s, NIL)
          [] ~Either("nil") /\ Either("error") -> Yield(s, Error)
          [] ~Either("nil") /\ ~Either("error") /\ Either("null") ->
                Yield(s, NullInfix(op, left, right))
          [] Both("int") -> IntegerInfix(s, op, s.ints[left.ref], s.ints[right.ref])
          [] Both("bool") -> Yield(s, BooleanInfix(op, left.b, right.b))
          [] OTHER -> Yield(s, NIL)

EvalInfix(s, e, node) ==
    LET left == Eval(s, e, node.left)
        right == Eval(left.s, e, node.right)
    IN  InfixExpression(right.s, node.op, left.v, right.v)

(* ! reads whatever it is given as a boolean.                               *)
EvalPrefix(s, e, node) ==
    LET right == Eval(s, e, node.right)
    IN  CASE node.op = "!" /\ right.v = NIL -> Yield(right.s, Bool(TRUE))
          [] node.op = "!" /\ right.v.o = "bool" -> Yield(right.s, Bool(~right.v.b))
          [] node.op = "-" /\ IsInt(right.v) -> NewInt(right.s, -right.s.ints[right.v.ref])
          [] node.op = "-" /\ right.v # NIL /\ ~IsInt(right.v) -> Yield(right.s, NIL)
          [] OTHER -> Undefined(right.s)

------------------------------------------------------------------------------
(* Lists.  An index counts from 0.                                          *)

(* copy.  Of most kinds of objects there is none: the code says so on the   *)
(* standard output and goes on with a null pointer.                         *)
RECURSIVE CopyAll(_, _)
Copy(s, v) ==
    LET elements == CopyAll(s, s.lists[v.ref])
    IN  CASE v = NIL -> Undefined(s)
          [] v.o = "int" -> NewInt(s, s.ints[v.ref])
          [] v.o = "list" -> NewList(elements.s, elements.vs)
          [] v.o = "instance" -> Yield(s, v)
          [] v.o = "function" -> Yield([s EXCEPT !.out = Append(@, [shown |-> "copied"])], v)
          [] OTHER -> Yield([s EXCEPT !.out = Append(@, [shown |-> "no copy"])], NIL)
CopyAll(s, vs) ==
    LET Add(r, v) == LET copied == Copy(r.s, v) IN [s |-> copied.s, vs |-> Append(r.vs, copied.v)]
    IN  Fold(Add, [s |-> s, vs |-> <<>>], vs)

(* newSubList                                                               *)
SubList(s, list, i1, i2, step) ==
    LET vs == s.lists[list.ref]
        positions == Positions(Len(vs), i1, i2, step)
        copied == CopyAll(s, [k \in DOMAIN positions |-> vs[positions[k] + 1]])
    IN  NewList(copied.s, copied.vs)

ElementOf(s, list, i) ==
    IF i \in 0..Len(s.lists[list.ref]) - 1 THEN s.lists[list.ref][i + 1] ELSE NIL

EvalElement(s, left, index) ==
    CASE left = NIL \/ (IsList(left) /\ index = NIL) -> Undefined(s)
      [] IsList(left) /\ IsInt(index) ->
            Yield(s, ElementOf(s, left, s.ints[index.ref]))
      [] OTHER -> Yield(s, NIL)

(* Bounds that are neither integers nor missing make no slice: the element  *)
(* at the first of them is what the expression gives.                       *)
EvalSlice(s, left, from, to, by) ==
    LET max == Len(s.lists[left.ref])
        Bound(v) == IsInt(v) \/ v = NULLOBJECT
        step == IF by = NULLOBJECT THEN 1 ELSE s.ints[by.ref]
        i2 == IF to = NULLOBJECT THEN DefaultEnd(max, step) ELSE s.ints[to.ref]
        i1 == IF from = NULLOBJECT THEN DefaultStart(max, to = NULLOBJECT, step)
              ELSE s.ints[from.ref]
        allMissing == from = NULLOBJECT /\ to = NULLOBJECT /\ by = NULLOBJECT
        hole == from = NIL \/ (Bound(from) /\ (to = NIL \/ (Bound(to) /\ by = NIL)))
    IN  CASE left = NIL \/ (IsList(left) /\ hole) -> Undefined(s)
          [] IsList(left) /\ ~hole /\ Bound(from) /\ Bound(to) /\ (IsInt(by) \/ allMissing) ->
                SubList(s, left, i1, i2, step)
          [] OTHER -> EvalElement(s, left, from)

EvalIndex(s, e, node) ==
    LET left == Eval(s, e, node.left)
        index == Eval(left.s, e, node.index)
        indexEnd == Eval(index.s, e, node.indexEnd)
        step == Eval(indexEnd.s, e, node.step)
    IN  CASE IsError(left.v) -> left
          [] ~IsError(left.v) /\ IsError(index.v) -> index
          [] OTHER -> IF node.indexEnd = Nothing THEN EvalElement(index.s, left.v, index.v)
                      ELSE EvalSlice(step.s, left.v, index.v, indexEnd.v, step.v)

(* Nothing checks whether an element that is written exists.                *)
Write(s, list, i, v) ==
    IF i \in 0..Len(s.lists[list.ref]) - 1 THEN [s EXCEPT !.lists[list.ref][i + 1] = v]
    ELSE Undefined(s).s

(* The value is evaluated last, and only for a list.                        *)
AssignElement(s, e, node) ==
    LET left == Eval(s, e, node.target.left)
        index == Eval(left.s, e, node.target.index)
        r == Eval(index.s, e, node.value)
    IN  CASE IsError(left.v) -> left
          [] ~IsError(left.v) /\ IsError(index.v) -> index
          [] ~IsError(left.v) /\ ~IsError(index.v) /\ left.v = NIL -> Undefined(index.s)
          [] OTHER -> Yield(IF ~IsList(left.v) THEN index.s
                            ELSE IF ~IsInt(index.v) THEN Undefined(index.s).s
                            ELSE Write(r.s, left.v, index.s.ints[index.v.ref], r.v), NIL)

(* List and index are evaluated once for the old value and once more for    *)
(* the new one.                                                             *)
IncrementElement(s, e, node) ==
    LET old == EvalIndex(s, e, node.target)
        delta == IF node.op = "++" THEN 1 ELSE -1
        value == old.s.ints[old.v.ref]
        new == NewInt(old.s, value + delta)
        left == Eval(new.s, e, node.target.left)
        index == Eval(left.s, e, node.target.index)
        isPrefix == node.k = "prefixIncrement"
    IN  CASE ~IsInt(old.v) \/ (IsList(left.v) /\ ~IsInt(index.v)) -> Undefined(old.s)
          [] IsInt(old.v) /\ IsList(left.v) /\ IsInt(index.v) ->
                NewInt(Write(index.s, left.v, index.s.ints[index.v.ref], new.v),
                       value + IF isPrefix THEN delta ELSE 0)
          [] OTHER -> IF isPrefix /\ left.v # NIL THEN Yield(index.s, NULLOBJECT)
                      ELSE Undefined(index.s)

------------------------------------------------------------------------------
(* Names and assignments.                                                   *)

EvalIdentifier(s, e, name) ==
    LET value == Get(s.envs, e, name)
    IN  CASE value # NIL -> Yield(s, value)
          [] value = NIL /\ Contains(Builtins, name) -> Yield(s, [o |-> "builtin", name |-> name])
          [] OTHER -> Yield(s, Error)

EvalLet(s, e, node) ==
    LET r == Eval(s, e, node.value)
    IN  Yield([r.s EXCEPT !.envs = SetLocalParam(@, e, node.name, r.v)], NIL)

(* An integer read from another variable is copied.                         *)
AssignVariable(s, e, node) ==
    LET r == Eval(s, e, node.value)
        copied == IF node.value.k = "identifier" /\ IsInt(r.v) THEN NewInt(r.s, r.s.ints[r.v.ref])
                  ELSE r
    IN  IF IsError(r.v) THEN r
        ELSE Yield([copied.s EXCEPT !.envs = Set(@, e, node.target.name, copied.v)], NIL)

(* EvalPrefixIncrement, EvalPostfixIncrement: the variable gets a new       *)
(* object, and so does the value of the expression.                         *)
EvalIncrement(s, e, node) ==
    LET name == node.target.name
        old == Get(s.envs, e, name)
        delta == IF node.op = "++" THEN 1 ELSE -1
        new == NewInt(s, s.ints[old.ref] + delta)
        set == [new.s EXCEPT !.envs = Set(@, e, name, new.v)]
    IN  CASE node.target.k = "index" -> IncrementElement(s, e, node)
          [] node.target.k \notin {"identifier", "index"} \/ old = NIL -> Undefined(s)
          [] node.target.k = "identifier" /\ IsInt(old) ->
                NewInt(set, s.ints[old.ref] + IF node.k = "prefixIncrement" THEN delta ELSE 0)
          [] OTHER -> Yield(s, NULLOBJECT)

------------------------------------------------------------------------------
(* Blocks and control flow.  A return, break or continue is the value of    *)
(* every statement it passes through.                                       *)

Leaves(v) == v.o \in {"return", "break", "continue"}

EvalBlock(s, e, stmts) ==
    LET Statement(r, stmt) == IF Leaves(r.v) THEN r ELSE Eval(r.s, e, stmt)
        r == Fold(Statement, Yield(s, NIL), stmts)
    IN  IF Leaves(r.v) THEN r ELSE Yield(r.s, NIL)

EvalIf(s, e, node) ==
    LET cond == Eval(s, e, node.cond)
    IN  CASE IsError(cond.v) -> Yield(cond.s, NIL)
          [] ~IsError(cond.v) /\ IsTruthy(cond.v) -> EvalBlock(cond.s, e, node.body)
          [] OTHER -> IF node.alternative = NoElse THEN Yield(cond.s, NIL)
                      ELSE EvalBlock(cond.s, e, node.alternative)

RECURSIVE EvalLoop(_, _, _, _)
EvalLoop(s, e, node, cond) ==
    LET body == EvalBlock(s, e, node.body)
        stepped == IF node.k = "for" THEN Eval(body.s, e, node.step).s ELSE body.s
        again == Eval(stepped, e, node.cond)
    IN  CASE ~IsTruthy(cond) -> Yield(s, NIL)
          [] IsTruthy(cond) /\ body.v.o = "return" -> body
          [] IsTruthy(cond) /\ body.v.o = "break" -> Yield(body.s, NIL)
          [] OTHER -> EvalLoop(again.s, e, node, again.v)

EvalWhile(s, e, node) ==
    LET cond == Eval(s, e, node.cond)
    IN  IF IsError(cond.v) THEN Yield(cond.s, NIL) ELSE EvalLoop(cond.s, e, node, cond.v)

EvalFor(s, e, node) ==
    LET init == Eval(s, e, node.init)
        cond == Eval(init.s, e, node.cond)
    IN  EvalLoop(cond.s, e, node, cond.v)

------------------------------------------------------------------------------
(* Functions.                                                               *)

(* EvalExpressions: an error is the only value of the list it occurs in.    *)
EvalExpressions(s, e, nodes) ==
    LET Failed(r) == Len(r.vs) = 1 /\ IsError(r.vs[1])
        Argument(r, node) ==
            LET v == Eval(r.s, e, node)
            IN  IF Failed(r) THEN r
                ELSE [s |-> v.s, vs |-> IF IsError(v.v) THEN <<v.v>> ELSE Append(r.vs, v.v)]
    IN  Fold(Argument, [s |-> s, vs |-> <<>>], nodes)

EvalList(s, e, node) ==
    LET r == EvalExpressions(s, e, node.elements) IN NewList(r.s, r.vs)

(* The keyword arguments; of two with one name the first counts.            *)
EvalKeywords(s, e, nodes) ==
    LET Keyword(r, node) ==
            LET v == Eval(r.s, e, node.value)
            IN  [s |-> v.s, kw |-> IF node.target.name \in DOMAIN r.kw THEN r.kw
                                   ELSE With(r.kw, node.target.name, v.v)]
    IN  Fold(Keyword, [s |-> s, kw |-> NoEntries], nodes)

IsFailure(vs) == Len(vs) = 1 /\ IsError(vs[1])

(* The parameters that no keyword argument is for.                          *)
Remaining(f, kw) ==
    LET ForIt(param) == param \notin DOMAIN kw IN Len(SelectSeq(f.node.params, ForIt))

(* The arguments, and for those that are missing the last default values:   *)
(* those from the first on that may be used.  Its number is unsigned: below *)
(* zero it is beyond them all.                                              *)
WithDefaults(args, defaults, first) ==
    args \o IF first < 0 THEN <<>> ELSE SubSeq(defaults, first + 1, Len(defaults))

(* A new environment with the values of the parameters.  A keyword argument *)
(* is Set in it, whatever name it has.                                      *)
Extended(s, f, outer, args, kw) ==
    LET frame == Len(s.envs) + 1
        params == f.node.params
        Bind(envs, i) == IF i <= Len(args) THEN SetLocalParam(envs, frame, params[i], args[i])
                         ELSE envs
        SetKeyword(name, envs) == Set(envs, frame, name, kw[name])
        bound == Fold(Bind, Append(s.envs, EnclosedBy(outer)), [i \in DOMAIN params |-> i])
    IN  [s EXCEPT !.envs = FoldSet(SetKeyword, bound, DOMAIN kw)]

(* UnwrapReturnValue                                                        *)
Returned(r) ==
    CASE r.v.o = "return" /\ r.v.value = NIL -> Undefined(r.s)
      [] r.v.o = "return" /\ r.v.value # NIL -> Yield(r.s, r.v.value)
      [] OTHER -> r

RunBody(s, f) == Returned(EvalBlock(s, Len(s.envs), f.node.body))

(* Every default value is evaluated, where the function is called.          *)
ApplyFunction(s, e, f, args, kw) ==
    LET defaults == EvalExpressions(s, e, f.node.defaults)
        given == Len(args) + Len(defaults.vs)
        all == WithDefaults(args, defaults.vs, given - Len(f.node.params))
    IN  IF Remaining(f, kw) > given THEN Yield(defaults.s, Error)
        ELSE RunBody(Extended(defaults.s, f, f.env, all, kw), f)

(* A method runs in an environment that encloses its instance's, whatever   *)
(* the function object has captured.  Called with the frame of a method, it *)
(* is that method's instance.                                               *)
ReceiverOf(envs, e) ==
    LET outer == envs[e].outer
    IN  IF ~envs[e].isInstance /\ outer # 0 /\ envs[outer].isInstance THEN outer ELSE e

Reattached(envs, e) ==
    IF envs[e].isInstance /\ Outermost(envs, e) = 1 THEN SetOuterEnvironment(envs, e, 1) ELSE envs

ApplyMethod(s, e, f, args, kw) ==
    LET defaults == EvalExpressions(s, e, f.node.defaults)
        given == Len(args) + Len(defaults.vs)
        all == WithDefaults(args, defaults.vs, given - Remaining(f, kw))
        receiver == ReceiverOf(defaults.s.envs, e)
        attached == [defaults.s EXCEPT !.envs = Reattached(@, receiver)]
    IN  CASE f = NIL -> Undefined(s)
          [] f # NIL /\ f.o # "function" -> Yield(s, NIL)
          [] OTHER -> IF Remaining(f, kw) > given THEN Yield(defaults.s, Error)
                      ELSE RunBody(Extended(attached, f, receiver, all, kw), f)

EvalDef(s, e, node) ==
    Yield([s EXCEPT !.envs = Set(@, e, node.name, Function(node, e))], NIL)

EvalReturn(s, e, node) ==
    LET r == Eval(s, e, node.value) IN Yield(r.s, [o |-> "return", value |-> r.v])

------------------------------------------------------------------------------
(* Classes and instances.                                                   *)

EvalClass(s, e, node) == Yield([s EXCEPT !.envs = Set(@, e, node.name, ClassObject(node))], NIL)

(* The attributes and methods that a class gives to the instance, and, as a *)
(* parent, to the sibling environment that super(...) reaches.  A parent's  *)
(* methods are Set, so that a global of the name is changed instead.        *)
GiveAttributes(s, e, class, instance, sibling) ==
    LET Give(t, attribute) ==
            LET name == attribute.value.target.name
                outer == GlobalOf(t.envs, e)
                r == Eval([t EXCEPT !.envs = SetOuterEnvironment(@, instance, outer)], instance,
                          attribute.value.value)
                given == SetLocalParam(r.s.envs, instance, name, r.v)
            IN  [r.s EXCEPT !.envs =
                    IF sibling = 0 THEN given ELSE SetLocalParam(given, sibling, name, r.v)]
    IN  Fold(Give, s, class.attributes)

GiveMethods(s, class, instance, sibling) ==
    LET Give(envs, method) ==
            LET f == Function(method, instance)
            IN  IF sibling = 0 THEN SetLocalParam(envs, instance, method.name, f)
                ELSE Set(Set(envs, instance, method.name, f), sibling, method.name, f)
    IN  [s EXCEPT !.envs = Fold(Give, @, class.methods)]

(* updateInstanceWithInheritedClasses: the parents, but not their parents.  *)
GiveInherited(s, e, class, instance) ==
    LET Inherit(t, parent) ==
            LET held == Get(t.envs, e, parent.name)
                sibling == Len(t.envs) + 1
                named == IF held.node.attributes = <<>> /\ held.node.methods = <<>> THEN t.envs
                         ELSE AddSibling(t.envs, instance, parent.name, sibling)
                begun == [t EXCEPT !.envs = Append(named, EnclosedBy(0))]
            IN  IF held.o # "class" THEN [t EXCEPT !.undefined = TRUE]
                ELSE GiveMethods(GiveAttributes(begun, e, held.node, instance, sibling),
                                 held.node, instance, sibling)
    IN  Fold(Inherit, s, class.parents)

(* A class is called: its attributes, its methods, its constructor.         *)
Construct(s, e, class, args, kw) ==
    LET instance == Len(s.envs) + 1
        begun == [s EXCEPT !.envs = Append(@, InstanceEnvironment)]
        inherited == GiveInherited(begun, e, class, instance)
        made == GiveMethods(GiveAttributes(inherited, e, class, instance, 0), class, instance, 0)
        constructor == LookupOnlyInStore(made.envs, instance, "constructor")
        outer == GlobalOf(made.envs, e)
        attached == IF outer = 1 THEN [made EXCEPT !.envs = SetOuterEnvironment(@, instance, 1)]
                    ELSE made
        called == ApplyMethod(attached, instance, constructor, args, kw)
    IN  CASE constructor = NIL -> Yield(made, InstanceOf(instance))
          [] constructor # NIL /\ IsError(called.v) -> called
          [] OTHER -> Yield(called.s, InstanceOf(instance))

(* this, in a method: its own environment or the one around it.             *)
EvalThis(s, e) ==
    LET outer == s.envs[e].outer
    IN  CASE s.envs[e].isInstance -> Yield(s, InstanceOf(e))
          [] ~s.envs[e].isInstance /\ outer = 0 -> Undefined(s)
          [] OTHER -> Yield(s, IF s.envs[outer].isInstance THEN InstanceOf(outer) ELSE NIL)

(* getSibling of the environment around a method's: 0 where there is none.  *)
SiblingOf(s, e, name) ==
    LET outer == s.envs[e].outer
    IN  IF outer = 0 THEN 0
        ELSE IF name \in DOMAIN s.envs[outer].siblings THEN s.envs[outer].siblings[name] ELSE 0

(* Arguments and keyword arguments of a call, in this order.                *)
EvalArguments(s, e, node) ==
    LET args == EvalExpressions(s, e, node.args)
        kws == EvalKeywords(args.s, e, node.kwArgs)
    IN  IF IsFailure(args.vs) THEN [s |-> args.s, vs |-> args.vs, kw |-> NoEntries]
        ELSE [s |-> kws.s, vs |-> args.vs, kw |-> kws.kw]

CallWith(a, e, f) ==
    IF IsFailure(a.vs) THEN Yield(a.s, a.vs[1]) ELSE ApplyMethod(a.s, e, f, a.vs, a.kw)

------------------------------------------------------------------------------
(* Members.  A chain a.b.c is followed from one instance to the next.       *)

RECURSIVE Follow(_, _, _)

Entered(s, e, at, v) ==
    IF v.o = "instance"
    THEN [s |-> [s EXCEPT !.envs = SetOuterEnvironment(@, v.env, GlobalOf(s.envs, e))], at |-> v.env]
    ELSE [s |-> s, at |-> at]

(* One link, in the environment at.  Its arguments are evaluated where the  *)
(* chain is; what is no function is not called.                             *)
Link(s, e, at, node) ==
    LET held == EvalIdentifier(s, at, node.name)
        args == EvalExpressions(held.s, e, node.args)
        kws == EvalKeywords(args.s, e, node.kwArgs)
    IN  CASE ~node.isMethod -> held
          [] node.isMethod /\ held.v.o = "function" ->
                ApplyMethod(kws.s, held.v.env, held.v, args.vs, kws.kw)
          [] OTHER -> Yield(held.s, Signal("not called"))

(* What the links up to here lead to; a call that gave nothing is           *)
(* dereferenced.                                                            *)
AfterLink(s, e, at, node) ==
    LET r == Link(s, e, at, node)
    IN  IF r.v = NIL THEN [s |-> Undefined(r.s).s, at |-> at] ELSE Entered(r.s, e, at, r.v)

Root(s, e, node, kinds) ==
    LET r == Eval(s, e, node)
    IN  CASE node.k \notin kinds -> [s |-> s, at |-> e]
          [] node.k \in kinds /\ r.v = NIL -> [s |-> Undefined(r.s).s, at |-> e]
          [] OTHER -> Entered(r.s, e, e, r.v)

Follow(s, e, node) ==
    LET owner == Follow(s, e, node.owner)
    IN  IF node.k = "member" THEN AfterLink(owner.s, e, owner.at, node)
        ELSE Root(s, e, node, {"call", "identifier", "index"})

EvalChain(s, e, node) ==
    LET owner == Follow(s, e, node.owner)
        r == Link(owner.s, e, owner.at, node)
    IN  IF r.v = Signal("not called") THEN Yield(r.s, NIL) ELSE r

(* A method that another instance's variable holds keeps its instance.      *)
InstanceMethod(s, e, instance, node) ==
    LET attached == IF GlobalOf(s.envs, e) = 1
                    THEN [s EXCEPT !.envs = SetOuterEnvironment(@, instance, 1)] ELSE s
        f == LookupOnlyInStore(s.envs, instance, node.name)
        a == EvalArguments(attached, e, node)
        itsOwn == f.o = "function" /\ a.s.envs[f.env].isInstance
    IN  IF f = NIL THEN Yield(attached, Error)
        ELSE CallWith(a, IF itsOwn THEN f.env ELSE instance, f)

(* A method of an object that is no instance: of integers, booleans and     *)
(* functions there are none.                                                *)
VariableMethod(s, e, node) ==
    LET held == Get(s.envs, e, node.owner.name)
    IN  CASE held = NIL -> Undefined(s)
          [] held.o = "instance" -> InstanceMethod(s, e, held.env, node)
          [] OTHER -> Yield(EvalExpressions(s, e, node.args).s, NIL)

VariableField(s, e, node) ==
    LET held == Get(s.envs, e, node.owner.name)
    IN  IF held.o # "instance" THEN Undefined(s)
        ELSE Yield(s, LookupOnlyInStore(s.envs, held.env, node.name))

ThisMember(s, e, node) ==
    CASE node.isMethod -> CallWith(EvalArguments(s, e, node), e, Get(s.envs, e, node.name))
      [] ~node.isMethod /\ s.envs[e].outer = 0 -> Undefined(s)
      [] OTHER -> EvalIdentifier(s, s.envs[e].outer, node.name)

SuperMember(s, e, node) ==
    LET a == IF node.isMethod THEN EvalArguments(s, e, node) ELSE [s |-> s, vs |-> <<>>]
        sibling == SiblingOf(a.s, e, node.owner.name)
    IN  CASE IsFailure(a.vs) -> Yield(a.s, a.vs[1])
          [] ~IsFailure(a.vs) /\ sibling = 0 -> Undefined(a.s)
          [] OTHER -> IF node.isMethod
                      THEN CallWith(a, a.s.envs[e].outer, Get(a.s.envs, sibling, node.name))
                      ELSE EvalIdentifier(s, sibling, node.name)

(* evalThreadObjectMethod evaluates an owner that is an expression, to see  *)
(* whether it is a thread; it is evaluated again where it is used.          *)
EvalMember(s, e, node) ==
    LET expressions == {"member", "call", "index"}
        probed == IF node.owner.k \in expressions THEN Eval(s, e, node.owner).s ELSE s
    IN  CASE node.owner.k = "this" -> ThisMember(s, e, node)
          [] node.owner.k = "super" -> SuperMember(s, e, node)
          [] node.owner.k = "identifier" /\ node.isMethod -> VariableMethod(s, e, node)
          [] node.owner.k = "identifier" /\ ~node.isMethod -> VariableField(s, e, node)
          [] node.owner.k \in {"member", "call"} \/ (node.owner.k = "index" /\ node.isMethod) ->
                EvalChain(probed, e, node)
          [] OTHER -> Yield(probed, IF node.isMethod THEN Error ELSE NIL)

------------------------------------------------------------------------------
(* Assignments to members.                                                  *)

AssignThis(s, e, node) ==
    LET r == Eval(s, e, node.value)
        outer == r.s.envs[e].outer
        at == IF r.s.envs[e].isInstance THEN e ELSE outer
    IN  CASE at = 0 -> Undefined(r.s)
          [] at # 0 /\ r.s.envs[at].isInstance ->
                Yield([r.s EXCEPT !.envs = SetLocalParam(@, at, node.target.name, r.v)], NIL)
          [] OTHER -> Yield(r.s, NIL)

AssignSuper(s, e, node) ==
    LET sibling == SiblingOf(s, e, node.target.owner.name)
        r == Eval(s, e, node.value)
    IN  IF sibling = 0 THEN Undefined(r.s)
        ELSE Yield([r.s EXCEPT !.envs = Set(@, sibling, node.target.name, r.v)], NIL)

AssignField(s, e, node) ==
    LET held == IF node.target.owner.k = "identifier"
                THEN Get(s.envs, e, node.target.owner.name) ELSE NIL
        r == Eval(s, e, node.value)
    IN  IF held.o # "instance" THEN Undefined(s)
        ELSE Yield([r.s EXCEPT !.envs = Set(@, held.env, node.target.name, r.v)], NIL)

(* recursiveMemberAccessAssign follows the whole chain, and so into an      *)
(* instance that the member holds already.  A variable at its beginning is  *)
(* evaluated twice, the second time in the environment it led to.           *)
RECURSIVE FollowToAssign(_, _, _)
FollowToAssign(s, e, node) ==
    LET owner == FollowToAssign(s, e, node.owner)
        first == Root(s, e, node, {"call", "identifier"})
        again == EvalIdentifier(first.s, first.at, node.name)
    IN  CASE node.k = "member" -> AfterLink(owner.s, e, owner.at, node)
          [] node.k = "identifier" -> Entered(again.s, e, first.at, again.v)
          [] OTHER -> first

AssignChain(s, e, node) ==
    LET last == FollowToAssign(s, e, node.target)
        r == Eval(last.s, e, node.value)
    IN  Yield([r.s EXCEPT !.envs = Set(@, last.at, node.target.name, r.v)], NIL)

EvalAssign(s, e, node) ==
    CASE node.target.k = "identifier" -> AssignVariable(s, e, node)
      [] node.target.k = "index" -> AssignElement(s, e, node)
      [] node.target.k = "member" ->
         CASE node.target.owner.k = "this" -> AssignThis(s, e, node)
           [] node.target.owner.k = "super" -> AssignSuper(s, e, node)
           [] node.target.owner.k = "member" -> AssignChain(s, e, node)
           [] OTHER -> AssignField(s, e, node)

(* += and -= change the integer object itself.                              *)
AddInPlace(s, held, step, op) ==
    IF IsInt(held) /\ IsInt(step)
    THEN [s EXCEPT !.ints[held.ref] = @ + IF op = "+=" THEN s.ints[step.ref] ELSE -s.ints[step.ref]]
    ELSE s

(* An error is dropped.                                                     *)
AddToElement(s, e, node) ==
    LET left == Eval(s, e, node.target.left)
        index == Eval(left.s, e, node.target.index)
        step == Eval(index.s, e, node.value)
        i == step.s.ints[index.v.ref]
        exists == IsInt(index.v) /\ i \in 0..Len(step.s.lists[left.v.ref]) - 1
    IN  CASE IsError(left.v) -> left.s
          [] ~IsError(left.v) /\ IsError(index.v) -> index.s
          [] ~IsError(left.v) /\ ~IsError(index.v) /\ left.v = NIL -> Undefined(index.s).s
          [] OTHER -> IF ~IsList(left.v) THEN index.s
                      ELSE IF ~exists THEN Undefined(step.s).s
                      ELSE AddInPlace(step.s, ElementOf(step.s, left.v, i), step.v, node.op)

EvalPlusEquals(s, e, node) ==
    LET held == IF node.target.k = "member" THEN EvalMember(s, e, node.target)
                ELSE Yield(s, Get(s.envs, e, node.target.name))
        step == Eval(held.s, e, node.value)
    IN  CASE node.target.k = "index" -> Yield(AddToElement(s, e, node), NIL)
          [] node.target.k # "index" /\ (held.v = NIL \/ IsError(held.v)) -> held
          [] OTHER -> IF IsError(step.v) THEN step
                      ELSE Yield(AddInPlace(step.s, held.v, step.v, node.op), NIL)

------------------------------------------------------------------------------
(* Calls.                                                                   *)

(* An element of a list may be anything, also nothing.                      *)
PopElement(s, args) ==
    LET list == args[1]
        vs == s.lists[list.ref]
        i == IF Len(args) = 1 THEN Len(vs) ELSE s.ints[args[2].ref] + 1
        none == \/ ~IsList(list)
                \/ Len(args) = 2 /\ ~IsInt(args[2])
                \/ Len(args) > 2
    IN  CASE none -> Yield(s, NULLOBJECT)
          [] ~none /\ i \notin DOMAIN vs -> Yield(s, NULLOBJECT)
          [] OTHER -> Yield([s EXCEPT !.lists[list.ref] = RemoveAt(@, i)], vs[i])

ApplyBuiltin(s, name, args) ==
    LET object == args[1]
    IN  CASE name = "print" -> Yield(Printed(s, object), NIL)
          [] name = "len" ->
                IF object = NIL THEN Undefined(s)
                ELSE NewInt(s, IF IsList(object) THEN Len(s.lists[object.ref]) ELSE 0)
          [] name = "__append" ->
                IF IsList(object) THEN Yield([s EXCEPT !.lists[object.ref] = Append(@, args[2])], NIL)
                ELSE Undefined(s)
          [] name = "__pop" -> PopElement(s, args)

Apply(s, e, f, args, kw) ==
    CASE f.o = "function" -> ApplyFunction(s, e, f, args, kw)
      [] f.o = "builtin" -> ApplyBuiltin(s, f.name, args)
      [] f.o = "class" -> Construct(s, e, f.node, args, kw)
      [] OTHER -> Yield(s, NIL)

EvalCall(s, e, node) ==
    LET fn == Eval(s, e, node.fn)
        a == EvalArguments(fn.s, e, node)
    IN  CASE IsError(fn.v) -> fn
          [] fn.v = NIL -> Undefined(fn.s)
          [] fn.v = NULLOBJECT -> IF node.fn.k = "identifier" THEN Yield(fn.s, Error)
                                  ELSE Undefined(fn.s)
          [] OTHER -> IF IsFailure(a.vs) THEN Yield(a.s, a.vs[1])
                      ELSE Apply(a.s, e, fn.v, a.vs, a.kw)

------------------------------------------------------------------------------

EvalNode(s, e, node) ==
    CASE node.k = "nothing" -> Undefined(s)
      [] node.k = "expression" ->
            IF node.value = Nothing THEN Yield(s, NIL) ELSE Eval(s, e, node.value)
      [] node.k = "integer" -> NewInt(s, node.n)
      [] node.k = "boolean" -> Yield(s, Bool(node.b))
      [] node.k = "null" -> Yield(s, NULLOBJECT)
      [] node.k = "identifier" -> EvalIdentifier(s, e, node.name)
      [] node.k = "list" -> EvalList(s, e, node)
      [] node.k = "index" -> EvalIndex(s, e, node)
      [] node.k = "infix" -> EvalInfix(s, e, node)
      [] node.k = "prefix" -> EvalPrefix(s, e, node)
      [] node.k \in {"prefixIncrement", "postfixIncrement"} -> EvalIncrement(s, e, node)
      [] node.k = "let" -> EvalLet(s, e, node)
      [] node.k = "assign" -> EvalAssign(s, e, node)
      [] node.k = "plusEquals" -> EvalPlusEquals(s, e, node)
      [] node.k = "if" -> EvalIf(s, e, node)
      [] node.k = "while" -> EvalWhile(s, e, node)
      [] node.k = "for" -> EvalFor(s, e, node)
      [] node.k = "call" -> EvalCall(s, e, node)
      [] node.k = "functionLiteral" -> Yield(s, Function(node, e))
      [] node.k = "def" -> EvalDef(s, e, node)
      [] node.k = "class" -> EvalClass(s, e, node)
      [] node.k = "this" -> EvalThis(s, e)
      [] node.k = "super" -> Yield(s, NIL)
      [] node.k = "member" -> EvalMember(s, e, node)
      [] node.k = "return" -> EvalReturn(s, e, node)
      [] node.k \in {"break", "continue"} -> Yield(s, Signal(node.k))

(* Nothing is evaluated any more after something undefined.                 *)
Eval(s, e, node) == IF s.undefined THEN Yield(s, NIL) ELSE EvalNode(s, e, node)

(* EvalProgram: the value of every statement is printed, and an error is    *)
(* the last one.                                                            *)
EvalProgram(program) ==
    LET start == [envs |-> <<EnclosedBy(0)>>, ints |-> <<>>, lists |-> <<>>, out |-> <<>>, undefined |-> FALSE]
        Statement(r, stmt) ==
            LET v == Eval(r.s, 1, stmt)
            IN  IF IsError(r.v) THEN r ELSE Yield(Printed(v.s, v.v), v.v)
    IN  Fold(Statement, Yield(start, NIL), program).s
=============================================================================
