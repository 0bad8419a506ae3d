------------------------------- MODULE Syntax -------------------------------
(***************************************************************************)
(* The syntax trees of the language (cpp-v3/ast.h).  A node is a record     *)
(* whose field k says which class of ast.h it is an object of; a field of   *)
(* one name has values of one kind in all of them, so that any two nodes    *)
(* can be compared.  Tokens, ToString and memory management are left out.   *)
(***************************************************************************)
EXTENDS StrictFold
LOCAL INSTANCE Sequences

(* A null pointer where a node could be.                                    *)
Nothing == [k |-> "nothing"]

------------------------------------------------------------------------------
(* Expressions.                                                             *)

Integer(n) == [k |-> "integer", n |-> n]
Boolean(b) == [k |-> "boolean", b |-> b]
Str(s) == [k |-> "string", s |-> s]
Null == [k |-> "null"]
This == [k |-> "this"]
Super(name) == [k |-> "super", name |-> name]
Ident(name) == [k |-> "identifier", name |-> name]
Prefix(op, right) == [k |-> "prefix", op |-> op, right |-> right]
Infix(left, op, right) ==
    [k |-> "infix", left |-> left, op |-> op, right |-> right]
PrefixIncrement(op, target) == [k |-> "prefixIncrement", op |-> op, target |-> target]
PostfixIncrement(op, target) == [k |-> "postfixIncrement", op |-> op, target |-> target]
Assign(target, value) == [k |-> "assign", target |-> target, value |-> value]
PlusEquals(op, target, value) ==
    [k |-> "plusEquals", op |-> op, target |-> target, value |-> value]
Call(fn, args, kwArgs) == [k |-> "call", fn |-> fn, args |-> args, kwArgs |-> kwArgs]
Member(owner, name, isMethod, args, kwArgs) ==
    [k |-> "member", owner |-> owner, name |-> name, isMethod |-> isMethod,
     args |-> args, kwArgs |-> kwArgs]
Index(left, index, indexEnd, step) ==
    [k |-> "index", left |-> left, index |-> index, indexEnd |-> indexEnd, step |-> step]
List(elements) == [k |-> "list", elements |-> elements]
FunctionLiteral(name, params, defaults, body, isAsync) ==
    [k |-> "functionLiteral", name |-> name, params |-> params,
     defaults |-> defaults, body |-> body, isAsync |-> isAsync]
Spawn(fn, args) == [k |-> "spawn", fn |-> fn, args |-> args]
Await(operand) == [k |-> "await", right |-> operand]

(* while, for and class are expressions of the parser, though nothing but   *)
(* an expression statement has one.                                         *)
While(cond, body) == [k |-> "while", cond |-> cond, body |-> body]
For(init, cond, step, body) ==
    [k |-> "for", init |-> init, cond |-> cond, step |-> step, body |-> body]
Class(name, parents, methods, attributes) ==
    [k |-> "class", name |-> name, parents |-> parents,
     methods |-> methods, attributes |-> attributes]

------------------------------------------------------------------------------
(* Statements; a body is a sequence of them.                                *)

ExprStmt(e) == [k |-> "expression", value |-> e]
Let(name, value) == [k |-> "let", name |-> name, value |-> value]
Return(value) == [k |-> "return", value |-> value]
If(cond, body, alternative) ==
    [k |-> "if", cond |-> cond, body |-> body, alternative |-> alternative]
Def(name, params, defaults, body, isAsync) ==
    [k |-> "def", name |-> name, params |-> params, defaults |-> defaults,
     body |-> body, isAsync |-> isAsync]
Break == [k |-> "break"]
Continue == [k |-> "continue"]

(* An if without an else: the pointer to the alternative is null.           *)
NoElse == <<Nothing>>

(* A semicolon that nothing has consumed is a statement of its own.         *)
EmptyStmt == ExprStmt(Nothing)

------------------------------------------------------------------------------
(* A tree without its empty statements.                                     *)

StatementLists == {"body", "alternative", "methods"}
ExpressionLists == {"args", "kwArgs", "elements", "defaults", "attributes"}
Subtrees == {"left", "right", "target", "value", "fn", "owner", "index", "indexEnd", "step",
             "cond", "init"}

RECURSIVE Stripped(_)
StrippedAll(nodes) == [i \in DOMAIN nodes |-> Stripped(nodes[i])]
StrippedStatements(stmts) ==
    LET Kept(stmt) == stmt # EmptyStmt IN StrippedAll(SelectSeq(stmts, Kept))
Stripped(node) ==
    [f \in DOMAIN node |->
        CASE f \in StatementLists -> StrippedStatements(node[f])
          [] f \in ExpressionLists -> StrippedAll(node[f])
          [] f \in Subtrees -> Stripped(node[f])
          [] OTHER -> node[f]]
=============================================================================
