------------------------------- MODULE Parser -------------------------------
(***************************************************************************)
(* The parser of cpp-v3 (parser.cpp), a Pratt parser over the lexer's       *)
(* tokens.  A token is [t |-> its type], with the literal of an identifier  *)
(* or string in v and the value of an integer in n.  A parsing function is  *)
(* an operator of the tokens ts and the position p of current_token, with   *)
(* peek_token behind it, and gives the node and the position it leaves      *)
(* current_token at.  Nothing is the null pointer that stands for a syntax  *)
(* error: the messages are collected and never read.  Hash literals, floats *)
(* and comments are left out.                                               *)
(***************************************************************************)
EXTENDS Syntax, Naturals, Sequences

Tok(t) == [t |-> t]
IdentTok(name) == [t |-> "identifier", v |-> name]
IntTok(n) == [t |-> "integer", n |-> n]
StrTok(s) == [t |-> "string", v |-> s]

At(ts, p) == IF p \in DOMAIN ts THEN ts[p] ELSE Tok("eof")
Is(ts, p, t) == At(ts, p).t = t
PeekIs(ts, p, t) == Is(ts, p + 1, t)
Result(node, p) == [n |-> node, p |-> p]

(* The name in a token that is taken for an identifier without a test.      *)
NameAt(ts, p) == IF Is(ts, p, "identifier") THEN At(ts, p).v ELSE At(ts, p).t

(* PrecedenceType, in its order.  The logical operators bind tighter than   *)
(* == and looser than <.                                                    *)
LOWEST == 0
ASSIGN == 1
EQUALS == 2
CONDITIONAL == 3
LESSGREATER == 4
SUM == 5
PRODUCT == 6
PLUSPLUS == 7
PREFIX == 8
CALL == 9
INDEX == 10
MEMBERACCESS == 11

InfixOperators == {"+", "-", "*", "/", "%", "==", "!=", "<", ">", "<=", ">=", "and", "or"}

Precedence(t) ==
    CASE t \in {"=", "+=", "-="} -> ASSIGN
      [] t \in {"==", "!="} -> EQUALS
      [] t \in {"and", "or"} -> CONDITIONAL
      [] t \in {"<", ">", "<=", ">="} -> LESSGREATER
      [] t \in {"+", "-"} -> SUM
      [] t \in {"*", "/", "%"} -> PRODUCT
      [] t \in {"++", "--"} -> PLUSPLUS
      [] t = "(" -> CALL
      [] t = "[" -> INDEX
      [] t = "." -> MEMBERACCESS
      [] OTHER -> LOWEST

(* ParseStatement and ParseExpression call each other.  STATEMENT stands    *)
(* for a statement where a precedence says what an expression may take.     *)
STATEMENT == 12

RECURSIVE Parse(_, _, _)
ParseStatement(ts, p) == Parse(ts, p, STATEMENT)
ParseExpression(ts, p, precedence) == Parse(ts, p, precedence)

------------------------------------------------------------------------------
(* Sequences of expressions, parameters and statements.                     *)

RECURSIVE MoreExpressions(_, _, _)
MoreExpressions(ts, p, es) ==
    LET e == ParseExpression(ts, p, LOWEST)
    IN  IF PeekIs(ts, e.p, ",") THEN MoreExpressions(ts, e.p + 2, Append(es, e.n))
        ELSE [es |-> Append(es, e.n), p |-> e.p]

(* The expressions up to closer, with current_token on the opening token;   *)
(* without the closing token they are all dropped.                          *)
ExpressionsUpTo(ts, p, closer) ==
    IF PeekIs(ts, p, closer) THEN [es |-> <<>>, p |-> p + 1]
    ELSE LET r == MoreExpressions(ts, p + 1, <<>>)
         IN  IF PeekIs(ts, r.p, closer) THEN [r EXCEPT !.p = @ + 1]
             ELSE [r EXCEPT !.es = <<>>]

(* ParseCallArguments: an assignment among the arguments is a keyword one.  *)
Separated(r) ==
    LET IsKeyword(e) == e.k = "assign"
        IsPositional(e) == e.k # "assign"
    IN  [args |-> SelectSeq(r.es, IsPositional),
         kwArgs |-> SelectSeq(r.es, IsKeyword), p |-> r.p]

CallArguments(ts, p) == Separated(ExpressionsUpTo(ts, p, ")"))

RECURSIVE MoreParameters(_, _, _, _)
MoreParameters(ts, p, names, defaults) ==
    LET hasDefault == PeekIs(ts, p, "=")
        value == ParseExpression(ts, p + 2, LOWEST)
        end == IF hasDefault THEN value.p ELSE p
        ns == Append(names, NameAt(ts, p))
        ds == IF hasDefault THEN Append(defaults, value.n) ELSE defaults
    IN  CASE PeekIs(ts, end, ",") -> MoreParameters(ts, end + 2, ns, ds)
          [] PeekIs(ts, end, ")") -> [params |-> ns, defaults |-> ds, p |-> end + 1]
          [] OTHER -> [params |-> <<>>, defaults |-> <<>>, p |-> end]

FunctionParameters(ts, p) ==
    IF PeekIs(ts, p, ")") THEN [params |-> <<>>, defaults |-> <<>>, p |-> p + 1]
    ELSE MoreParameters(ts, p + 1, <<>>, <<>>)

RECURSIVE MoreStatements(_, _, _)
MoreStatements(ts, p, stmts) ==
    IF At(ts, p).t \in {"}", "eof"} THEN [n |-> stmts, p |-> p]
    ELSE LET s == ParseStatement(ts, p)
         IN  MoreStatements(ts, s.p + 1, IF s.n = Nothing THEN stmts ELSE Append(stmts, s.n))

(* ParseBlockStatement ends on the closing brace; ParseSingleBlockStatement *)
(* on the last token of its one statement.                                  *)
Block(ts, p) == MoreStatements(ts, p + 1, <<>>)
SingleBlock(ts, p) ==
    LET s == ParseStatement(ts, p + 1)
    IN  Result(IF s.n = Nothing THEN <<>> ELSE <<s.n>>, s.p)
BlockOrSingle(ts, p) ==
    IF PeekIs(ts, p, "{") THEN Block(ts, p + 1) ELSE SingleBlock(ts, p)

------------------------------------------------------------------------------
(* Statements.                                                              *)

LetStatement(ts, p) ==
    LET value == ParseExpression(ts, p + 3, LOWEST)
        named == IF value.n.k = "functionLiteral"
                 THEN [value.n EXCEPT !.name = NameAt(ts, p + 1)] ELSE value.n
    IN  IF ~PeekIs(ts, p, "identifier") THEN Result(Nothing, p)
        ELSE IF ~PeekIs(ts, p + 1, "=") THEN Result(Nothing, p + 1)
        ELSE Result(Let(NameAt(ts, p + 1), named),
                    IF Is(ts, value.p, ";") THEN value.p + 1 ELSE value.p)

ReturnStatement(ts, p) ==
    LET value == ParseExpression(ts, p + 1, LOWEST) IN Result(Return(value.n), value.p)

ExpressionStatement(ts, p) ==
    LET e == ParseExpression(ts, p, LOWEST)
    IN  Result(ExprStmt(e.n), IF PeekIs(ts, e.p, ";") THEN e.p + 1 ELSE e.p)

IfStatement(ts, p) ==
    LET cond == ParseExpression(ts, p + 2, LOWEST)
        body == BlockOrSingle(ts, cond.p + 1)
        alternative == BlockOrSingle(ts, body.p + 1)
    IN  IF ~PeekIs(ts, p, "(") THEN Result(Nothing, p)
        ELSE IF ~PeekIs(ts, cond.p, ")") THEN Result(Nothing, cond.p)
        ELSE IF PeekIs(ts, body.p, "else")
             THEN Result(If(cond.n, body.n, alternative.n), alternative.p)
             ELSE Result(If(cond.n, body.n, NoElse), body.p)

(* A definition or a function literal, node, with its parameters f and its  *)
(* body.                                                                    *)
WithBody(ts, f, node) ==
    LET body == Block(ts, f.p + 1)
    IN  IF ~PeekIs(ts, f.p, "{") THEN Result(Nothing, f.p)
        ELSE Result([node EXCEPT !.params = f.params, !.defaults = f.defaults,
                                 !.body = body.n], body.p)

(* ParseDefStatement, ParseFunExpression, ParseFunctionExpression.          *)
DefStatement(ts, p, isAsync) ==
    IF PeekIs(ts, p + 1, "(")
    THEN WithBody(ts, FunctionParameters(ts, p + 2),
                  Def(NameAt(ts, p + 1), <<>>, <<>>, <<>>, isAsync))
    ELSE Result(Nothing, p + 1)

AsyncStatement(ts, p) ==
    IF At(ts, p + 1).t \in {"def", "fun", "function"} THEN DefStatement(ts, p + 1, TRUE)
    ELSE Result(Nothing, p + 1)

StatementFunction(ts, p) ==
    LET t == At(ts, p).t
    IN  CASE t = "async" -> AsyncStatement(ts, p)
          [] t = "let" -> LetStatement(ts, p)
          [] t = "return" -> ReturnStatement(ts, p)
          [] t = "break" -> Result(Break, p)
          [] t = "continue" -> Result(Continue, p)
          [] t = "if" -> IfStatement(ts, p)
          [] t \in {"def", "fun"} -> DefStatement(ts, p, FALSE)
          [] OTHER -> ExpressionStatement(ts, p)

(* ParseProgram: unlike a block, a program does not end at a brace.         *)
RECURSIVE ProgramFrom(_, _, _)
ProgramFrom(ts, p, stmts) ==
    IF Is(ts, p, "eof") THEN stmts
    ELSE LET s == ParseStatement(ts, p)
         IN  ProgramFrom(ts, s.p + 1, IF s.n = Nothing THEN stmts ELSE Append(stmts, s.n))

ParseProgram(ts) == ProgramFrom(ts, 1, <<>>)

------------------------------------------------------------------------------
(* Prefix parsing functions.                                                *)

GroupedExpression(ts, p) ==
    LET e == ParseExpression(ts, p + 1, LOWEST)
    IN  IF PeekIs(ts, e.p, ")") THEN Result(e.n, e.p + 1) ELSE Result(Nothing, e.p)

PrefixExpression(ts, p) ==
    LET e == ParseExpression(ts, p + 1, PREFIX)
    IN  Result(Prefix(ts[p].t, e.n), e.p)

PrefixPlusPlus(ts, p) ==
    LET e == ParseExpression(ts, p + 1, PREFIX)
    IN  Result(PrefixIncrement(ts[p].t, e.n), e.p)

AwaitExpression(ts, p) ==
    LET e == ParseExpression(ts, p + 1, LOWEST) IN Result(Await(e.n), e.p)

SpawnExpression(ts, p) ==
    LET r == ExpressionsUpTo(ts, p + 1, ")")
    IN  IF ~PeekIs(ts, p, "(") THEN Result(Nothing, p)
        ELSE IF PeekIs(ts, p + 1, ")") THEN Result(Nothing, p + 2)
        ELSE IF r.es = <<>> THEN Result(Nothing, r.p)
        ELSE Result(Spawn(Head(r.es), Tail(r.es)), r.p)

Function(ts, p, isAsync) ==
    IF PeekIs(ts, p, "(")
    THEN WithBody(ts, FunctionParameters(ts, p + 1),
                  FunctionLiteral("", <<>>, <<>>, <<>>, isAsync))
    ELSE Result(Nothing, p)

(* method is a function literal or a definition.                            *)
MethodLiteral(ts, p) ==
    IF PeekIs(ts, p, "(") THEN Function(ts, p, FALSE) ELSE DefStatement(ts, p, FALSE)

AsyncPrefix(ts, p) ==
    CASE At(ts, p + 1).t \in {"fun", "function"} -> DefStatement(ts, p + 1, TRUE)
      [] At(ts, p + 1).t = "func" -> Function(ts, p + 1, TRUE)
      [] OTHER -> Result(Nothing, p + 1)

WhileExpression(ts, p) ==
    LET cond == ParseExpression(ts, p + 2, LOWEST)
        body == BlockOrSingle(ts, cond.p + 1)
    IN  IF ~PeekIs(ts, p, "(") THEN Result(Nothing, p)
        ELSE IF ~PeekIs(ts, cond.p, ")") THEN Result(Nothing, cond.p)
        ELSE Result(While(cond.n, body.n), body.p)

ForExpression(ts, p) ==
    LET init == ParseExpression(ts, p + 2, LOWEST)
        cond == ParseExpression(ts, init.p + 2, LOWEST)
        step == ParseExpression(ts, cond.p + 2, LOWEST)
        body == BlockOrSingle(ts, step.p + 1)
    IN  IF ~PeekIs(ts, p, "(") THEN Result(Nothing, p + 1)
        ELSE IF ~PeekIs(ts, init.p, ";") THEN Result(Nothing, init.p)
        ELSE IF ~PeekIs(ts, cond.p, ";") THEN Result(Nothing, cond.p)
        ELSE IF ~PeekIs(ts, step.p, ")") THEN Result(Nothing, step.p)
        ELSE Result(For(init.n, cond.n, step.n, body.n), body.p)

SuperExpression(ts, p) ==
    IF ~PeekIs(ts, p, "(") THEN Result(Nothing, p + 1)
    ELSE IF ~PeekIs(ts, p + 2, ")") THEN Result(Nothing, p + 2)
    ELSE Result(Super(NameAt(ts, p + 2)), p + 3)

(* The parents of a class: every token up to the brace.                     *)
RECURSIVE ParentsFrom(_, _, _)
ParentsFrom(ts, p, parents) ==
    IF Is(ts, p, "{") THEN [parents |-> parents, p |-> p]
    ELSE ParentsFrom(ts, p + 1, Append(parents, Ident(NameAt(ts, p))))

(* One member of a class; other tokens are skipped.                         *)
Members(methods, attributes, p) == [methods |-> methods, attributes |-> attributes, p |-> p]
AsMethod(m) == Members(<<m.n>>, <<>>, m.p)
AsyncMethod(m) == IF m.n = Nothing THEN Members(<<>>, <<>>, m.p) ELSE AsMethod(m)
Attribute(a) == Members(<<>>, <<a.n>>, a.p)

MemberAt(ts, p) ==
    CASE At(ts, p).t \in {"def", "fun", "method"} -> AsMethod(DefStatement(ts, p, FALSE))
      [] Is(ts, p, "identifier") -> Attribute(ExpressionStatement(ts, p))
      [] Is(ts, p, "async") ->
            IF At(ts, p + 1).t \in {"def", "fun"} THEN AsyncMethod(DefStatement(ts, p + 1, TRUE))
            ELSE Members(<<>>, <<>>, p + 1)
      [] OTHER -> Members(<<>>, <<>>, p)

(* The members up to the brace; without it the code would never end.        *)
RECURSIVE MembersFrom(_, _)
AndMore(m, more) ==
    Members(m.methods \o more.methods, m.attributes \o more.attributes, more.p)
MembersFrom(ts, p) ==
    IF Is(ts, p, "}") THEN Members(<<>>, <<>>, p)
    ELSE LET m == MemberAt(ts, p) IN AndMore(m, MembersFrom(ts, m.p + 1))

ClassBody(ts, name, header) ==
    LET r == MembersFrom(ts, header.p)
    IN  Result(Class(name, header.parents, r.methods, r.attributes), r.p)

ClassStatement(ts, p) ==
    ClassBody(ts, NameAt(ts, p + 1),
              IF Is(ts, p + 2, ":") THEN ParentsFrom(ts, p + 3, <<>>)
              ELSE [parents |-> <<>>, p |-> p + 2])

(* prefixParseFns.                                                          *)
PrefixTokens ==
    {"identifier", "integer", "string", "true", "false", "null", "this", "!", "-", "++", "--",
     "(", "[", "func", "method", "fun", "function", "while", "for", "class", "super",
     "spawn", "await", "async"}

PrefixFunction(ts, p) ==
    LET token == At(ts, p)
        t == token.t
    IN  CASE t = "identifier" -> Result(Ident(token.v), p)
          [] t = "integer" -> Result(Integer(token.n), p)
          [] t = "string" -> Result(Str(token.v), p)
          [] t \in {"true", "false"} -> Result(Boolean(t = "true"), p)
          [] t = "null" -> Result(Null, p)
          [] t = "this" -> Result(This, p)
          [] t \in {"!", "-"} -> PrefixExpression(ts, p)
          [] t \in {"++", "--"} -> PrefixPlusPlus(ts, p)
          [] t = "(" -> GroupedExpression(ts, p)
          [] t = "[" -> LET r == ExpressionsUpTo(ts, p, "]") IN Result(List(r.es), r.p)
          [] t = "func" -> Function(ts, p, FALSE)
          [] t = "method" -> MethodLiteral(ts, p)
          [] t \in {"fun", "function"} -> DefStatement(ts, p, FALSE)
          [] t = "while" -> WhileExpression(ts, p)
          [] t = "for" -> ForExpression(ts, p)
          [] t = "class" -> ClassStatement(ts, p)
          [] t = "super" -> SuperExpression(ts, p)
          [] t = "spawn" -> SpawnExpression(ts, p)
          [] t = "await" -> AwaitExpression(ts, p)
          [] t = "async" -> AsyncPrefix(ts, p)

------------------------------------------------------------------------------
(* Infix parsing functions, with current_token on the operator.             *)

(* Broken on purpose: the right operand may take operators of the same      *)
(* precedence.                                                              *)
RightAssociativeInfix(ts, p, left) ==
    LET e == ParseExpression(ts, p + 1, Precedence(ts[p].t) - 1)
    IN  Result(Infix(left, ts[p].t, e.n), e.p)

InfixExpression(ts, p, left) ==
    LET e == ParseExpression(ts, p + 1, Precedence(ts[p].t))
    IN  Result(Infix(left, ts[p].t, e.n), e.p)

(* A part of a slice ends before the colon or bracket behind it; a part     *)
(* that is left out is a null expression.                                   *)
SlicePart(ts, p) ==
    IF Is(ts, p, ":") THEN Result(Null, p)
    ELSE LET e == ParseExpression(ts, p, LOWEST) IN Result(e.n, e.p + 1)

IndexExpression(ts, p, left) ==
    LET first == SlicePart(ts, p + 1)
        second == SlicePart(ts, first.p + 1)
        third == ParseExpression(ts, second.p + 1, LOWEST)
        Closed(part) == Is(ts, part.p, "]")
    IN  CASE Closed(first) -> Result(Index(left, first.n, Nothing, Nothing), first.p)
          [] ~Closed(first) /\ Closed(second) ->
                Result(Index(left, first.n, second.n, Integer(1)), second.p)
          [] ~Closed(first) /\ ~Closed(second) /\ PeekIs(ts, second.p, "]") ->
                Result(Index(left, first.n, second.n, Integer(1)), second.p + 1)
          [] OTHER -> IF PeekIs(ts, third.p, "]")
                      THEN Result(Index(left, first.n, second.n, third.n), third.p + 1)
                      ELSE Result(Nothing, third.p + 1)

MemberAccess(ts, p, left) ==
    LET r == CallArguments(ts, p + 2)
    IN  IF PeekIs(ts, p + 1, "(")
        THEN Result(Member(left, NameAt(ts, p + 1), TRUE, r.args, r.kwArgs), r.p)
        ELSE Result(Member(left, NameAt(ts, p + 1), FALSE, <<>>, <<>>), p + 1)

(* ParseAssignExpression, parsePlusEqualsExpression: the value takes        *)
(* everything behind it.                                                    *)
AssignExpression(ts, p, left) ==
    LET e == ParseExpression(ts, p + 1, LOWEST)
    IN  Result(IF Is(ts, p, "=") THEN Assign(left, e.n) ELSE PlusEquals(ts[p].t, left, e.n),
               IF Is(ts, e.p, ";") THEN e.p + 1 ELSE e.p)

InfixFunction(ts, p, left) ==
    LET t == ts[p].t
    IN  CASE t \in InfixOperators -> InfixExpression(ts, p, left)
          [] t = "(" -> LET r == CallArguments(ts, p)
                        IN  Result(Call(left, r.args, r.kwArgs), r.p)
          [] t = "[" -> IndexExpression(ts, p, left)
          [] t = "." -> MemberAccess(ts, p, left)
          [] t \in {"++", "--"} -> Result(PostfixIncrement(t, left), p)
          [] t \in {"=", "+=", "-="} -> AssignExpression(ts, p, left)

RECURSIVE Climb(_, _, _)
Climb(ts, left, precedence) ==
    LET t == At(ts, left.p + 1).t
    IN  IF t # ";" /\ precedence < Precedence(t)
        THEN Climb(ts, InfixFunction(ts, left.p + 1, left.n), precedence)
        ELSE left

ParseAt(ts, p, precedence) ==
    IF precedence = STATEMENT THEN StatementFunction(ts, p)
    ELSE IF At(ts, p).t \in PrefixTokens THEN Climb(ts, PrefixFunction(ts, p), precedence)
    ELSE Result(Nothing, p)

Parse(ts, p, precedence) == ParseAt(ts, p, precedence)
=============================================================================
