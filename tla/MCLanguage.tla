------------------------------ MODULE MCLanguage ------------------------------
(* Programs for Language, written in three styles: with a semicolon behind  *)
(* every statement, without those that are not needed, and without the      *)
(* braces around single statements either.                                  *)
EXTENDS Language, Syntax

S == INSTANCE SequencesExt

MCBuiltins == <<"len", "exit", "print", "println", "ref_count", "type", "__keys", "__append", "__pop">>

P == INSTANCE Parser
C == INSTANCE Compiler WITH Builtins <- MCBuiltins
E == INSTANCE Evaluator WITH Builtins <- MCBuiltins

------------------------------------------------------------------------------
(* Writing a tree.  An operand stands in parentheses when the operators     *)
(* outside would take it apart.                                             *)

Strength(e) ==
    CASE e.k = "infix" -> P!Precedence(e.op)
      [] e.k \in {"prefix", "prefixIncrement"} -> P!PREFIX
      [] e.k = "postfixIncrement" -> P!PLUSPLUS
      [] e.k \in {"assign", "plusEquals", "await"} -> P!LOWEST
      [] OTHER -> P!MEMBERACCESS

Symbols(s) == [i \in DOMAIN s |-> P!Tok(s[i])]
Joined(texts) == S!FlattenSeq([i \in 1..(2 * Len(texts) - 1) |->
    IF i % 2 = 1 THEN texts[i \div 2 + 1] ELSE Symbols(<<",">>)])
Enclosed(open, text, close) == Symbols(<<open>>) \o text \o Symbols(<<close>>)

RECURSIVE Text(_, _), Body(_, _, _)

Texts(es, style) == [i \in DOMAIN es |-> Text(es[i], style)]
Arguments(es, style) == Enclosed("(", IF es = <<>> THEN <<>> ELSE Joined(Texts(es, style)), ")")
Operand(e, strength, style) ==
    IF Strength(e) < strength THEN Enclosed("(", Text(e, style), ")") ELSE Text(e, style)

Parameters(node, style) ==
    LET required == Len(node.params) - Len(node.defaults)
        Parameter(i) == <<P!IdentTok(node.params[i])>> \o
            IF i <= required THEN <<>> ELSE Symbols(<<"=">>) \o Text(node.defaults[i - required], style)
    IN  Enclosed("(", IF node.params = <<>> THEN <<>>
                      ELSE Joined([i \in DOMAIN node.params |-> Parameter(i)]), ")")

SlicePart(e, style) == IF e = Null THEN <<>> ELSE Text(e, style)

TextOf(e, style) ==
    CASE e.k = "nothing" -> <<>>
      [] e.k = "integer" -> <<P!IntTok(e.n)>>
      [] e.k = "string" -> <<P!StrTok(e.s)>>
      [] e.k = "boolean" -> Symbols(<<IF e.b THEN "true" ELSE "false">>)
      [] e.k \in {"null", "this", "break", "continue"} -> Symbols(<<e.k>>)
      [] e.k = "super" -> Symbols(<<"super", "(">>) \o <<P!IdentTok(e.name)>> \o Symbols(<<")">>)
      [] e.k = "identifier" -> <<P!IdentTok(e.name)>>
      [] e.k = "prefix" -> Symbols(<<e.op>>) \o Operand(e.right, P!PREFIX, style)
      [] e.k = "prefixIncrement" -> Symbols(<<e.op>>) \o Operand(e.target, P!PREFIX, style)
      [] e.k = "postfixIncrement" -> Operand(e.target, P!PLUSPLUS, style) \o Symbols(<<e.op>>)
      [] e.k = "infix" -> Operand(e.left, Strength(e), style) \o Symbols(<<e.op>>)
                          \o Operand(e.right, Strength(e) + 1, style)
      [] e.k = "assign" -> Operand(e.target, P!PREFIX, style) \o Symbols(<<"=">>) \o Text(e.value, style)
      [] e.k = "plusEquals" ->
            Operand(e.target, P!PREFIX, style) \o Symbols(<<e.op>>) \o Text(e.value, style)
      [] e.k = "await" -> Symbols(<<"await">>) \o Text(e.right, style)
      [] e.k = "spawn" -> Symbols(<<"spawn">>) \o Arguments(<<e.fn>> \o e.args, style)
      [] e.k = "call" -> Operand(e.fn, P!CALL, style) \o Arguments(e.args \o e.kwArgs, style)
      [] e.k = "member" -> Operand(e.owner, P!MEMBERACCESS, style) \o Symbols(<<".">>)
                           \o <<P!IdentTok(e.name)>>
                           \o IF e.isMethod THEN Arguments(e.args \o e.kwArgs, style) ELSE <<>>
      [] e.k = "index" ->
            Operand(e.left, P!INDEX, style) \o Symbols(<<"[">>) \o
            (CASE e.indexEnd = Nothing -> Text(e.index, style)
               [] e.indexEnd # Nothing /\ e.step = Integer(1) ->
                    SlicePart(e.index, style) \o Symbols(<<":">>) \o Text(e.indexEnd, style)
               [] OTHER -> SlicePart(e.index, style) \o Symbols(<<":">>)
                           \o SlicePart(e.indexEnd, style) \o Symbols(<<":">>) \o Text(e.step, style))
            \o Symbols(<<"]">>)
      [] e.k = "list" -> Enclosed("[", IF e.elements = <<>> THEN <<>>
                                       ELSE Joined(Texts(e.elements, style)), "]")
      [] e.k = "functionLiteral" ->
            Symbols(IF e.isAsync THEN <<"async", "func">> ELSE <<"func">>)
            \o Parameters(e, style) \o Body(e.body, style, FALSE)
      [] e.k = "def" -> Symbols(IF e.isAsync THEN <<"async", "def">> ELSE <<"def">>)
                        \o <<P!IdentTok(e.name)>> \o Parameters(e, style) \o Body(e.body, style, FALSE)
      [] e.k = "while" -> Symbols(<<"while">>) \o Enclosed("(", Text(e.cond, style), ")")
                          \o Body(e.body, style, TRUE)
      [] e.k = "for" -> Symbols(<<"for", "(">>) \o Text(e.init, style) \o Symbols(<<";">>)
                        \o Text(e.cond, style) \o Symbols(<<";">>) \o Text(e.step, style)
                        \o Symbols(<<")">>) \o Body(e.body, style, TRUE)
      [] e.k = "if" -> Symbols(<<"if">>) \o Enclosed("(", Text(e.cond, style), ")")
                       \o Body(e.body, style, e.alternative = NoElse)
                       \o IF e.alternative = NoElse THEN <<>>
                          ELSE Symbols(<<"else">>) \o Body(e.alternative, style, TRUE)
      [] e.k = "class" -> Symbols(<<"class">>) \o <<P!IdentTok(e.name)>>
                          \o (IF e.parents = <<>> THEN <<>>
                              ELSE Symbols(<<":">>) \o S!FlattenSeq(Texts(e.parents, style)))
                          \o Symbols(<<"{">>) \o S!FlattenSeq(Texts(e.attributes, style))
                          \o S!FlattenSeq(Texts(e.methods, style)) \o Symbols(<<"}">>)
      [] e.k = "expression" -> Text(e.value, style)
      [] e.k = "let" -> Symbols(<<"let">>) \o <<P!IdentTok(e.name)>> \o Symbols(<<"=">>)
                        \o Text(e.value, style)
      [] e.k = "return" -> IF e.value = Nothing THEN Symbols(<<"return", ";">>)
                           ELSE Symbols(<<"return">>) \o Text(e.value, style)

Text(e, style) == TextOf(e, style)

(* What would go on with the expression before it.                          *)
Continues == {"(", "[", "-", "++", "--"}

Statements(stmts, style) ==
    LET Append1(text, stmt) ==
            LET own == Text(stmt, style)
                needed == text # <<>> /\ S!Last(text).t \notin {";", "{"} /\ own[1].t \in Continues
            IN  text \o Symbols(IF needed THEN <<";">> ELSE <<>>) \o own
                     \o Symbols(IF style = "semicolons" THEN <<";">> ELSE <<>>)
    IN  Fold(Append1, <<>>, stmts)

Body(stmts, style, mayBeBare) ==
    IF style = "bare" /\ mayBeBare /\ Len(stmts) = 1 THEN Statements(stmts, style)
    ELSE Enclosed("{", Statements(stmts, style), "}")

(* The first trees, as many as engines says, go through the engines.        *)
Written(trees, engines) ==
    LET styles == <<"semicolons", "plain", "bare">>
        n == Len(trees)
        Nth(i) == ((i - 1) % n) + 1
    IN  [i \in 1..(3 * n) |->
            [tree |-> trees[Nth(i)], runs |-> Nth(i) <= engines,
             text |-> Statements(trees[Nth(i)], styles[(i - 1) \div n + 1])]]

------------------------------------------------------------------------------
(* Programs of integers, booleans, control flow and functions that both     *)
(* engines are meant to treat alike.                                        *)

V(name) == Ident(name)
N(n) == Integer(n)
Do(e) == ExprStmt(e)
SetTo(name, e) == Do(Assign(V(name), e))
On(name, args) == Call(V(name), args, <<>>)
Show(e) == Do(On("print", <<e>>))
When(cond, body) == If(cond, body, NoElse)
Fun(name, params, body) == Def(name, params, <<>>, body, FALSE)
Lambda(params, body) == FunctionLiteral("", params, <<>>, body, FALSE)
Named(name, params, body) == FunctionLiteral(name, params, <<>>, body, FALSE)
Plus(a, b) == Infix(a, "+", b)
Less(a, b) == Infix(a, "<", b)
Equal(a, b) == Infix(a, "==", b)

Pairs(a, b) ==
    [i \in 1..Len(a) * Len(b) |-> <<a[(i - 1) \div Len(b) + 1], b[((i - 1) % Len(b)) + 1]>>]

(* Expressions: two operators in both shapes, and negations.                *)
Arithmetical == <<"+", "-", "*", "/", "%">>
Comparing == <<"==", "!=", "<", ">", "<=", ">=">>
Logical == <<"and", "or", "==", "!=">>

Shapes(ops, a, b, c) ==
    <<Do(Infix(Infix(a, ops[1], b), ops[2], c)), Do(Infix(a, ops[1], Infix(b, ops[2], c)))>>
InShapes(pairs, a, b, c) == S!FlattenSeq([i \in DOMAIN pairs |-> Shapes(pairs[i], a, b, c)])

Expressions ==
    [i \in 1..5 |-> InShapes(Pairs(<<Arithmetical[i]>>, Arithmetical), N(7), N(3), N(2))]
    \o [i \in 1..4 |-> InShapes(Pairs(<<Logical[i]>>, Logical),
                                Boolean(TRUE), Boolean(FALSE), Boolean(TRUE))]
    \o [i \in 1..6 |->
          LET cmp == Comparing[i]
              Sides(op) == Infix(Infix(N(7), op, N(2)), cmp, Infix(N(2), op, N(7)))
              Both(op) == Infix(Infix(N(1), cmp, N(2)), op, Infix(N(2), cmp, N(2)))
          IN  [j \in 1..5 |-> Do(Sides(Arithmetical[j]))] \o [j \in 1..4 |-> Do(Both(Logical[j]))]]
    \o <<<<Do(Prefix("-", Plus(N(1), N(2)))), Do(Plus(Prefix("-", N(1)), N(2))),
           Do(Infix(N(1), "-", Prefix("-", N(2)))), Do(Prefix("-", Prefix("-", N(1)))),
           Do(Infix(Prefix("-", N(7)), "/", N(2))), Do(Infix(Prefix("-", N(7)), "%", N(2))),
           Do(Prefix("!", Infix(Boolean(TRUE), "and", Boolean(FALSE)))),
           Do(Infix(Prefix("!", Boolean(TRUE)), "or", Boolean(TRUE))),
           Do(Equal(Null, Null)), Do(Infix(Null, "!=", N(1))), Do(Null), Show(Null)>>>>

(* A loop in a loop in a function, and a jump in each of them.              *)
Loop(isFor, name, limit, body) ==
    IF isFor
    THEN <<Do(For(Assign(V(name), N(0)), Less(V(name), N(limit)), PostfixIncrement("++", V(name)),
                  body))>>
    ELSE <<SetTo(name, N(0)),
           Do(While(Less(V(name), N(limit)), <<SetTo(name, Plus(V(name), N(1)))>> \o body))>>

Loops == <<FALSE, TRUE>>
Jumps == <<"none", "break", "continue", "return">>
JumpWhen(jump, name) ==
    IF jump = "none" THEN <<>>
    ELSE <<When(Equal(V(name), N(1)),
                <<CASE jump = "break" -> Break
                    [] jump = "continue" -> Continue
                    [] jump = "return" -> Return(V(name))>>)>>

NestedLoops(outerFor, innerFor, outer, inner) ==
    <<Fun("f", <<"n">>,
          Loop(outerFor, "i", 3,
               JumpWhen(outer, "i")
               \o Loop(innerFor, "j", 2, JumpWhen(inner, "j") \o <<Show(V("j"))>>)
               \o <<Show(V("i"))>>)
          \o <<Return(V("n"))>>),
      Show(On("f", <<N(7)>>))>>

LoopPrograms ==
    LET all == Pairs(Pairs(Loops, Loops), Pairs(Jumps, Jumps))
    IN  [i \in DOMAIN all |->
            NestedLoops(all[i][1][1], all[i][1][2], all[i][2][1], all[i][2][2])]

(* Loops of the program itself, with every kind of step.                    *)
Steps ==
    <<PostfixIncrement("++", V("i")), PrefixIncrement("++", V("i")),
      PlusEquals("+=", V("i"), N(2)), Assign(V("i"), Plus(V("i"), N(1)))>>

StepPrograms ==
    [k \in DOMAIN Steps |->
        <<Let("s", N(0)),
          Do(For(Assign(V("i"), N(0)), Less(V("i"), N(6)), Steps[k],
                 <<When(Equal(V("i"), N(2)), <<Continue>>),
                   When(Infix(V("i"), ">", N(3)), <<Break>>),
                   Do(PlusEquals("+=", V("s"), V("i")))>>)),
          Do(V("s")), Do(V("i"))>>]

Increments ==
    <<Show(PostfixIncrement("++", V("i"))), Show(PrefixIncrement("++", V("i"))),
      Show(PostfixIncrement("--", V("i"))), Show(PrefixIncrement("--", V("i"))),
      Do(PlusEquals("-=", V("i"), N(3))), Show(V("i"))>>

(* Functions, closures, defaults, names that are global, local, captured,   *)
(* built in, the function's own, or not there.                              *)
Recursive(name, n) ==
    <<When(Less(V("n"), N(2)), <<Return(V("n"))>>),
      Return(Plus(On(name, <<Infix(V("n"), "-", N(1))>>), On(name, <<Infix(V("n"), "-", N(2))>>)))>>

Parity(name, other, onZero) ==
    Fun(name, <<"n">>, <<If(Equal(V("n"), N(0)), <<Return(Boolean(onZero))>>,
                            <<Return(On(other, <<Infix(V("n"), "-", N(1))>>))>>)>>)

Digits(a, b, c) == Plus(Plus(Infix(a, "*", N(100)), Infix(b, "*", N(10))), c)
ABC == Digits(V("a"), V("b"), V("c"))

FunctionPrograms ==
    <<<<Fun("fib", <<"n">>, Recursive("fib", "n")), Show(On("fib", <<N(3)>>))>>,
      <<Let("fib", Named("fib", <<"n">>, Recursive("fib", "n"))), Do(On("fib", <<N(3)>>))>>,
      <<Fun("f", <<>>, <<Let("g", Named("g", <<"n">>,
                            <<When(Equal(V("n"), N(0)), <<Return(N(5))>>),
                              Return(On("g", <<Infix(V("n"), "-", N(1))>>))>>)),
                         Return(On("g", <<N(2)>>))>>),
        Show(On("f", <<>>))>>,
      <<Parity("even", "odd", TRUE), Parity("odd", "even", FALSE),
        Show(On("even", <<N(3)>>)), Show(On("odd", <<N(3)>>))>>,
      <<Fun("adder", <<"a">>, <<Fun("inner", <<"b">>, <<Return(Plus(V("a"), V("b")))>>),
                                Return(V("inner"))>>),
        Let("add2", On("adder", <<N(2)>>)), Show(On("add2", <<N(3)>>)),
        Show(Call(On("adder", <<N(1)>>), <<N(4)>>, <<>>))>>,
      <<Fun("f", <<"a">>,
            <<Fun("g", <<"b">>, <<Fun("h", <<"c">>, <<Return(ABC)>>), Return(On("h", <<N(3)>>))>>),
              Return(On("g", <<N(2)>>))>>),
        Do(On("f", <<N(1)>>))>>,
      <<Let("twice", Named("twice", <<"g", "x">>, <<Return(On("g", <<On("g", <<V("x")>>)>>))>>)),
        Show(On("twice", <<Lambda(<<"x">>, <<Return(Infix(V("x"), "*", V("x")))>>), N(3)>>)),
        Show(Call(Lambda(<<"x">>, <<Return(Plus(V("x"), N(1)))>>), <<N(2)>>, <<>>))>>,
      <<Def("f", <<"a", "b", "c">>, <<N(2), N(3)>>, <<Return(ABC)>>, FALSE),
        Show(On("f", <<N(1)>>)), Show(On("f", <<N(1), N(5)>>)), Show(On("f", <<N(1), N(5), N(6)>>)),
        Do(On("f", <<>>)), Show(N(1))>>,
      <<Fun("f", <<>>, <<Return(V("later"))>>), SetTo("later", N(4)), Show(On("f", <<>>)),
        SetTo("later", N(5)), Show(On("f", <<>>))>>,
      <<Fun("f", <<>>, <<Do(V("nowhere")), Show(N(1))>>), Do(On("f", <<>>)), Do(On("f", <<>>)),
        Fun("none", <<>>, <<>>), Do(On("none", <<>>))>>,
      <<Let("k", N(1)), Fun("f", <<>>, <<Do(On("k", <<N(2)>>)), Return(N(3))>>), Do(On("f", <<>>))>>,
      <<Let("a", N(1)), Let("b", N(2)),
        Fun("f", <<"a">>, <<SetTo("a", Plus(V("a"), N(1))), SetTo("b", V("a")), Let("c", N(9)),
                            Return(ABC)>>),
        Show(On("f", <<N(5)>>)), Show(V("a")), Show(V("b"))>>,
      <<Let("i", N(1))>> \o Increments,
      <<Fun("f", <<"i">>, Increments \o <<Return(V("i"))>>), Do(On("f", <<N(1)>>))>>,
      <<Fun("sum", <<"a", "b">>, <<Return(Plus(V("a"), V("b")))>>),
        Fun("twice", <<"a">>, <<Return(On("sum", <<V("a"), V("a")>>))>>),
        Show(On("sum", <<On("twice", <<N(1)>>), On("sum", <<On("twice", <<N(3)>>), N(4)>>)>>))>>,
      <<If(Less(N(2), N(1)), <<Show(N(1))>>, <<Show(N(2))>>),
        If(Boolean(TRUE), <<When(Boolean(FALSE), <<Show(N(3))>>)>>, <<Show(N(4))>>),
        Do(While(Boolean(TRUE), <<Do(While(Boolean(TRUE), <<Break>>)), Break>>)), Show(N(5))>>,
      Expressions[1] \o <<Fun("f", <<"n">>, Loop(FALSE, "i", 3, <<Show(V("i"))>>)), Do(On("f", <<N(1)>>))>>,
      <<Show(N(1)), Do(V("nowhere")), Show(N(2))>>,
      <<SetTo("x", N(1)), SetTo("x", V("nowhere")), Show(V("x"))>>>>

(* Classes: fields that are declared, inherited, or appear when a method or *)
(* the program sets them; methods by this, super, name and chain; instances *)
(* in fields; functions and methods in fields; keyword arguments.           *)
Has(owner, name) == Member(owner, name, FALSE, <<>>, <<>>)
Ask(owner, name, args) == Member(owner, name, TRUE, args, <<>>)
Mine(name) == Has(This, name)
SetMine(name, e) == Do(Assign(Mine(name), e))
Give(name, e) == Assign(V(name), e)
Fields(names, values) == [i \in DOMAIN names |-> Do(Assign(V(names[i]), values[i]))]
Times(a, b) == Infix(a, "*", b)

CounterClass ==
    Do(Class("Counter", <<>>,
        <<Fun("constructor", <<"n">>, <<SetMine("n", V("n"))>>),
          Fun("next", <<>>, <<Do(PlusEquals("+=", Mine("n"), Mine("step"))), Return(Mine("n"))>>),
          Fun("twice", <<>>, <<Do(Ask(This, "next", <<>>)), Return(On("next", <<>>))>>),
          Fun("bump", <<>>, <<Do(PostfixIncrement("++", V("n"))), Show(PrefixIncrement("--", V("n"))),
                              Do(PlusEquals("+=", V("n"), V("step"))), SetTo("step", N(5)),
                              Return(V("n"))>>),
          Fun("fact", <<"k">>, <<When(Less(V("k"), N(2)), <<Return(N(1))>>),
                                 Return(Times(V("k"), Ask(This, "fact", <<Infix(V("k"), "-", N(1))>>)))>>),
          Fun("through", <<"x">>, <<Let("f", Named("f", <<"y">>, <<Return(Plus(V("y"), V("n")))>>)),
                                    Return(On("f", <<V("x")>>))>>)>>,
        Fields(<<"n", "step">>, <<N(0), N(2)>>)))

NodeClass ==
    Do(Class("Node", <<>>,
        <<Fun("constructor", <<"v", "n">>, <<SetMine("value", V("v")), SetMine("next", V("n"))>>),
          Fun("total", <<>>, <<When(Equal(Mine("next"), Null), <<Return(Mine("value"))>>),
                               Return(Plus(Mine("value"), Ask(Mine("next"), "total", <<>>)))>>),
          Fun("self", <<>>, <<Return(This)>>)>>,
        Fields(<<"value", "next">>, <<N(0), Null>>)))
NewNode(v, next) == On("Node", <<N(v), next>>)

ClassPrograms ==
    <<<<CounterClass, Let("a", On("Counter", <<N(3)>>)), Let("b", On("Counter", <<N(10)>>)),
        Show(Ask(V("a"), "next", <<>>)), Do(Ask(V("b"), "twice", <<>>)), Show(Has(V("a"), "n")),
        Do(Assign(Has(V("a"), "n"), N(20))), Show(Ask(V("a"), "bump", <<>>)),
        Do(PlusEquals("-=", Has(V("b"), "n"), N(1))),
        Show(Has(V("b"), "n")), Show(Ask(V("a"), "fact", <<N(3)>>)),
        Show(Ask(V("b"), "through", <<Has(V("a"), "step")>>)), Do(On("Counter", <<>>)), Show(N(1))>>,
      <<Do(Class("Animal", <<>>,
            <<Fun("pairs", <<>>, <<Return(Infix(V("legs"), "/", N(2)))>>),
              Fun("speak", <<"n">>, <<Return(V("n"))>>), Fun("kind", <<>>, <<Return(N(1))>>)>>,
            Fields(<<"legs">>, <<N(4)>>))),
        Do(Class("Dog", <<V("Animal")>>,
            <<Fun("speak", <<"n">>, <<Return(Plus(Ask(Super("Animal"), "speak", <<V("n")>>), Mine("tail")))>>),
              Fun("sum", <<>>, <<Return(Plus(Mine("legs"), V("tail")))>>),
              Fun("first", <<>>, <<Return(Has(Super("Animal"), "legs"))>>),
              Fun("kind", <<>>, <<Return(N(2))>>)>>,
            Fields(<<"tail">>, <<N(1)>>))),
        Let("d", On("Dog", <<>>)), Let("x", On("Animal", <<>>)),
        Show(Ask(V("d"), "speak", <<N(2)>>)), Show(Ask(V("d"), "pairs", <<>>)),
        Show(Ask(V("d"), "sum", <<>>)), Show(Ask(V("d"), "first", <<>>)),
        Do(Assign(Has(V("d"), "legs"), N(6))), Show(Ask(V("d"), "pairs", <<>>)),
        Show(Ask(V("d"), "kind", <<>>)), Show(Ask(V("x"), "kind", <<>>)), Show(Has(V("x"), "legs"))>>,
      <<NodeClass,
        Do(Class("Box", <<>>,
            <<Fun("constructor", <<>>, <<SetMine("head", NewNode(1, NewNode(2, Null)))>>),
              Fun("sum", <<>>, <<Return(Ask(Mine("head"), "total", <<>>))>>)>>,
            Fields(<<"head", "spare">>, <<Null, NewNode(9, Null)>>))),
        Let("l", NewNode(1, NewNode(2, Null))), Show(Ask(V("l"), "total", <<>>)),
        Show(Has(Has(V("l"), "next"), "value")),
        Do(Assign(Has(Has(V("l"), "next"), "value"), N(7))),
        Do(PlusEquals("+=", Has(Has(V("l"), "next"), "value"), N(1))), Show(Ask(V("l"), "total", <<>>)),
        Show(Plus(N(1), Ask(On("Box", <<>>), "sum", <<>>))),
        Show(Plus(N(5), Has(Ask(V("l"), "self", <<>>), "value"))),
        Fun("f", <<"b">>, <<Let("box", On("Box", <<>>)),
                            Do(Assign(Has(Has(V("box"), "head"), "value"), V("b"))),
                            Return(Plus(Ask(V("box"), "sum", <<>>), Has(Has(V("box"), "spare"), "value")))>>),
        Show(On("f", <<N(4)>>))>>,
      <<When(Boolean(FALSE), <<SetTo("g", N(1))>>),
        Do(Class("Open", <<>>,
            <<Fun("set", <<"v">>, <<SetMine("z", V("v")), SetMine("g", N(4))>>),
              Fun("get", <<>>, <<Do(PlusEquals("+=", V("z"), N(1))), Do(PostfixIncrement("++", V("z"))),
                                 Do(PrefixIncrement("++", V("z"))), Do(PlusEquals("+=", Mine("z"), N(1))),
                                 Return(Plus(Mine("z"), V("z")))>>),
              Fun("global", <<>>, <<Return(V("g"))>>)>>, <<>>)),
        Let("o", On("Open", <<>>)), Do(Ask(V("o"), "set", <<N(1)>>)), Show(Ask(V("o"), "get", <<>>)),
        Show(Ask(V("o"), "global", <<>>)), Do(Assign(Has(V("o"), "w"), N(8))), Show(Has(V("o"), "w"))>>,
      <<Do(Class("Hook", <<>>,
            <<Fun("call", <<"x">>, <<Return(Plus(Ask(This, "h", <<V("x")>>), Ask(This, "h", <<N(0)>>)))>>)>>,
            Fields(<<"h", "k">>, <<Lambda(<<"x">>, <<Return(Plus(V("x"), V("k")))>>), N(2)>>))),
        Do(Class("Route", <<>>, <<>>, Fields(<<"handler">>, <<Null>>))),
        Let("b", On("Hook", <<>>)), Show(Ask(V("b"), "call", <<N(3)>>)), Show(Ask(V("b"), "h", <<N(3)>>)),
        Let("m", Has(V("b"), "call")), Show(On("m", <<N(1)>>)),
        Let("r", On("Route", <<>>)), Do(Assign(Has(V("r"), "handler"), Has(V("b"), "call"))),
        Do(Assign(Has(V("b"), "k"), N(4))), Show(Ask(V("r"), "handler", <<N(1)>>)),
        Fun("f", <<>>, <<Do(Ask(V("r"), "nowhere", <<N(1)>>)), Return(N(1))>>), Do(N(3))>>,
      <<Do(Class("Point", <<>>,
            <<Def("constructor", <<"a", "b">>, <<N(2)>>, <<SetMine("x", V("a")), SetMine("y", V("b"))>>, FALSE),
              Def("sum", <<"c", "d">>, <<N(1)>>,
                  <<Return(Plus(Digits(Mine("x"), Mine("y"), V("c")), Times(V("d"), N(1000))))>>, FALSE)>>,
            Fields(<<"x", "y">>, <<N(0), N(0)>>))),
        Let("p", On("Point", <<N(1)>>)), Show(Ask(V("p"), "sum", <<N(3)>>)),
        Let("q", Call(V("Point"), <<>>, <<Give("b", N(7)), Give("a", N(8))>>)),
        Show(Member(V("q"), "sum", TRUE, <<N(3)>>, <<Give("d", N(4))>>)),
        Def("f", <<"a", "b", "c">>, <<N(3)>>, <<Return(ABC)>>, FALSE),
        Show(Call(V("f"), <<N(1), N(2)>>, <<Give("c", N(4))>>)),
        Show(Call(V("f"), <<>>, <<Give("c", N(4)), Give("a", N(5)), Give("b", N(6)), Give("c", N(7))>>)),
        Let("k", N(1)), Fun("h", <<>>, <<Do(Call(V("k"), <<>>, <<Give("a", N(1))>>)), Return(N(2))>>),
        Do(On("h", <<>>)), Do(Call(V("f"), <<>>, <<Give("b", N(1))>>)), Show(N(1))>>>>

(* Lists: elements that are read, written, counted up and down; lists in    *)
(* lists, in fields and in closures, under two names, and their slices,     *)
(* which are copies.                                                        *)
At(list, i) == Index(list, i, Nothing, Nothing)
Set(list, i, e) == Do(Assign(At(list, i), e))
Swap(list, i, j) == <<Let("t", At(list, i)), Set(list, i, At(list, j)), Set(list, j, V("t"))>>
ListOf(ns) == List([i \in DOMAIN ns |-> N(ns[i])])
Slice(a, b, step) == Index(V("l"), a, b, step)

Bounds == <<Null, Prefix("-", N(5)), Prefix("-", N(2)), N(0), N(1), N(4), N(6)>>
SlicePrograms ==
    LET steps == <<N(1), N(2), Prefix("-", N(1)), Prefix("-", N(3))>>
        starts == Pairs(steps, Bounds)
    IN  [k \in DOMAIN starts |->
            <<Let("l", ListOf(<<1, 2, 3, 4>>))>>
            \o [i \in DOMAIN Bounds |-> Do(Slice(starts[k][2], Bounds[i], starts[k][1]))]]

StackClass ==
    Do(Class("Stack", <<>>,
        <<Fun("push", <<"x">>, <<Do(On("__append", <<Mine("items"), V("x")>>)),
                                 Return(On("len", <<Mine("items")>>))>>),
          Fun("pull", <<>>, <<Return(On("__pop", <<V("items")>>))>>),
          Fun("add", <<"k">>, <<Do(PlusEquals("+=", At(Mine("items"), N(0)), V("k"))),
                                Set(Mine("items"), N(1), Times(At(V("items"), N(1)), N(2))),
                                Return(Mine("items"))>>)>>,
        Fields(<<"items">>, <<List(<<>>)>>)))

ListPrograms ==
    <<<<Let("l", List(<<N(5), N(6), List(<<N(7), Boolean(TRUE), Null>>)>>)), Do(V("l")), Show(V("l")),
        Set(V("l"), N(1), Plus(At(V("l"), N(0)), N(1))), Let("m", V("l")), Set(V("m"), N(0), N(9)),
        Do(PostfixIncrement("++", At(V("l"), N(0)))), Show(PrefixIncrement("++", At(V("l"), N(0)))),
        Show(PostfixIncrement("--", At(V("m"), N(1)))), Do(PrefixIncrement("--", At(V("m"), N(1)))),
        Do(PlusEquals("+=", At(V("l"), N(1)), At(V("l"), N(0)))), Do(PlusEquals("-=", At(V("l"), N(1)), N(2))),
        Do(PlusEquals("+=", At(At(V("l"), N(2)), N(0)), N(1))), Show(V("l")),
        Do(V("m"))>>,
      <<Let("l", ListOf(<<8, 5, 6>>)), Let("m", V("l")),
        Do(On("__append", <<V("m"), N(4)>>)), Show(On("len", <<V("l")>>)), Show(On("__pop", <<V("l")>>)),
        Show(On("__pop", <<V("l"), N(0)>>)), Show(On("__pop", <<V("l"), N(7)>>)),
        Show(On("__pop", <<List(<<>>)>>)), Do(On("len", <<N(3)>>)), Do(V("m"))>>,
      <<Fun("sort", <<"l">>,
            Loop(TRUE, "i", 3,
                 Loop(TRUE, "j", 3,
                      <<When(Infix(At(V("l"), V("j")), ">", At(V("l"), Plus(V("j"), N(1)))),
                             Swap(V("l"), V("j"), Plus(V("j"), N(1))))>>))
            \o <<Return(V("l"))>>),
        Let("l", ListOf(<<4, 2, 3, 1>>)), Show(On("sort", <<V("l")>>)), Show(V("l"))>>,
      <<Let("l", List(<<N(1), ListOf(<<2, 3>>), N(4)>>)), Let("m", Slice(N(0), N(2), N(1))),
        Do(PlusEquals("+=", At(V("m"), N(0)), N(5))), Set(At(V("m"), N(1)), N(0), N(8)),
        Do(PostfixIncrement("++", At(At(V("l"), N(1)), N(1)))), Do(V("l")), Do(V("m")),
        Do(Slice(Null, Null, Null)), Do(At(Slice(N(1), N(3), N(1)), N(1))),
        Let("l", List(<<N(1), Boolean(TRUE), Null>>)), Let("m", Slice(N(0), N(3), N(1))),
        Show(On("len", <<V("m")>>)), Do(At(V("m"), N(1))), Show(At(V("m"), N(2))), Do(At(V("m"), N(0)))>>,
      <<StackClass, Let("s", On("Stack", <<>>)), Let("r", On("Stack", <<>>)),
        Do(Ask(V("s"), "push", <<N(1)>>)), Do(Ask(V("s"), "push", <<N(2)>>)),
        Do(Ask(V("r"), "push", <<N(3)>>)), Show(Ask(V("s"), "add", <<N(6)>>)),
        Show(Ask(V("s"), "pull", <<>>)), Show(Has(V("s"), "items")),
        Let("l", List(<<V("r"), V("s")>>)), Show(Ask(At(V("l"), N(1)), "push", <<N(7)>>)),
        Show(Has(V("s"), "items")), Show(Has(V("r"), "items"))>>,
      <<Fun("keeper", <<"l">>, <<Fun("keep", <<"x">>, <<Do(On("__append", <<V("l"), V("x")>>)), Return(V("l"))>>),
                                 Return(V("keep"))>>),
        Let("l", List(<<>>)), Let("k", On("keeper", <<V("l")>>)), Do(On("k", <<N(1)>>)),
        Do(On("k", <<N(2)>>)), Show(V("l")),
        Let("fs", List(<<V("k"), Lambda(<<"x">>, <<Return(Plus(V("x"), N(1)))>>)>>)),
        Show(Call(At(V("fs"), N(1)), <<N(3)>>, <<>>)), Show(Call(At(V("fs"), N(0)), <<N(3)>>, <<>>)),
        Fun("beyond", <<"l">>, <<Do(At(V("l"), N(9))), When(At(V("l"), N(9)), <<Show(N(1))>>),
                                 Let("x", At(V("l"), Prefix("-", N(1)))), When(V("x"), <<Show(N(2))>>),
                                 Return(On("len", <<V("l")>>))>>),
        Do(On("beyond", <<V("l")>>)),
        If(Equal(V("l"), ListOf(<<1, 2>>)), <<Show(N(3))>>, <<Show(N(4))>>)>>>>

(* The rest of the syntax.                                                  *)
SyntaxOnly ==
    <<<<Do(Class("Dog", <<V("Animal")>>,
                 <<Fun("constructor", <<"name">>,
                       <<Do(Assign(Member(This, "name", FALSE, <<>>, <<>>), V("name")))>>),
                   Def("speak", <<"n">>, <<N(1)>>,
                       <<Return(Member(Super("Animal"), "speak", TRUE, <<V("n")>>, <<>>))>>, TRUE)>>,
                 <<Do(Assign(V("legs"), N(4))), Do(Assign(V("name"), Null))>>)),
        Let("rex", On("Dog", <<Str("rex")>>)),
        Do(Member(Member(V("rex"), "owner", FALSE, <<>>, <<>>), "call", TRUE,
                  <<N(1)>>, <<Assign(V("loud"), Boolean(TRUE))>>))>>,
      <<Do(List(<<N(1), List(<<>>), Str("s")>>)), Do(Index(V("l"), Plus(V("i"), N(1)), Nothing, Nothing)),
        Do(Slice(N(1), N(2), Integer(1))), Do(Slice(Null, N(2), Integer(1))),
        Do(Slice(N(1), N(2), N(3))), Do(Slice(Null, Null, N(2))),
        Do(Assign(Index(V("l"), N(0), Nothing, Nothing), Plus(N(1), N(2)))),
        Do(PlusEquals("+=", Member(This, "n", FALSE, <<>>, <<>>), Infix(N(1), "*", N(2))))>>,
      <<Def("slow", <<"a">>, <<>>, <<Return(V("a"))>>, TRUE),
        Let("t", Spawn(V("slow"), <<N(1), Plus(N(2), N(3))>>)),
        Show(Plus(N(1), Await(V("t")))), Do(Await(On("slow", <<N(1)>>))),
        Let("g", FunctionLiteral("g", <<"a">>, <<N(1)>>, <<Return(Await(V("a")))>>, TRUE))>>>>

EngineTrees == Expressions \o LoopPrograms \o StepPrograms \o FunctionPrograms \o ClassPrograms
               \o ListPrograms \o SlicePrograms
MCPrograms == Written(EngineTrees \o SyntaxOnly, Len(EngineTrees))

MCTreeOf ==
    LET texts == {MCPrograms[i].text : i \in DOMAIN MCPrograms}
    IN  [text \in texts |-> P!ParseProgram(text)]

MCStrippedOf ==
    LET trees == {MCTreeOf[MCPrograms[i].text] : i \in DOMAIN MCPrograms}
    IN  [t \in trees |-> P!StrippedStatements(t)]

MCTrees == {MCTreeOf[MCPrograms[i].text] : i \in {j \in DOMAIN MCPrograms : MCPrograms[j].runs}}

MCEvaluationOf == LET trees == MCTrees IN [t \in trees |-> E!EvalProgram(t)]
MCCompiledOf == LET trees == MCTrees IN [t \in trees |-> C!BytecodeOf(t)]

=============================================================================
