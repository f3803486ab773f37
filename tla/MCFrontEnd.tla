----------------------------- MODULE MCFrontEnd -----------------------------
(***************************************************************************)
(* Small programs for FrontEnd, and the texts they are written in.  A      *)
(* source is [stmts, layout]: the statements as Statements gives them, and *)
(* what is written between them.  A statement with the op "raw" is a piece *)
(* of text that is no statement.                                           *)
(***************************************************************************)
EXTENDS FrontEnd

-----------------------------------------------------------------------------
(* Expressions. *)
Qual(n)         == [node |-> "name", name |-> n]
N(x)             == Qual(<<x>>)
I(n)             == [node |-> "num", val |-> n]
S(words)         == [node |-> "str", words |-> words]
L(items)         == [node |-> "list", items |-> items]
Ints(ns)         == L([i \in DOMAIN ns |-> I(ns[i])])
T(items)         == [node |-> "tuple", items |-> items]
D(items)         == [node |-> "dict", items |-> items]
Entry1(key, of)  == [node |-> "entry", key |-> key, of |-> of]
Op(l, by, r)     == [node |-> "binary", by |-> by, left |-> l, right |-> r]
Sign(by, of)     == [node |-> "unary", by |-> by, of |-> of]
Choice(a, c, b)  == [node |-> "cond", then |-> a, test |-> c, other |-> b]
To(a, b)         == [node |-> "range", start |-> a, stop |-> b, step |-> <<>>]
At1(of, i)       == [node |-> "index", of |-> of, items |-> <<i>>]
As(of, x)        == [node |-> "alias", of |-> of, name |-> <<x>>]
Pass1(kind, name, of) == [node |-> "arg", kind |-> kind, name |-> name, of |-> of]
By(e)            == Pass1("positional", <<>>, e)
With(x, e)       == Pass1("named", <<x>>, e)
Apply(fn, args)  == [node |-> "call", fn |-> fn, args |-> args]
Fn(f, es)        == Apply(N(f), [i \in DOMAIN es |-> By(es[i])])
Par(kind, x, d)  == [kind |-> kind, name |-> <<x>>, default |-> d]
Lambda(params, body) == [node |-> "function", params |-> params, body |-> body]

(* Statements. *)
Let2(x, by, e)   == [op |-> "assign", name |-> <<x>>, by |-> by, expr |-> e]
Let(x, e)        == Let2(x, "=", e)
Eval1(e)         == [op |-> "expr", expr |-> e]
Give(e)          == [op |-> "return", expr |-> e]
Step(name, after, with) ==
  [op |-> "do", name |-> <<name>>, body |-> <<"echo", "$", "{", name, "}">>, after |-> after,
   with |-> with, nproc |-> <<>>, fsubs |-> <<>>]
Plain(e)         == [expr |-> e, alias |-> <<>>]
Do(name, es)     == Step(name, <<>>, [i \in DOMAIN es |-> Plain(es[i])])
Analyse(name)    == [op |-> "analyse", name |-> <<name>>, with |-> <<>>, assigns |-> <<>>,
                     columns |-> <<[name |-> <<"x">>, pattern |-> <<>>, target |-> <<>>, title |-> <<>>]>>]
IfElse(c, t, f)  == [op |-> "if", cond |-> c, then |-> t, elifs |-> <<>>, other |-> f]
ForIn(x, e, b)   == [op |-> "for", name |-> <<x>>, expr |-> e, body |-> b]
WhileDo(c, b)    == [op |-> "while", expr |-> c, body |-> b]
Just(op)         == [op |-> op]
UseOf(kind, source, alias, names) ==
  [op |-> "use", kind |-> kind, source |-> source, alias |-> alias, names |-> names]
UseAs(source, x) == UseOf("path", <<source, ".jbs">>, <<x>>, <<>>)
UseFrom(source, names) == UseOf("path", <<source, ".jbs">>, <<>>, names)
UseBare(x, names) == UseOf("bare", <<x>>, IF names = <<>> THEN <<x>> ELSE <<>>, names)
Raw(words)       == [op |-> "raw", words |-> words]

-----------------------------------------------------------------------------
(* The text of a source. *)
Lines   == [sep |-> <<"\n">>, open |-> <<"\n">>, close |-> <<"\n">>, gap |-> <<>>]
Compact == [sep |-> <<";">>, open |-> <<>>, close |-> <<>>, gap |-> <<>>]
Noted   == [sep |-> <<"#", "{", "'", "\n", "\n">>, open |-> <<"\n", "\n">>, close |-> <<"#", "}", "\n">>,
            gap |-> <<"\n">>]

Joint(parts, sep) ==
  FlattenSeq([i \in DOMAIN parts |-> parts[i] \o IF i < Len(parts) THEN sep ELSE <<>>])
In(open, words, close) == <<open>> \o words \o <<close>>
Quoted(words) ==
  In("\"", FlattenSeq([i \in DOMAIN words |-> IF words[i] \in {"\"", "\\"} THEN <<"\\", words[i]>> ELSE <<words[i]>>]), "\"")

\* How tightly an expression binds; a looser operand is put in parentheses.
Tightness(e) ==
  CASE e.node = "cond"   -> 0
    [] e.node = "binary" -> CHOOSE n \in DOMAIN Grammar!Levels : e.by \in Grammar!Levels[n]
    [] e.node = "range"  -> 6
    [] e.node = "unary"  -> 7
    [] e.node \in {"index", "alias", "call", "member"} -> 8
    [] OTHER             -> 9

RECURSIVE ExprText(_, _, _), StmtsText(_, _), StmtText(_, _)

\* An operand of an expression that takes what binds at least so tightly.
Tight(e, n, lay) ==
  IF Tightness(e) >= n THEN ExprText(e, n, lay) ELSE In("(", ExprText(e, 0, lay), ")")

Listed(es, lay) == Joint([i \in DOMAIN es |-> Tight(es[i], 0, lay)], <<",">> \o lay.gap)
Spaced(words, lay) == IF words = <<>> THEN <<>> ELSE lay.gap \o words \o lay.gap

Braces(stmts, lay) ==
  In("{", IF stmts = <<>> THEN <<>> ELSE lay.open \o StmtsText(stmts, lay) \o lay.close, "}")

ParamText(p, lay) ==
  (CASE p.kind = "args" -> <<"*">> [] p.kind = "kwargs" -> <<"**">> [] OTHER -> <<>>) \o p.name
  \o IF p.default = <<>> THEN <<>> ELSE <<"=">> \o Tight(p.default[1], 0, lay)

ExprText(e, n, lay) ==
  CASE e.node = "name"  -> Joint([i \in DOMAIN e.name |-> <<e.name[i]>>], <<".">>)
    [] e.node = "num"   -> <<ToString(e.val)>>
    [] e.node = "str"   -> Quoted(e.words)
    [] e.node = "bool"  -> <<IF e.truth THEN "true" ELSE "False">>
    [] e.node = "list"  -> In("[", Spaced(Listed(e.items, lay), lay), "]")
    [] e.node = "tuple" -> In("(", Listed(e.items, lay) \o IF Len(e.items) = 1 THEN <<",">> ELSE <<>>, ")")
    [] e.node = "dict"  -> In("{", Spaced(Listed(e.items, lay), lay), "}")
    [] e.node = "entry" -> Tight(e.key, 7, lay) \o <<":">> \o Tight(e.of, 0, lay)
    [] e.node = "binary" ->
         LET level == Tightness(e)
         IN Tight(e.left, IF level = Grammar!Comparison THEN level + 1 ELSE level, lay) \o <<e.by>>
            \o Tight(e.right, level + 1, lay)
    [] e.node = "unary" -> <<e.by>> \o Tight(e.of, 7, lay)
    [] e.node = "cond"  -> Tight(e.then, 1, lay) \o <<"if">> \o Tight(e.test, 1, lay) \o <<"else">> \o Tight(e.other, 0, lay)
    [] e.node = "range" ->
         Tight(e.start, 7, lay) \o <<":">> \o Tight(e.stop, 9, lay)
         \o IF e.step = <<>> THEN <<>> ELSE <<":">> \o Tight(e.step[1], 9, lay)
    [] e.node = "index" -> Tight(e.of, 8, lay) \o In("[", Listed(e.items, lay), "]")
    [] e.node = "member" -> Tight(e.of, 8, lay) \o <<".">> \o e.field
    [] e.node = "alias" -> Tight(e.of, 8, lay) \o <<"as">> \o e.name
    [] e.node = "call"  -> Tight(e.fn, 8, lay) \o In("(", Spaced(Listed(e.args, lay), lay), ")")
    [] e.node = "arg"   ->
         (CASE e.kind = "spread" -> <<"*">> [] e.kind = "keywords" -> <<"**">> [] e.kind = "named" -> e.name \o <<"=">>
            [] OTHER -> <<>>) \o Tight(e.of, 0, lay)
    [] e.node = "function" ->
         <<"function">> \o In("(", Joint([i \in DOMAIN e.params |-> ParamText(e.params[i], lay)], <<",">>), ")")
         \o Braces(e.body, lay)

Aliased(item, lay) ==
  Tight(item.expr, 8, lay) \o IF item.alias = <<>> THEN <<>> ELSE <<"as">> \o item.alias
Clause(word, items) == IF items = <<>> THEN <<>> ELSE <<word>> \o Joint(items, <<",">>)
Items(es, lay) == [i \in DOMAIN es |-> Aliased(es[i], lay)]

TargetText(t) == FlattenSeq([i \in DOMAIN t |-> <<"in">> \o (IF t[i].regex THEN <<"re">> ELSE <<>>) \o Quoted(t[i].file)])
ColumnText(c, lay) ==
  (IF c.pattern = <<>> THEN Joint([i \in DOMAIN c.name |-> <<c.name[i]>>], <<".">>)
   ELSE Tight(c.pattern[1], 0, lay) \o TargetText(c.target))
  \o IF c.title = <<>> THEN <<>> ELSE <<"as">> \o Quoted(c.title)
AssignText(a, lay) == a.name \o <<a.by>> \o Tight(a.expr, 0, lay) \o TargetText(a.target) \o lay.sep

FSubText(f, lay) ==
  <<"fsub">> \o Quoted(f.path)
  \o In("{", Joint([i \in DOMAIN f.rules |-> Quoted(f.rules[i].pattern) \o <<":">> \o Tight(f.rules[i].expr, 0, lay)], <<",">>), "}")

UseText(s) ==
  <<"use">> \o (IF s.names = <<>> THEN <<>> ELSE Joint([i \in DOMAIN s.names |-> <<s.names[i]>>], <<",">>) \o <<"from">>)
  \o (IF s.kind = "path" THEN Quoted(s.source) ELSE s.source)
  \o IF s.kind = "path" /\ s.names = <<>> THEN <<"as">> \o s.alias ELSE <<>>

StmtText(s, lay) ==
  CASE s.op = "assign" -> s.name \o <<s.by>> \o Tight(s.expr, 0, lay)
    [] s.op = "expr"   -> Tight(s.expr, 0, lay)
    [] s.op = "return" -> <<"return">> \o Tight(s.expr, 0, lay)
    [] s.op = "if" ->
         <<"if">> \o Tight(s.cond, 0, lay) \o Braces(s.then, lay)
         \o FlattenSeq([i \in DOMAIN s.elifs |-> lay.open \o <<"elif">> \o Tight(s.elifs[i].cond, 0, lay)
                                                 \o Braces(s.elifs[i].body, lay)])
         \o IF s.other = <<>> THEN <<>> ELSE <<"else">> \o Braces(s.other, lay)
    [] s.op = "for"    -> <<"for">> \o s.name \o <<"in">> \o Tight(s.expr, 0, lay) \o Braces(s.body, lay)
    [] s.op = "while"  -> <<"while">> \o Tight(s.expr, 0, lay) \o Braces(s.body, lay)
    [] s.op = "do" ->
         <<"do">> \o s.name \o Clause("after", [i \in DOMAIN s.after |-> <<s.after[i]>>]) \o lay.gap
         \o Clause("with", Items(s.with, lay)) \o Clause("nproc", [i \in DOMAIN s.nproc |-> <<ToString(s.nproc[i])>>])
         \o FlattenSeq([i \in DOMAIN s.fsubs |-> FSubText(s.fsubs[i], lay)]) \o lay.open
         \o In("{", s.body \o SelectSeq(lay.open, LAMBDA w : w = "\n"), "}")
    [] s.op = "analyse" ->
         <<"analyse">> \o s.name \o Clause("with", Items(s.with, lay))
         \o In("{", lay.open \o FlattenSeq([i \in DOMAIN s.assigns |-> AssignText(s.assigns[i], lay)])
                    \o In("(", Joint([i \in DOMAIN s.columns |-> ColumnText(s.columns[i], lay)], <<",">> \o lay.gap), ")")
                    \o lay.close, "}")
    [] s.op = "use"    -> UseText(s)
    [] s.op = "raw"    -> s.words
    [] OTHER           -> <<s.op>>

StmtsText(stmts, lay) == Joint([i \in DOMAIN stmts |-> StmtText(stmts[i], lay)], lay.sep)

Text1(source) == StmtsText(source.stmts, source.layout)
Stmts(source) == source.stmts

-----------------------------------------------------------------------------
X == N("x")
Y == N("y")
PX == Qual(<<"p", "x">>)
Program1(f) == [g \in DOMAIN f |-> [stmts |-> f[g], layout |-> Lines]]
One(stmts) == Program1([g \in {"entry"} |-> stmts])

\* Import graphs: what two statements of the entry, and one of each of two
\* other files, may import.  Every file has a global and a step.
Own == <<Let("x", I(1)), Do("run", <<X>>)>>

EntryUses ==
  {UseAs("a", "p"), UseAs("a", "q"), UseAs("b", "p"), UseAs("b", "x"), UseAs("c", "m"),
   UseOf("path", <<"a">>, <<"s">>, <<>>), Raw(<<"use", "p", "as", "r">>),
   UseBare("a", <<>>), UseBare("p", <<>>), UseBare("none", <<>>),
   UseFrom("a", <<"x", "run">>), UseBare("p", <<"x">>), UseFrom("b", <<"z", "p">>)}
AUses == {<<>>, <<UseAs("b", "p")>>, <<UseAs("entry", "e")>>, <<UseAs("a", "s")>>, <<UseFrom("b", <<"x">>)>>}
BUses == {<<>>, <<UseAs("a", "p")>>, <<UseAs("entry", "e")>>}

ImportGraphs ==
  {Program1([f \in {"entry", "a", "b"} |->
      CASE f = "entry" -> <<e1, e2>> \o Own [] f = "a" -> ua \o Own [] f = "b" -> ub \o Own]) :
     <<e1, e2, ua, ub>> \in EntryUses \X EntryUses \X AUses \X BUses}
  \cup {Program1([f \in {"a"} |-> Own])}

-----------------------------------------------------------------------------
\* What a library does, and what imports it.
Del(es) == Eval1(Fn("delete", es))
Less(a, b) == Op(a, "<", b)
LibBodies ==
  {<<Let("x", I(1)), Do("s", <<X>>), Let("x", I(2))>>,
   <<Let("x", I(1)), Do("s", <<X>>), Del(<<X>>), Do("t", <<X>>)>>,
   <<Let("x", I(1)), Do("s", <<X>>), Let("x", I(2)), Step("s", <<"t">>, <<>>), Step("t", <<"s">>, <<>>)>>,
   <<Do("s", <<X>>), Let("x", Ints(<<1, 2>>)), Analyse("s"), Let("x", Y)>>,
   <<Let("x", Lambda(<<>>, <<Eval1(I(2))>>)), Do("s", <<X>>), Let("x", I(2)), Do("t", <<X>>)>>,
   <<Let("x", I(1)), Let("x", L(<<Ints(<<1>>), Ints(<<2>>)>>)), Do("s", <<X>>), Del(<<Y>>)>>,
   <<Let("jbs_name", I(1)), Let("jbs_nproc", Ints(<<1>>)), Let("jbs_nproc", I(4)), Del(<<N("jbs_nproc")>>),
     Do("s", <<X>>)>>,
   <<ForIn("x", Ints(<<1, 2, 3>>), <<IfElse(Less(X, I(2)), <<Just("continue")>>, <<>>), Let("y", X)>>),
     Do("s", <<X, Y>>), Let("x", I(5))>>,
   <<ForIn("x", Ints(<<1, 2>>), <<Let("y", X), Just("break")>>), Do("s", <<X>>)>>,
   <<ForIn("x", I(1), <<Let("y", X)>>), ForIn("x", L(<<Ints(<<1>>), I(2)>>), <<>>), Do("s", <<X>>)>>,
   <<Let("x", I(0)), WhileDo(Less(X, I(2)), <<Let2("x", "+=", I(1))>>), Do("s", <<X>>)>>,
   <<Let("x", I(0)), WhileDo(I(1), <<IfElse(X, <<Just("break")>>, <<Let("x", I(1))>>)>>), Do("s", <<X>>)>>,
   <<WhileDo(I(1), <<Let("x", I(1))>>), WhileDo(Y, <<>>), Do("s", <<X>>)>>,
   <<Let("x", I(1)), Do("s", <<X>>), Raw(<<"break">>), Do("t", <<X>>)>>,
   <<Let("x", I(1)), Do("s", <<X>>), IfElse(Y, <<Let("x", I(2))>>, <<Let("x", I(3))>>), Do("t", <<X>>)>>,
   <<Let("x", I(1)), Let("f", Lambda(<<Par("value", "a", <<>>), Par("value", "b", <<X>>)>>,
                                     <<Eval1(Op(N("a"), "+", Op(N("b"), "+", X)))>>)),
     Let("y", Fn("f", <<I(1)>>)), Let("x", I(5)), Let("z", Fn("f", <<I(1)>>)), Do("s", <<X, Y>>)>>,
   <<Let("x", Fn("table", <<>>)), Let("x", Apply(N("table"), <<With("c", Ints(<<1, 2>>))>>)),
     Raw(<<"if", "1", "{", "do", "s", "{", "}", "}">>), Do("s", <<At1(X, S(<<"c">>))>>)>>}

Importers ==
  {<<UseAs("lib", "p"), Let("y", PX), Do("s", <<PX>>)>>,
   <<Let("x", I(7)), Do("s", <<X>>), UseAs("lib", "p"), Step("t", <<"s">>, <<>>), UseAs("lib", "q"), Let("x", I(8))>>,
   <<UseFrom("lib", <<"x", "s">>), Do("t", <<X>>), Let("x", I(9)), Analyse("t")>>,
   <<UseFrom("lib", <<"x">>), Do("s", <<X>>), UseAs("lib", "p"), Do("u", <<X, PX>>)>>,
   <<Let("x", I(7)), UseAs("lib", "p"), Let("y", Apply(Qual(<<"p", "f">>), <<By(I(2))>>)), Del(<<X>>), Do("s", <<X, Y>>)>>}

Libraries ==
  {Program1([f \in {"entry", "lib"} |-> IF f = "entry" THEN e ELSE l]) : <<e, l>> \in Importers \X LibBodies}
  \cup {Program1([f \in {"entry", "mid", "lib"} |->
          CASE f = "entry" -> <<UseAs("mid", "m"), Do("s", <<X>>), UseAs("lib", "p")>>
            [] f = "mid" -> e [] f = "lib" -> l]) : <<e, l>> \in Importers \X LibBodies}

-----------------------------------------------------------------------------
\* Sequences of table operations.
RowOf(i, j) == D(<<Entry1(S(<<"x">>), I(i)), Entry1(S(<<"y">>), I(j))>>)
TableOf(args) == Apply(N("table"), args)
TableSources ==
  {TableOf(<<With("x", Ints(<<1, 1>>)), With("y", Ints(<<1, 2, 3>>))>>),
   TableOf(<<With("z", Ints(<<1, 2>>))>>),
   TableOf(<<With("x", L(<<>>)), With("y", I(1))>>),
   TableOf(<<By(L(<<RowOf(1, 1), RowOf(1, 2), RowOf(1, 1)>>))>>)}

A == N("a")
B == N("b")
C == N("c")
Bool(b) == [node |-> "bool", truth |-> b]
Operations(s, t) ==
  {Op(s, "*", t), Op(s, "+", t), Fn("rbind", <<s, t>>), Fn("unique", <<s>>), At1(s, S(<<"x">>)),
   Apply(N("rename"), <<By(s), With("x", S(<<"w">>))>>),
   At1(s, Ints(<<2, 0, 0>>)), At1(s, L(<<Bool(TRUE), Bool(FALSE)>>)),
   Apply(N("sample"), <<By(s), With("size", I(3)), With("replace", Bool(TRUE))>>),
   Fn("filter", <<s, Lambda(<<Par("value", "r", <<>>)>>, <<Give(Op(At1(N("r"), S(<<"y">>)), "==", I(1)))>>)>>)}

TablePrograms ==
  {One(<<Let("a", s), Let("b", t), Let("c", u), Let("d", v), Do("s", <<C>>)>>) :
     <<s, t, u, v>> \in TableSources \X TableSources \X Operations(A, B) \X Operations(C, A)}

-----------------------------------------------------------------------------
\* Functions: recursion up to the limit, closures, defaults, *args and
\* **kwargs, loops, and deletions that fail halfway.
F == N("f")
Value(x) == Par("value", x, <<>>)
FunctionPrograms ==
  {One(<<Let("x", I(1)), Let("y", I(2))>> \o body \o <<Do("s", <<X, Y>>)>>) :
    body \in
    {<<Let("f", Lambda(<<Value("n")>>, <<IfElse(Op(N("n"), "==", I(0)), <<Give(I(0))>>, <<>>),
                                          Eval1(Op(N("n"), "+", Fn("f", <<Op(N("n"), "-", I(1))>>)))>>)),
       Let("x", Fn("f", <<I(2)>>)), Let("y", Fn("f", <<I(3)>>))>>,
     <<Let("f", Lambda(<<>>, <<Let("x", I(2)), Del(<<X>>), Eval1(X)>>)), Let("y", Fn("f", <<>>)),
       Let("g", Lambda(<<>>, <<Del(<<X>>)>>)), Eval1(Fn("g", <<>>)), Del(<<X, S(<<"y">>), X, N("len")>>)>>,
     <<Let("f", Lambda(<<Value("n")>>, <<Give(Fn("f", <<N("n")>>))>>)), Let("y", L(<<Fn("delete", <<X>>), Fn("f", <<I(1)>>)>>))>>,
     <<Let("y", L(<<Fn("delete", <<X>>), N("w")>>)), IfElse(Fn("delete", <<Y>>), <<Let("x", I(3))>>, <<Let("x", I(4))>>)>>,
     <<ForIn("x", L(<<I(1), Fn("delete", <<Y>>)>>), <<>>), WhileDo(Op(I(1), "&", Fn("delete", <<X>>)), <<>>)>>,
     <<Let("f", Lambda(<<Value("n")>>, <<Eval1(Lambda(<<>>, <<Eval1(Op(N("n"), "+", X))>>))>>)),
       Let("g", Fn("f", <<I(1)>>)), Let("x", I(3)), Let("y", Fn("g", <<>>)), Let("len", I(3)), Let("x", Fn("len", <<X>>))>>,
     <<Let("f", Lambda(<<Value("a"), Par("value", "b", <<Op(N("a"), "+", Y)>>), Par("args", "r", <<>>), Par("kwargs", "k", <<>>)>>,
                       <<Let2("b", "+=", Fn("len", <<N("r")>>)), Eval1(T(<<N("a"), N("b"), Fn("len", <<N("k")>>)>>))>>)),
       Let("x", Apply(F, <<Pass1("spread", <<>>, Ints(<<1, 2, 3>>)), With("w", I(5))>>)),
       Let("y", Apply(F, <<Pass1("keywords", <<>>, D(<<Entry1(S(<<"a">>), I(4))>>))>>)), Let("x", Fn("f", <<>>))>>,
     <<Let("f", Lambda(<<>>, <<Let("s", I(0)),
                               ForIn("i", Ints(<<1, 2>>), <<IfElse(Op(N("i"), "==", I(1)), <<Just("continue")>>, <<>>), Let2("s", "+=", N("i"))>>),
                               WhileDo(Bool(TRUE), <<Let2("s", "+=", I(1)), IfElse(Less(I(3), N("s")), <<Just("break")>>, <<>>)>>),
                               Eval1(N("s"))>>)), Let("x", Fn("f", <<>>))>>,
     <<Let("f", Lambda(<<>>, <<Give(I(5))>>)), Let("x", Apply(Choice(F, Sign("!", X), F), <<>>)),
       Let("y", Apply(Choice(F, Bool(TRUE), F), <<>>))>>,
     <<Let("x", Fn("map", <<Lambda(<<Value("v")>>, <<Eval1(Op(N("v"), "*", Y))>>), Ints(<<1, 2>>)>>)),
       Let("y", Fn("reduce", <<Lambda(<<Value("v"), Value("w")>>, <<Eval1(Op(N("v"), "-", N("w")))>>), X>>)),
       Let("x", Fn("sum", <<X>>)), Let("y", At1(D(<<Entry1(S(<<"k">>), X)>>), S(<<"k">>)))>>}}

-----------------------------------------------------------------------------
\* Expressions of two operators, in every place, and statements around text
\* that is none, laid out in several ways.
Shapes(e, f) ==
  {Op(e, o, f) : o \in {"|", "&", "==", "<", "+", "-", "*", "%"}}
  \cup {Sign("-", e), Sign("!", f), Choice(e, f, I(2)), Choice(I(1), e, f), To(e, f), To(f, e), At1(e, f),
        [To(I(0), e) EXCEPT !.step = <<f>>], As(e, "q"), Apply(e, <<By(f)>>), L(<<e, f>>), T(<<e>>), T(<<>>),
        D(<<Entry1(e, f)>>), Apply(X, <<With("k", e), Pass1("keywords", <<>>, f)>>),
        Lambda(<<Par("value", "v", <<e>>)>>, <<Give(f)>>)}

ExpressionPrograms ==
  LET shapes == Shapes(X, I(1))
      exprs == UNION {Shapes(e, Y) \cup Shapes(Y, e) : e \in shapes}
  IN {[f \in {"entry"} |-> [stmts |-> <<Let("x", e), IfElse(e, <<>>, <<>>)>>, layout |-> Noted]] : e \in exprs}

Sentences ==
  {Let("x", L(<<I(1), I(2)>>)), Let2("x", "-=", Fn("f", <<X, Y>>)), Eval1(D(<<Entry1(S(<<"a", "\"", "}">>), X)>>)),
   Let("f", Lambda(<<Value("v")>>, <<IfElse(N("v"), <<Give(I(1))>>, <<Let("w", I(2))>>)>>)),
   [IfElse(Op(X, "==", D(<<>>)), <<Let("x", I(1)), Let("y", I(2))>>, <<Do("a", <<>>)>>)
      EXCEPT !.elifs = <<[cond |-> Y, body |-> <<Let("x", I(3))>>], [cond |-> I(1), body |-> <<>>]>>, !.other = <<Eval1(Y)>>],
   ForIn("x", L(<<D(<<>>)>>), <<WhileDo(X, <<Just("break")>>), Just("continue")>>),
   [Do("a", <<>>) EXCEPT !.after = <<"b", "c">>, !.nproc = <<2>>,
      !.with = <<[expr |-> At1(At1(PX, X), S(<<"}">>)), alias |-> <<"q">>], Plain(Y)>>,
      !.fsubs = <<[path |-> <<"a", "{">>, rules |-> <<[pattern |-> <<"}">>, expr |-> X]>>]>>,
      !.body = <<"a", "<", "<", "E", "\n", "}", "\n", "E", "\n", "\"", "$", "{", "b", "}", "}", "\"", "#", "}", "\n", "{", "}">>],
   [Analyse("b") EXCEPT !.assigns = <<[name |-> <<"r">>, by |-> "=", expr |-> X, target |-> <<[regex |-> TRUE, file |-> <<"a", "}">>]>>]>>,
      !.columns = <<[name |-> <<"p", "x">>, pattern |-> <<>>, target |-> <<>>, title |-> <<"t">>],
                    [name |-> <<>>, pattern |-> <<Fn("f", <<X>>)>>, target |-> <<[regex |-> FALSE, file |-> <<"a">>]>>, title |-> <<>>]>>],
   UseFrom("c", <<"x", "y">>), UseBare("m", <<>>)}

Malformed ==
  {Raw(<<"x", "=">>), Raw(<<"1", "2">>), Raw(<<"(", "1", "2", ")">>), Raw(<<"}">>), Raw(<<"else", "{", "}">>),
   Raw(<<"if", ")">>), Raw(<<"for", "in", "x", "{", "y", "=", "1", "}">>), Raw(<<"use", "1">>), Raw(<<"do", "s", "with", ")", "{", "}">>),
   Raw(<<"analyse", "a", "{", "x", "=", "}">>), Raw(<<"$">>), Raw(<<"f", "(", "1", ",", ",", "2", ")">>),
   Raw(<<"f", "(", "a", "=", "1", ",", "2", ")">>), Raw(<<"y", "=", "1", "if", "2">>),
   Raw(<<"function", "(", "a", "=", "1", ",", "b", ")", "{", "}">>), Raw(<<"while", "x", "y", "{", "}">>)}

Behind == {Let("x", L(<<I(1), I(2)>>)), ForIn("x", L(<<D(<<>>)>>), <<>>)}
StatementPrograms ==
  {[f \in {"entry"} |-> [stmts |-> stmts, layout |-> lay]] :
     <<stmts, lay>> \in ({<<a, b>> : <<a, b>> \in Sentences \X Sentences}
                          \cup {<<a, m, b>> : <<a, m, b>> \in Sentences \X Malformed \X Behind})
                        \X {Lines, Compact, Noted}}

AllPrograms ==
  ImportGraphs \cup Libraries \cup TablePrograms \cup FunctionPrograms \cup ExpressionPrograms \cup StatementPrograms

\* A library whose globals change after a step, imported under an alias.
ChangingLibrary ==
  {Program1([f \in {"entry", "lib"} |-> IF f = "entry" THEN <<UseAs("lib", "p"), Do("s", <<PX>>)>> ELSE l]) :
     l \in LibBodies}

RandomDraws == <<2, 1, 2>>
=============================================================================
