---------------------------- MODULE MCRuntimePlan ----------------------------
(***************************************************************************)
(* All programs of three steps, in five shapes of `after`, with every      *)
(* choice of what each of them imports from a product table and a series;  *)
(* and single programs for what these do not reach: four steps in a        *)
(* diamond, names that meet in the file system, templates, errors; those   *)
(* with steps m and n are also run and analysed.                           *)
(***************************************************************************)
EXTENDS Analyse

\* The table is the product of x and y: a cell of x stands in two rows, and
\* its two positions have one value.  g is a name that is assigned twice.
MCKind == [t |-> "table", s |-> "series", e |-> "series", f |-> "function", g1 |-> "series", g2 |-> "series",
           v |-> "series", w |-> "series"]

MCColumns == [t |-> <<"x", "y">>, s |-> <<"s">>, e |-> <<"e">>, f |-> <<>>, g1 |-> <<"g">>, g2 |-> <<"g">>,
              v |-> <<"v">>, w |-> <<"w">>]

Of(v, k) == [val |-> v, key |-> k]

MCCell ==
  [t |-> <<[x |-> Of(1, 1), y |-> Of(1, 1)], [x |-> Of(1, 1), y |-> Of(2, 2)],
           [x |-> Of(1, 2), y |-> Of(1, 1)], [x |-> Of(1, 2), y |-> Of(2, 2)]>>,
   s |-> <<[s |-> Of(1, 1)], [s |-> Of(2, 2)]>>,
   e |-> <<>>, f |-> <<>>,
   g1 |-> <<[g |-> Of(1, 1)]>>, g2 |-> <<[g |-> Of(2, 1)]>>,
   v |-> <<[v |-> Of(1, 1)], [v |-> Of(4, 2)]>>, w |-> <<[w |-> Of(1, 1)], [w |-> Of(3, 2)]>>]

MCScope == [t |-> "t", s |-> "s", e |-> "e", f |-> "f", g |-> "g2", v |-> "v", w |-> "w"]
EarlyScope == [MCScope EXCEPT !.g = "g1"]

Item(src, cols, alias) == [source |-> src, columns |-> cols, alias |-> alias]
All == Item("t", <<>>, "")
X == Item("t", <<"x">>, "")
Y == Item("t", <<"y">>, "")
XasZ == Item("t", <<"x">>, "z")
XasY == Item("t", <<"x">>, "y")
S == Item("s", <<>>, "")
G == Item("g", <<>>, "")

Imports == {<<>>, <<All>>, <<X>>, <<Y, X>>, <<S>>}

Do(name, after, with) ==
  [name |-> name, after |-> after, with |-> with, nproc |-> 0, fsubs |-> <<>>, scope |-> MCScope]

Shapes == {[b |-> <<>>, c |-> <<"b">>], [b |-> <<"a">>, c |-> <<"b">>], [b |-> <<"a">>, c |-> <<"a">>],
           [b |-> <<>>, c |-> <<"b", "a", "b">>], [b |-> <<"a">>, c |-> <<"b", "a">>]}

Generated ==
  {<<Do("c", sh.c, w3), Do("a", <<>>, w1), Do("b", sh.b, w2)>> :
     sh \in Shapes, w1 \in Imports, w2 \in Imports, w3 \in Imports}

Sub(dest, refs) == [dest |-> dest, refs |-> refs]

Single == {
  <<>>,
  <<Do("a", <<>>, <<XasZ>>), Do("b", <<"a">>, <<Y, All>>)>>, <<Do("a", <<>>, <<Y, All>>), Do("b", <<"a">>, <<XasZ>>)>>,
  <<Do("a", <<>>, <<X>>), Do("b", <<"a">>, <<Y>>), Do("c", <<"b">>, <<XasZ>>)>>,
  <<Do("a", <<>>, <<X>>), Do("b", <<>>, <<Y>>), Do("c", <<"a", "b">>, <<All, S>>)>>,
  <<Do("a", <<>>, <<S>>), Do("b", <<"a">>, <<X>>), Do("c", <<"a">>, <<Y>>), Do("d", <<"b", "c">>, <<All>>)>>,
  <<Do("a", <<>>, <<G>>), Do("b", <<"a">>, <<X>>), Do("c", <<"a">>, <<X>>), Do("d", <<"b", "c">>, <<All>>)>>,
  <<[Do("a", <<>>, <<G>>) EXCEPT !.scope = EarlyScope], Do("b", <<"a">>, <<G>>)>>,
  <<[Do("a", <<>>, <<G>>) EXCEPT !.scope = EarlyScope], Do("b", <<>>, <<G>>), Do("c", <<"a", "b">>, <<>>)>>,
  <<Do("a", <<>>, <<X, XasY>>), Do("b", <<"a">>, <<Y>>)>>,
  <<Do("a", <<>>, <<Item("e", <<>>, "")>>), Do("b", <<"a">>, <<S>>), Do("c", <<>>, <<S>>)>>,
  <<Do("a", <<"a">>, <<>>)>>, <<Do("a", <<"b">>, <<>>), Do("b", <<"a">>, <<>>)>>,
  <<Do("a", <<"u">>, <<>>)>>, <<Do("a", <<>>, <<>>), Do("a", <<>>, <<S>>)>>,
  <<Do("a", <<>>, <<Item("u", <<>>, ""), Item("f", <<>>, ""), Item("", <<>>, ""), Item("s", <<"s">>, ""),
                    Item("t", <<"u">>, ""), Item("t", <<>>, "z"), Item("s", <<>>, "JBS_ROW"),
                    Item("s", <<>>, "1")>>)>>,
  <<[Do("a", <<>>, <<>>) EXCEPT !.nproc = -1]>>, <<[Do("a", <<>>, <<>>) EXCEPT !.nproc = 2]>>,
  <<Do("a", <<>>, <<S>>), Do("_a", <<>>, <<S>>), Do("a_", <<>>, <<>>), Do("a__1", <<>>, <<>>), Do("status", <<>>, <<>>),
    Do("b", <<"_a", "a_", "a__1">>, <<>>)>>,
  <<Do("status", <<>>, <<>>), Do("b", <<"status">>, <<>>)>>,
  <<Do("dep_2_a", <<>>, <<>>), Do("a", <<>>, <<>>), Do("_a", <<>>, <<>>), Do("b", <<"dep_2_a", "a", "_a">>, <<>>)>>,
  <<[Do("a", <<>>, <<S>>) EXCEPT !.fsubs = <<Sub("in", {"s"}), Sub("out", {})>>], Do("b", <<"a">>, <<>>)>>,
  <<Do("a", <<>>, <<S>>), [Do("b", <<"a">>, <<>>) EXCEPT !.fsubs = <<Sub("in", {"s"}), Sub("a", {})>>]>>,
  <<[Do("a", <<>>, <<S>>) EXCEPT !.fsubs = <<Sub("in", {"x"})>>]>>,
  <<[Do("a", <<>>, <<S>>) EXCEPT !.fsubs = <<Sub("in", {}), Sub("in", {})>>]>>,
  <<[Do("a", <<>>, <<S>>) EXCEPT !.fsubs = <<Sub("status", {})>>]>> }

\* Programs that are run: a column of an integer and a string, one of an
\* integer and a float; the rows of a component or below a limit are fewer.
Run == {<<Do("m", <<>>, <<Item("v", <<>>, "")>>), Do("n", <<>>, <<>>)>>,
        <<Do("o", <<>>, <<Item("w", <<>>, "")>>), Do("p", <<"o">>, <<>>)>>}

\* An unknown column, two patterns of one name, a pattern that hides a value;
\* titles that repeat, that meet the one of --weak, that differ in case, and
\* steps that differ in case.
Tables == {<<Do("x1", <<>>, <<>>)>>, <<Do("x2", <<>>, <<>>)>>, <<Do("x3", <<>>, <<S>>)>>,
           <<Do("x4", <<>>, <<>>)>>, <<Do("x5", <<>>, <<>>)>>, <<Do("x6", <<>>, <<>>)>>,
           <<Do("y", <<>>, <<>>), Do("Y", <<>>, <<>>)>>}

MCExecuted == Run \cup Tables

Exact(name, kinds) == [name |-> name, regex |-> FALSE, files |-> {"out"}, kinds |-> kinds]
Logs(name, kinds) == [name |-> name, regex |-> TRUE, files |-> {"l1", "l2"}, kinds |-> kinds]
Col(source, title) == [source |-> source, title |-> title]
Analyse1(pattern, columns) == [patterns |-> <<pattern>>, columns |-> columns]

Time == Exact("time", <<"int">>)
Log == Logs("log", <<"string", "float">>)
Plain == Analyse1(Time, <<Col("time", "t")>>)

MCBlocks ==
  [a |-> Plain, c |-> Plain, y |-> Plain, Y |-> Plain,
   m |-> [patterns |-> <<Time, Log>>, columns |-> <<Col("v", "v"), Col("time", "t")>>],
   n |-> [patterns |-> <<Log, Time>>, columns |-> <<Col("time", "t"), Col("log", "l"), Col("time", "u")>>],
   o |-> Analyse1(Time, <<Col("w", "w")>>),
   p |-> Analyse1(Log, <<Col("log", "l"), Col("w", "w")>>),
   x1 |-> Analyse1(Time, <<Col("s", "s")>>),
   x2 |-> [patterns |-> <<Time, Time>>, columns |-> <<Col("time", "t")>>],
   x3 |-> Analyse1(Exact("s", <<"int">>), <<Col("s", "s")>>),
   x4 |-> Analyse1(Time, <<Col("time", "t"), Col("time", "t")>>),
   x5 |-> Analyse1(Time, <<Col("time", "jbs_status")>>),
   x6 |-> Analyse1(Time, <<Col("time", "t"), Col("time", "T")>>)]

Out(times) == [out |-> [time |-> times]]
Left(times, log1, log2) == [out |-> [time |-> times], l1 |-> [log |-> log1], l2 |-> [log |-> log2]]

MCContents ==
  [s \in DOMAIN MCBlocks |->
    CASE s = "m" -> {Out(<<>>), Out(<<<<"7">>, <<"">>>>), [l1 |-> [log |-> <<>>]]}
      [] s = "n" -> {Out(<<<<"7">>>>), Left(<<<<"1">>>>, <<<<"w", "7">>>>, <<<<"", "">>, <<"w", "0.5">>>>)}
      [] s = "p" -> {[l2 |-> [log |-> <<<<"w", "7">>>>]], [l1 |-> [log |-> <<<<"w", "1e999">>>>]]}
      [] s = "x3" -> {[out |-> [s |-> <<<<"7">>>>]]}
      [] OTHER -> {Out(<<<<"7">>>>)}]

MCFileOrder == <<"l1", "l2", "out">>
MCKindOf == <<"int", "int", "float", "string">>
MCText == <<"1", "2", "0.5", "w">>
MCReadable == [int |-> {"1", "2", "7"}, float |-> {"1", "2", "7", "0.5"}]

MCProgram == Generated \cup Single \cup MCExecuted

MCSafe ==
  [n \in UNION {StepNames(p) : p \in MCProgram} |->
    CASE n = "_a" -> "a" [] n = "a_" -> "a" [] OTHER -> n]

Sel(ts, as) == [targets |-> ts, analysed |-> as]

MCSelections ==
  {Sel({"*"}, {}), Sel({"*"}, {"a"}), Sel({"c"}, {}), Sel({"a", "b"}, {"a", "c"}),
   Sel({"*"}, {"m", "n"}), Sel({"n"}, {"m", "n"}), Sel({"*"}, {"o", "p"}), Sel({"p"}, {"o", "p"}),
   Sel({"*"}, {"y", "Y"})}
  \cup {Sel({"*"}, {x}) : x \in {"x1", "x2", "x3", "x4", "x5", "x6"}}

MCSameName == [Y |-> "y", T |-> "t"]
=============================================================================
