------------------------------ MODULE Builtins ------------------------------
(***************************************************************************)
(* The arguments of calls, and the builtin functions that need nothing but *)
(* their arguments (eval/builtin_args.go, builtin_registry.go,             *)
(* expr_builtin.go, table_eval.go, table_rename.go, table_rbind.go,        *)
(* unique.go, sample.go, higher_order.go).  Of the builtins, those of      *)
(* SignatureOf, and table, t and range, are modelled.                      *)
(***************************************************************************)
EXTENDS Operators

Lexical == INSTANCE Lexer

CONSTANT Draws       \* the random numbers that a sample draws

(* The arguments of a call are [name, val]; positional ones have no name. *)
Arg(name, v) == [name |-> name, val |-> v]
Positional(args) == SelectSeq(args, LAMBDA a : a.name = <<>>)
WithNames(args) == SelectSeq(args, LAMBDA a : a.name # <<>>)

\* No argument without a name follows one with a name, and no name repeats.
WellNamed(args) ==
  \A i, j \in DOMAIN args : i < j /\ args[i].name # <<>> => args[j].name \notin {<<>>, args[i].name}

(***************************************************************************)
(* bindFunctionArguments, bindBuiltinArgs: which parameter has which value *)
(* (fixed), what is left for *args (rest) and for **kwargs (keywords).     *)
(* Whatever is wrong is one error, E106.                                   *)
(***************************************************************************)
Binding(params, args, hasRest, hasKeywords) ==
  LET given == Positional(args)
      named == WithNames(args)
      filled == {i \in DOMAIN given : i <= Len(params)}
      known == SelectSeq(named, LAMBDA a : a.name \in ToSet(params))
  IN [ok |-> /\ WellNamed(args)
             /\ hasRest \/ Len(given) <= Len(params)
             /\ hasKeywords \/ known = named
             /\ {known[i].name : i \in DOMAIN known} \cap {params[i] : i \in filled} = {},
      fixed |-> [p \in {params[i] : i \in filled} |-> given[CHOOSE i \in filled : params[i] = p].val]
                @@ [p \in {known[i].name : i \in DOMAIN known} |->
                     known[CHOOSE i \in DOMAIN known : known[i].name = p].val],
      rest |-> [i \in 1..(Len(given) - Cardinality(filled)) |-> given[Len(params) + i].val],
      keywords |-> SelectSeq(named, LAMBDA a : a.name \notin ToSet(params))]

BindFunctionArguments(params, args) ==
  LET of(kind) == SelectSeq(params, LAMBDA p : p.kind = kind)
  IN Binding([i \in DOMAIN of("value") |-> of("value")[i].name], args, of("args") # <<>>, of("kwargs") # <<>>)

\* A named argument with the name of the varargs is one more sequence of them.
Spread(sig, args) ==
  LET spread(a) == a.name # <<>> /\ a.name = sig.spread
      items(a) == [i \in DOMAIN a.val.items |-> Arg(<<>>, a.val.items[i])]
      many == SelectSeq(args, spread)
  IN IF many = <<>> \/ ~IsSequence(many[1].val) THEN args
     ELSE SelectSeq(args, LAMBDA a : a.name = <<>>) \o items(many[1])
          \o SelectSeq(args, LAMBDA a : a.name # <<>> /\ ~spread(a))

\* The parameters of the builtins; `given` of them are required.
Signature(params, given) ==
  [params |-> [i \in DOMAIN params |-> <<params[i]>>], given |-> given, rest |-> FALSE, spread |-> <<>>,
   keywords |-> FALSE, none |-> FALSE]
Varargs(name, none) == [Signature(<<>>, 0) EXCEPT !.rest = TRUE, !.spread = <<name>>, !.none = none]
SignatureOf(name) ==
  CASE name = "rbind"  -> Varargs("tables", TRUE)
    [] name = "delete" -> Varargs("names", FALSE)
    [] name \in {"sum", "prod"} -> [Signature(<<"values">>, 0) EXCEPT !.rest = TRUE, !.none = TRUE]
    [] name = "rename" -> [Signature(<<"table">>, 1) EXCEPT !.keywords = TRUE]
    [] name = "update" -> [Signature(<<"dict">>, 1) EXCEPT !.keywords = TRUE]
    [] name = "rows"   -> Signature(<<"table">>, 1)
    [] name = "get"    -> Signature(<<"dict", "key", "default">>, 3)
    [] name = "sample" -> Signature(<<"values", "size", "replace">>, 1)
    [] name \in {"head", "tail"} -> Signature(<<"values", "n">>, 1)
    [] name \in {"map", "reduce"} -> Signature(<<"fn", "values">>, 2)
    [] name = "filter" -> Signature(<<"values", "fn">>, 2)
    [] name \in {"unique", "duplicated", "all", "any", "rev"} -> Signature(<<"values">>, 1)
    [] name \in {"len", "list", "tuple"} -> Signature(<<"value">>, 1)

BindBuiltinArgs(sig, args) ==
  LET checked(bound) ==
        [bound EXCEPT !.ok = /\ @ /\ WellNamed(args)
                             /\ sig.none \/ args # <<>>
                             /\ \A i \in 1..sig.given : sig.params[i] \in DOMAIN bound.fixed]
  IN checked(Binding(sig.params, Spread(sig, args), sig.rest, sig.keywords))

-----------------------------------------------------------------------------
(* The builtins on the arguments they are bound to. *)
IsKey(v) == v.kind \in {"string", "int", "bool"}
IsRows(v) == IsSequence(v) \/ IsTable(v)
Size(v) == IF IsTable(v) THEN Len(v.rows) ELSE Len(v.items)

\* Items, or rows, by their index from 0.
Taking(v, picks) ==
  IF IsTable(v) THEN Gather(v, picks) ELSE Out(Like(v, [i \in DOMAIN picks |-> v.items[picks[i] + 1]]))

\* isValidCombColumnName
IsColumnName(words) == Len(words) = 1 /\ Lexical!IsWord(words[1])
IsColumnKey(v) == v.kind = "string" /\ IsColumnName(v.words)

\* tableFromDict, tableFromRowDictList: the keys name the columns.
DictKeys(d) == [i \in DOMAIN d.entries |-> d.entries[i][1]]
ColumnDict(d) == \A i \in DOMAIN d.entries : IsColumnKey(d.entries[i][1])
TableFromDict(d, src) ==
  IF d.entries = <<>> THEN Out(Table(<<>>, <<>>))
  ELSE IF ~ColumnDict(d) THEN Fail("E106")
  ELSE ColumnTable([i \in DOMAIN d.entries |-> Text(d.entries[i][1])],
                   [i \in DOMAIN d.entries |-> d.entries[i][2]], src)

TableFromRows(rows, src) ==
  LET good == \A r \in DOMAIN rows :
                /\ rows[r].kind = "dict" /\ ColumnDict(rows[r])
                /\ ToSet(DictKeys(rows[r])) = ToSet(DictKeys(rows[1]))
                /\ \A i \in DOMAIN rows[r].entries : IsScalar(rows[r].entries[i][2])
      names == [i \in DOMAIN rows[1].entries |-> Text(rows[1].entries[i][1])]
      cells(row) == [c \in ToSet(names) |-> ValueAt(row, StrVal(<<c>>))]
  IN IF rows = <<>> THEN Out(Table(<<>>, <<>>))
     ELSE IF ~good THEN Fail("E106")
     ELSE Out(RowTable(names, [r \in DOMAIN rows |-> cells(rows[r])], src))

\* evalTableValueCall: columns by name, a dictionary of columns, or rows.
TableCall(args, src) ==
  LET one == Len(args) = 1 /\ args[1].name = <<>>
  IN IF one /\ args[1].val.kind = "dict" THEN TableFromDict(args[1].val, src)
     ELSE IF one /\ args[1].val.kind = "list" THEN TableFromRows(args[1].val.items, src)
     ELSE IF args = <<>> \/ \E i \in DOMAIN args : ~IsColumnName(args[i].name) THEN Fail("E106")
     ELSE ColumnTable([i \in DOMAIN args |-> args[i].name[1]], [i \in DOMAIN args |-> args[i].val], src)

\* dictFromTable, kwargsDict, dictFromTableRow
KeywordDict(args) == DictOf([i \in DOMAIN args |-> <<StrVal(args[i].name), args[i].val>>])
DictCall(args) ==
  LET columns(t) == Dict([i \in DOMAIN t.order |-> <<StrVal(<<t.order[i]>>), List(Column(t, t.order[i]))>>])
  IN IF Len(args) = 1 /\ args[1].name = <<>>
     THEN IF IsTable(args[1].val) THEN Out(columns(args[1].val)) ELSE Fail("E106")
     ELSE IF args = <<>> \/ Positional(args) # <<>> THEN Fail("E106")
     ELSE Out(KeywordDict(args))
RowDict(t, r) == Dict([i \in DOMAIN t.order |-> <<StrVal(<<t.order[i]>>), t.rows[r][t.order[i]].val>>])

\* bindRangeBuiltinValues
RangeValues(fixed) ==
  LET start == IF <<"start">> \in DOMAIN fixed THEN fixed[<<"start">>] ELSE IntVal(0)
  IN IF DOMAIN fixed = {<<"stop">>} THEN <<fixed[<<"stop">>]>>
     ELSE <<start, fixed[<<"stop">>]>> \o IF <<"step">> \in DOMAIN fixed THEN <<fixed[<<"step">>]>> ELSE <<>>

RangeCall(args, bound) ==
  IF IF WithNames(args) = <<>> THEN Len(args) \notin 1..3 ELSE ~bound.ok \/ <<"stop">> \notin DOMAIN bound.fixed
  THEN Fail("E106")
  ELSE RangeOp(IF WithNames(args) = <<>> THEN [i \in DOMAIN args |-> args[i].val] ELSE RangeValues(bound.fixed))

\* evalSampleValueCall; a random permutation is a rotation here.
SampleCall(fixed, src) ==
  LET v == fixed[<<"values">>]
      sized == <<"size">> \in DOMAIN fixed /\ fixed[<<"size">>].kind # "null"
      replace == <<"replace">> \in DOMAIN fixed
      again == replace /\ fixed[<<"replace">>].truth
      size == IF sized THEN fixed[<<"size">>].val ELSE Size(v)
      drawn(i) == Draws[((i - 1) % Len(Draws)) + 1]
      picks == [i \in 1..size |-> (IF again THEN drawn(i) ELSE drawn(1) + i) % Size(v)]
  IN IF \/ ~IsRows(v)
        \/ sized /\ (fixed[<<"size">>].kind # "int" \/ fixed[<<"size">>].val < 0)
        \/ replace /\ fixed[<<"replace">>].kind # "bool"
     THEN Fail("E106")
     ELSE IF size > 0 /\ (Size(v) = 0 \/ (~again /\ size > Size(v))) THEN Fail("E106")
     ELSE IF IsTable(v) /\ again THEN Redrawn(v, picks, src)
     ELSE Taking(v, picks)

\* evalHeadTail
Ends(name, v, n) ==
  LET count == IF n < Size(v) THEN n ELSE Size(v)
      start == IF name = "tail" THEN Size(v) - count ELSE 0
  IN Taking(v, [i \in 1..count |-> start + i - 1])

\* evalFoldOperatorArgs: a fold of one sequence, or of the arguments.
Folded(by, items) ==
  LET with(acc, out) == [out EXCEPT !.errs = acc.errs \o @]
      step(acc, v) == IF Errors(acc.errs) # <<>> THEN acc ELSE with(acc, BinaryOp(by, acc.val, v))
      total(out) == IF Errors(out.errs) = <<>> THEN out ELSE [out EXCEPT !.val = Null]
  IN IF items = <<>> THEN Out(IntVal(IF by = "+" THEN 0 ELSE 1))
     ELSE total(FoldLeft(step, Out(Head(items)), Tail(items)))

FoldCall(by, values) == Folded(by, IF Len(values) = 1 THEN ToSeries(values[1]) ELSE values)

\* evalAllAnyCall
AllAny(name, v) ==
  LET items == ToSeries(v)
      settles(i) == Truthy(items[i]) = (name = "any")
      tested == {i \in DOMAIN items : \A j \in 1..(i - 1) : ~settles(j)}
      settled == \E i \in DOMAIN items : settles(i)
  IN IF IsTable(v) THEN Fail("E106")
     ELSE Warned(\E i \in tested : Cast(items[i]), Out(BoolVal(settled = (name = "any"))))

\* evalLenCall
Length(v) ==
  CASE IsRows(v)          -> Out(IntVal(Size(v)))
    [] v.kind = "string"  -> Out(IntVal(Len(v.words)))
    [] v.kind = "dict"    -> Out(IntVal(Len(v.entries)))
    [] OTHER              -> Fail("E106")

\* evalListCall, evalTupleCall
Converted(v, name) ==
  IF IsTable(v) THEN Fail("E106") ELSE Out(IF name = "list" THEN List(ToSeries(v)) ELSE Tuple(ToSeries(v)))

RenameCall(t, keywords) ==
  IF \A i \in DOMAIN keywords : IsColumnKey(keywords[i].val)
  THEN Rename(t, [c \in {keywords[i].name[1] : i \in DOMAIN keywords} |->
                   Text(keywords[CHOOSE i \in DOMAIN keywords : keywords[i].name = <<c>>].val)])
  ELSE Fail("E106")

GetCall(d, key, default) ==
  IF d.kind # "dict" \/ ~IsKey(key) THEN Fail("E106")
  ELSE Out(IF Keyed(d, key) = {} THEN default ELSE ValueAt(d, key))

UpdateCall(d, keywords) ==
  IF d.kind # "dict" THEN Fail("E106")
  ELSE Out(FoldLeft(LAMBDA acc, a : Put(acc, StrVal(a.name), a.val), d, keywords))

Bound(name, bound, src) ==
  LET of(param) == bound.fixed[<<param>>]
      v == of("values")
      reversed == [i \in 1..Len(v.items) |-> v.items[Len(v.items) + 1 - i]]
  IN CASE name = "rbind" -> IF bound.rest = <<>> THEN Fail("E106") ELSE Rbind(bound.rest, src)
       [] name \in {"sum", "prod"} ->
            FoldCall(IF name = "sum" THEN "+" ELSE "*",
                     IF DOMAIN bound.fixed = {} THEN bound.rest ELSE <<v>> \o bound.rest)
       [] name = "rename" -> RenameCall(of("table"), bound.keywords)
       [] name = "update" -> UpdateCall(of("dict"), bound.keywords)
       [] name = "get" -> GetCall(of("dict"), of("key"), of("default"))
       [] name = "rows" -> IF ~IsTable(of("table")) THEN Fail("E106")
                           ELSE Out(List([r \in DOMAIN of("table").rows |-> RowDict(of("table"), r)]))
       [] name = "sample" -> SampleCall(bound.fixed, src)
       [] name \in {"head", "tail"} ->
            LET n == IF <<"n">> \in DOMAIN bound.fixed THEN of("n") ELSE IntVal(5)
            IN IF n.kind # "int" \/ ~IsRows(v) THEN Fail("E106")
               ELSE IF n.val < 0 THEN Fail("E106") ELSE Ends(name, v, n.val)
       [] name = "unique" -> IF IsRows(v) THEN Distinct(v) ELSE Fail("E106")
       [] name = "duplicated" ->
            IF IsRows(v) THEN Out(List([i \in DOMAIN Duplicated(v) |-> BoolVal(Duplicated(v)[i])]))
            ELSE Fail("E106")
       [] name \in {"all", "any"} -> AllAny(name, v)
       [] name = "rev" -> IF v.kind = "null" THEN Out(Null)
                          ELSE IF IsSequence(v) THEN Out(Like(v, reversed)) ELSE Fail("E106")
       [] name = "len" -> Length(of("value"))
       [] name \in {"list", "tuple"} -> Converted(of("value"), name)

\* callBuiltinSpec, of the builtins without calls.
BuiltinCall(name, args, src) ==
  LET bound(b) == IF b.ok THEN Bound(name, b, src) ELSE Fail("E106")
  IN CASE name \in {"table", "t"} -> TableCall(args, src)
       [] name = "dict"  -> DictCall(args)
       [] name = "range" -> RangeCall(args, Binding(<<<<"start">>, <<"stop">>, <<"step">>>>, args, FALSE, FALSE))
       [] OTHER -> bound(BindBuiltinArgs(SignatureOf(name), args))
=============================================================================
