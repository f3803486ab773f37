---------------------------- MODULE Expressions ----------------------------
(***************************************************************************)
(* The parser of expressions and of function bodies (parser_expr.go), a    *)
(* recursive descent over tokens.                                          *)
(*                                                                         *)
(* A node of the syntax tree is [node |-> kind, ...]:                     *)
(*   name [name]   num [val]   str [words]   bool [truth]   list, tuple,   *)
(*   dict, index [of, items]   binary [by, left, right]   unary [by, of]   *)
(*   cond [then, test, other]   range [start, stop, step]   member [of,    *)
(*   field]   call [fn, args]   arg [kind, name, of]   entry [key, of]     *)
(*   alias [of, name]   function [params, body]                            *)
(* where a name is a sequence, <<"p", "x">> for p.x.  What may be missing  *)
(* is a sequence of at most one.                                           *)
(***************************************************************************)
EXTENDS Parsing

\* parsePipe, parseAmp, parseCompare, parseAdd, parseMul, from the loosest
\* to the tightest; a comparison is not continued.
Levels ==
  <<{"|", "or"}, {"&", "and"}, {"==", "!=", "<", ">", "<=", ">="}, {"+", "-"}, {"*", "/", "%"}>>
Comparison == 3
Canonical(type) == CASE type = "and" -> "&" [] type = "or" -> "|" [] OTHER -> type

Binary(by, left, right) == [node |-> "binary", by |-> by, left |-> left, right |-> right]

RECURSIVE Parse(_, _, _, _), Chain(_, _, _, _), Postfix(_, _, _), Items(_, _, _, _),
          Params(_, _), FunctionStmts(_, _, _, _), FunctionIf(_, _, _), Elifs(_, _, _)

\* The level of conditionals, those of the operators of Levels, and behind
\* them ranges, signs, and operands with what follows them.  Where a colon
\* means something else, "key", no ranges are read, and no indices in the
\* bounds of a range, "bound".
Cond == 0
Ranges == Len(Levels) + 1
Signs == Len(Levels) + 2

Expr(ts, i) == Parse(ts, i, Cond, "any")

\* parseConditional, behind the first expression.
Conditional(ts, then, where) ==
  LET test == Parse(ts, then.at + 1, 1, where)
      mark == Expect(ts, test.at, "else", "E052")
      other == Parse(ts, mark.at, Cond, where)
  IN IF TypeAt(ts, then.at) # "if" THEN then
     ELSE Joined([node |-> "cond", then |-> then.node, test |-> test.node, other |-> other.node],
                 <<then, test, mark, other>>)

\* parseRangeTerm, behind the start.
RangeTerm(ts, start, where) ==
  LET stop == Parse(ts, start.at + 1, Signs, "bound")
      step == Parse(ts, stop.at + 1, Signs, "bound")
      stepped == TypeAt(ts, stop.at) = ":"
      range == [node |-> "range", start |-> start.node, stop |-> stop.node,
                step |-> IF stepped THEN <<step.node>> ELSE <<>>]
  IN IF where = "key" \/ TypeAt(ts, start.at) # ":" THEN start
     ELSE Postfix(ts, Joined(range, <<start, stop>> \o IF stepped THEN <<step>> ELSE <<>>), "any")

\* What follows an operand of a level: operators of it associate to the left.
ChainBug(ts, left, where, n) ==
  LET right == Parse(ts, left.at + 1, IF n = 4 THEN n ELSE n + 1, where)
      both == Joined(Binary(Canonical(TypeAt(ts, left.at)), left.node, right.node), <<left, right>>)
  IN IF TypeAt(ts, left.at) \notin Levels[n] THEN left
     ELSE IF n = Comparison THEN both ELSE Chain(ts, both, where, n)

Chain(ts, left, where, n) ==
  LET right == Parse(ts, left.at + 1, n + 1, where)
      both == Joined(Binary(Canonical(TypeAt(ts, left.at)), left.node, right.node), <<left, right>>)
  IN IF TypeAt(ts, left.at) \notin Levels[n] THEN left
     ELSE IF n = Comparison THEN both ELSE Chain(ts, both, where, n)

-----------------------------------------------------------------------------
\* One of a list: an expression, an argument of a call, an entry of a
\* dictionary (parseCallArg, parseDictExpr).
Argument(kind, name, of) == [node |-> "arg", kind |-> kind, name |-> name, of |-> of]

CallArg(ts, i) ==
  LET named == TypeAt(ts, i) = "IDENT" /\ TypeAt(ts, i + 1) = "="
      kind == CASE TypeAt(ts, i) = "**" -> "keywords"
                [] TypeAt(ts, i) = "*"  -> "spread"
                [] named                -> "named"
                [] OTHER                -> "positional"
      from == CASE kind = "positional" -> i
                [] kind = "named"      -> SkipNewlines(ts, i + 2)
                [] OTHER               -> i + 1
      of == Expr(ts, from)
  IN [of EXCEPT !.node = Argument(kind, IF named THEN ts[i].val ELSE <<>>, @)]

DictEntry(ts, i) ==
  LET key == Parse(ts, i, Cond, "key")
      colon == Expect(ts, SkipNewlines(ts, key.at), ":", "E058")
      of == Expr(ts, SkipNewlines(ts, colon.at))
  IN Joined([node |-> "entry", key |-> key.node, of |-> of.node], <<key, colon, of>>)

Item(ts, i, kind) ==
  CASE kind = "expr" -> Expr(ts, i) [] kind = "arg" -> CallArg(ts, i) [] kind = "entry" -> DictEntry(ts, i)

\* Items with commas between them, and perhaps after them; many tells
\* whether there was a comma.
Gathered(ts, before, item) ==
  LET comma == SkipNewlines(ts, item.at)
      more == TypeAt(ts, comma) = ","
  IN [node |-> Append(before.node, item.node), errs |-> before.errs \cup item.errs,
      at |-> IF more THEN SkipNewlines(ts, comma + 1) ELSE comma,
      more |-> more, many |-> more \/ before.many]

Items(ts, kind, close, before) ==
  IF ~before.more \/ TypeAt(ts, before.at) = close THEN before
  ELSE Items(ts, kind, close, Gathered(ts, before, Item(ts, before.at, kind)))

NoItems(at) == [node |-> <<>>, at |-> at, errs |-> {}, more |-> TRUE, many |-> FALSE]

Closed(ts, p, type, code) ==
  LET end == Expect(ts, p.at, type, code)
  IN [p EXCEPT !.at = end.at, !.errs = @ \cup end.errs]

\* The items from i to a closing bracket, there may be none: what brackets
\* enclose where an operand is expected, and behind one.
Enclosing(kind, close, code) == [kind |-> kind, close |-> close, code |-> code]
Operand == [t \in {"(", "[", "{"} |->
              CASE t = "(" -> Enclosing("expr", ")", "E053")
                [] t = "[" -> Enclosing("expr", "]", "E055")
                [] t = "{" -> Enclosing("entry", "}", "E055")]
Applied == [t \in {"(", "["} |-> IF t = "(" THEN Enclosing("arg", ")", "E063") ELSE Operand["["]]

\* One expression in parentheses is closed like that, and not as a tuple.
EndCode(items, by) ==
  IF by = Operand["("] /\ items.node # <<>> /\ ~items.many THEN "E054" ELSE by.code
ClosedBy(ts, items, by) == Closed(ts, items, by.close, EndCode(items, by))
Bracketed(ts, i, by) ==
  ClosedBy(ts, Items(ts, by.kind, by.close, NoItems(SkipNewlines(ts, i))), by)

\* parsePrimaryAtom, the parenthesised: (x) is x, (x,) and () are tuples.
Listed(kind, items) == Parsed([node |-> kind, items |-> items.node], items.at, items.errs)

Parenthesised(items) ==
  IF items.many \/ items.node = <<>> THEN Listed("tuple", items)
  ELSE Parsed(items.node[1], items.at, items.errs)

Truths == {"true", "True", "TRUE"}
Falsities == {"false", "False", "FALSE"}
NameOrTruth(val) ==
  IF val[1] \in Truths \cup Falsities THEN [node |-> "bool", truth |-> val[1] \in Truths]
  ELSE [node |-> "name", name |-> val]

-----------------------------------------------------------------------------
\* parseFunctionParams: values, then *args, then **kwargs; a value without
\* default does not follow one with a default.
ParamKind(ts, i) ==
  CASE TypeAt(ts, i) = "*" -> "args" [] TypeAt(ts, i) = "**" -> "kwargs" [] OTHER -> "value"

Param(ts, i) ==
  LET kind == ParamKind(ts, i)
      named == Expect(ts, IF kind = "value" THEN i ELSE i + 1, "IDENT", "E050")
      name == [named EXCEPT !.at = SkipNewlines(ts, @)]
      param(d) == [kind |-> kind, name |-> name.node, default |-> d]
      with(default) == IF kind = "value" THEN Joined(param(<<default.node>>), <<name, default>>)
                       ELSE Joined(param(<<>>), <<name, default, Parsed(<<>>, default.at, {"E058"})>>)
  IN IF TypeAt(ts, name.at) # "=" THEN [name EXCEPT !.node = param(<<>>)]
     ELSE with(Expr(ts, SkipNewlines(ts, name.at + 1)))

ParamErrors(before, p) ==
  LET has(kind) == \E i \in DOMAIN before : before[i].kind = kind
      wrong == \/ \E i \in DOMAIN before : before[i].name = p.name /\ p.name # <<>>
               \/ p.kind = "value" /\ (has("args") \/ has("kwargs"))
               \/ p.kind = "value" /\ p.default = <<>> /\ \E i \in DOMAIN before : before[i].default # <<>>
               \/ p.kind = "args" /\ (has("args") \/ has("kwargs"))
               \/ p.kind = "kwargs" /\ has("kwargs")
  IN IF wrong THEN {"E058"} ELSE {}

WithParam(ts, before, p) ==
  [Gathered(ts, before, p) EXCEPT !.errs = @ \cup ParamErrors(before.node, p.node)]

Params(ts, before) ==
  LET t == TypeAt(ts, before.at)
  IN IF ~before.more \/ t = ")" THEN before
     ELSE IF t \in {"IDENT", "*", "**"} THEN Params(ts, WithParam(ts, before, Param(ts, before.at)))
     ELSE [before EXCEPT !.at = IF t = "EOF" THEN @ ELSE @ + 1, !.errs = @ \cup {"E050"}]

\* A body in braces; nothing is read if there is no brace.
Braced(ts, i, depth, code) ==
  IF TypeAt(ts, i) # "{" THEN Parsed(<<>>, i, {code})
  ELSE Closed(ts, FunctionStmts(ts, i + 1, depth, <<>>), "}", "E025")

WithBody(params, body) ==
  Joined([node |-> "function", params |-> params.node, body |-> body.node], <<params, body>>)

\* parseFunctionExpr
FunctionParams(ts, open) ==
  Closed(ts, Params(ts, [NoItems(SkipNewlines(ts, open.at)) EXCEPT !.errs = open.errs]), ")", "E063")

FunctionBehind(ts, params) ==
  WithBody(params, Braced(ts, SkipNewlines(ts, params.at), 0, "E025"))

Function(ts, i) ==
  FunctionBehind(ts, FunctionParams(ts, Expect(ts, SkipNewlines(ts, i + 1), "(", "E062")))

-----------------------------------------------------------------------------
Enclosed(t, items) ==
  CASE t = "(" -> Parenthesised(items) [] t = "[" -> Listed("list", items) [] t = "{" -> Listed("dict", items)

\* parsePrimaryAtom: anything else is reported and skipped.
Atom(ts, i) ==
  LET t == TypeAt(ts, i)
  IN CASE t = "IDENT"    -> Parsed(NameOrTruth(ts[i].val), i + 1, {})
       [] t = "NUMBER"   -> Parsed([node |-> "num", val |-> ValueOf(ts[i].val[1])], i + 1, {})
       [] t = "STRING"   -> Parsed([node |-> "str", words |-> ts[i].val], i + 1, {})
       [] t \in DOMAIN Operand -> Enclosed(t, Bracketed(ts, i + 1, Operand[t]))
       [] t = "function" -> Function(ts, i)
       [] OTHER          -> Parsed(NoString, i + 1, {"E058"})

Unary(ts, i, where) ==
  LET of == Parse(ts, i + 1, Signs, where)
  IN IF TypeAt(ts, i) \in {"+", "-", "!"}
     THEN [of EXCEPT !.node = [node |-> "unary", by |-> TypeAt(ts, i), of |-> @]]
     ELSE Postfix(ts, Atom(ts, i), where)

\* parseCallArgs: what an argument may not follow.
ArgErrors(args) ==
  LET kind(i) == args[i].kind
      wrong(i) == \E j \in 1..(i - 1) :
                     \/ kind(i) = "named" /\ kind(j) = "named" /\ args[j].name = args[i].name
                     \/ kind(i) = "positional" /\ kind(j) \in {"named", "keywords"}
  IN IF \E i \in DOMAIN args : wrong(i) THEN {"E058"} ELSE {}

\* One operator after an operand: .field, (arguments), [items], as name.
Member(of, field) ==
  Joined(IF of.node.node # "name" THEN [node |-> "member", of |-> of.node, field |-> field.node]
         ELSE [of.node EXCEPT !.name = @ \o (IF field.errs = {} THEN field.node ELSE <<"">>)],
         <<of, field>>)
Application(t, of, args) ==
  [Joined(IF t = "(" THEN [node |-> "call", fn |-> of.node, args |-> args.node]
          ELSE [node |-> "index", of |-> of.node, items |-> args.node], <<of, args>>)
     EXCEPT !.errs = @ \cup IF t = "(" THEN ArgErrors(args.node) ELSE {}]
AliasOf(of, alias) ==
  [Joined([node |-> "alias", of |-> of.node, name |-> alias.node], <<of, alias>>) EXCEPT !.at = of.at + 2]

PostfixStep(ts, of) ==
  CASE TypeAt(ts, of.at) = "."  -> Member(of, Expect(ts, of.at + 1, "IDENT", "E064"))
    [] TypeAt(ts, of.at) \in DOMAIN Applied ->
         Application(TypeAt(ts, of.at), of, Bracketed(ts, of.at + 1, Applied[TypeAt(ts, of.at)]))
    [] TypeAt(ts, of.at) = "as" -> AliasOf(of, Expect(ts, of.at + 1, "IDENT", "E058"))

Postfix(ts, of, where) ==
  IF TypeAt(ts, of.at) \in {".", "(", "as"} \cup (IF where = "bound" THEN {} ELSE {"["})
  THEN Postfix(ts, PostfixStep(ts, of), where)
  ELSE of

Parse(ts, i, n, where) ==
  CASE n = Cond            -> Conditional(ts, Parse(ts, i, 1, where), where)
    [] n \in DOMAIN Levels -> Chain(ts, Parse(ts, i, n + 1, where), where, n)
    [] n = Ranges          -> RangeTerm(ts, Parse(ts, i, Signs, "any"), where)
    [] n = Signs           -> Unary(ts, i, where)

-----------------------------------------------------------------------------
\* Function bodies (parseFunctionBody and what it calls).  depth is the
\* number of loops around.
BodyEnds == Separators \cup {"EOF", "}"}
\* A condition and the body in braces.
Branch(test, body) == Joined([cond |-> test.node, body |-> body.node], <<test, body>>)
Behind(ts, test, depth) == Branch(test, Braced(ts, test.at, depth, "E080"))
FunctionBranch(ts, i, depth) == Behind(ts, Expr(ts, SkipNewlines(ts, i)), depth)

WithBranch(before, branch) == Joined(Append(before.node, branch.node), <<before, branch>>)

Elifs(ts, depth, before) ==
  LET at == SkipSeparators(ts, before.at)
  IN IF TypeAt(ts, at) # "elif" THEN [before EXCEPT !.at = at]
     ELSE Elifs(ts, depth, WithBranch(before, FunctionBranch(ts, at + 1, depth)))

\* parseFuncElseBody; `else if` is reported, and its branches dropped.
FunctionElse(ts, i, depth) ==
  LET at == SkipNewlines(ts, i)
  IN IF TypeAt(ts, at) = "{" THEN Braced(ts, at, depth, "E080")
     ELSE IF TypeAt(ts, at) = "if" THEN Dropped(FunctionIf(ts, at, depth))
     ELSE [Terminated(ts, Parsed(<<>>, at, {}), BodyEnds) EXCEPT !.errs = {"E080"}]

IfElse(ts, then, elifs, other) ==
  [Joined([op |-> "if", cond |-> then.node.cond, then |-> then.node.body,
           elifs |-> elifs.node, other |-> other.node], <<then, elifs, other>>)
     EXCEPT !.at = SkipSeparators(ts, @)]

FunctionElifs(ts, then, elifs, depth) ==
  IfElse(ts, then, elifs, IF TypeAt(ts, elifs.at) = "else" THEN FunctionElse(ts, elifs.at + 1, depth)
                          ELSE Parsed(<<>>, elifs.at, {}))

FunctionThen(ts, then, depth) ==
  FunctionElifs(ts, then, Elifs(ts, depth, Parsed(<<>>, then.at, {})), depth)

FunctionIf(ts, i, depth) == FunctionThen(ts, FunctionBranch(ts, i + 1, depth), depth)

Loop(ts, name, loop) ==
  [loop EXCEPT !.node = [op |-> "for", name |-> name.node, expr |-> @.cond, body |-> @.body],
               !.at = SkipSeparators(ts, @), !.errs = @ \cup name.errs]

FunctionFor(ts, i, depth) ==
  LET name == Expect(ts, SkipNewlines(ts, i + 1), "IDENT", "E080")
      in == Expect(ts, name.at, "in", "E080")
  IN Loop(ts, Joined(name.node, <<name, in>>), Behind(ts, Expr(ts, in.at), depth + 1))

FunctionWhile(ts, i, depth) ==
  LET loop(p) == [p EXCEPT !.node = [op |-> "while", expr |-> @.cond, body |-> @.body],
                           !.at = SkipSeparators(ts, @)]
  IN loop(FunctionBranch(ts, i + 1, depth + 1))

LoopControl(ts, i, depth) ==
  Terminated(ts, Parsed([op |-> TypeAt(ts, i)], i + 1, IF depth = 0 THEN {"E080"} ELSE {}), BodyEnds)

\* What does not belong into a function is skipped up to its end.
Misplaced(ts, i, code) ==
  [Terminated(ts, Parsed(Pass, i + 1, {}), BodyEnds) EXCEPT !.errs = {code}]

FunctionStmt(ts, i, depth) ==
  LET t == TypeAt(ts, i)
      simple(p) == Terminated(ts, p, BodyEnds)
      plain(op, p) == [p EXCEPT !.node = [op |-> op, expr |-> @]]
      assign(p) == [p EXCEPT !.node = Assignment(ts[i].val, TypeAt(ts, i + 1), @)]
  IN CASE t = "if" -> FunctionIf(ts, i, depth)
       [] t = "for" -> FunctionFor(ts, i, depth)
       [] t = "while" -> FunctionWhile(ts, i, depth)
       [] t \in {"break", "continue"} -> LoopControl(ts, i, depth)
       [] t \in {"elif", "else"} -> Misplaced(ts, i, "E080")
       [] t \in {"do", "analyse", "use"} -> Misplaced(ts, i, "E058")
       [] t = "return" -> simple(plain("return", Expr(ts, i + 1)))
       [] t = "IDENT" /\ TypeAt(ts, i + 1) \in AssignOps ->
            simple(assign(Expr(ts, i + 2)))
       [] OTHER -> simple(plain("expr", Expr(ts, i)))

FunctionStmts(ts, i, depth, before) ==
  LET at == SkipSeparators(ts, i)
      behind(stmt) == [FunctionStmts(ts, stmt.at, depth, Append(before, stmt.node)) EXCEPT !.errs = @ \cup stmt.errs]
  IN IF TypeAt(ts, at) \in {"}", "EOF"} THEN Parsed(before, at, {}) ELSE behind(FunctionStmt(ts, at, depth))
=============================================================================
