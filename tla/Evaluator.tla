------------------------------ MODULE Evaluator ------------------------------
(***************************************************************************)
(* The evaluation of expressions (eval/expr_eval.go, expr_call.go,         *)
(* function_runtime.go, frame.go, delete.go, higher_order.go): what an     *)
(* expression, given as a syntax tree (Expressions), is worth, and what    *)
(* its evaluation does to the memory.                                      *)
(*                                                                         *)
(* The memory, mem, is shared by all modules:                              *)
(*   roots    the globals of the modules: module -> name -> value          *)
(*   globals  those of the module in execution once more, as they are      *)
(*            published: [values, vars, bindings], see Globals             *)
(*   frames   the frames of function calls: [vars, parent]                 *)
(*   serial   how many sources of cells there are                          *)
(*   errs     the codes of what this evaluation reports, in turn           *)
(*   aborted  the limit of nested calls was hit: nothing happens any more  *)
(* A frame is referred to by [module, frame]; frame 0 is the root of the   *)
(* module.  A place is a reference with the depth of the calls.  Frames    *)
(* are kept, since a function value may hold one.                          *)
(*                                                                         *)
(* A function value is [kind, builtin, params, body, capture, defaults].   *)
(* All expressions are evaluated for the statements of a module, with the  *)
(* context EvalCtxBindingAssign, which function calls pass on.             *)
(*                                                                         *)
(* Of the warnings there are those about casts and lengths; overflow and   *)
(* shell calls are left out.                                               *)
(***************************************************************************)
EXTENDS Builtins

CONSTANTS
  MaxLoop,     \* MaxLoopIterations
  MaxDepth     \* MaxFunctionCallDepth

Only(S) == CHOOSE v \in S : TRUE

Result(v, mem) == [val |-> v, mem |-> mem]
\* What an operation gives, with its errors reported.
Deliver(mem, out) ==
  Result(out.val, IF mem.aborted THEN mem ELSE [mem EXCEPT !.errs = @ \o out.errs])
Refuse(mem, code) == Deliver(mem, Fail(code))
Failed(before, after) == after.aborted \/ Len(Errors(after.errs)) > Len(Errors(before.errs))

\* NewProjectionSource
Fresh(mem) == [mem EXCEPT !.serial = @ + 1]

-----------------------------------------------------------------------------
(* Names. *)
Unassigned == [kind |-> "unassigned"]

\* Frame.LookupCell: the nearest frame that knows the name, up to the
\* globals of the module where the function was made.
RECURSIVE Find(_, _, _)
Find(mem, ref, name) ==
  LET vars == IF ref.frame = 0 THEN mem.roots[ref.module] ELSE mem.frames[ref.frame].vars
  IN IF name \in DOMAIN vars THEN {vars[name]}
     ELSE IF ref.frame = 0 THEN {} ELSE Find(mem, mem.frames[ref.frame].parent, name)

AssignLocal(mem, ref, name, v) ==
  IF mem.aborted \/ name = <<>> THEN mem
  ELSE [mem EXCEPT !.frames[ref.frame].vars = (name :> v) @@ @]

Function(builtin, params, body, capture, defaults) ==
  [kind |-> "function", builtin |-> builtin, params |-> params, body |-> body,
   capture |-> capture, defaults |-> defaults]

BuiltinNames ==
  {"table", "t", "dict", "range", "rbind", "rename", "update", "rows", "get", "sample", "head", "tail",
   "unique", "duplicated", "all", "any", "rev", "sum", "prod", "len", "list", "tuple",
   "map", "reduce", "filter", "delete"}
BuiltinGlobals == {"jbs_name", "jbs_nproc", "jbs_benchmarks", "jbs_database"}
IsBuiltin(name) == Len(name) = 1 /\ name[1] \in BuiltinGlobals
IsBuiltinFunction(name) == Len(name) = 1 /\ name[1] \in BuiltinNames
BuiltinFunction(name) == Function(name[1], <<>>, <<>>, [module |-> "", frame |-> 0], Nothing)

\* A value found, if it was assigned.
Found(mem, v) == IF v = Unassigned THEN Refuse(mem, "E100") ELSE Result(v, mem)

\* lookupValue: what the program defines hides what is built in.
ReadName(mem, ref, name) ==
  LET found == Find(mem, ref, name)
  IN CASE found # {} -> Found(mem, Only(found))
       [] found = {} /\ IsBuiltinFunction(name) -> Result(BuiltinFunction(name), mem)
       [] found = {} /\ name = <<"None">> -> Result(Null, mem)
       [] OTHER -> Refuse(mem, "E100")

ColumnValue(t, field) ==
  IF field \notin Columns(t) THEN Fail("E100")
  ELSE Out(IF Len(t.rows) = 1 THEN Column(t, field)[1] ELSE List(Column(t, field)))

\* A qualified name: a column of a table, or an imported global; a local
\* name of the namespace comes first.
ReadQualified(mem, ref, name) ==
  LET space == Find(mem, ref, Front(name))
      found == Find(mem, ref, name)
  IN CASE space # {} -> IF Only(space) # Unassigned /\ ~IsTable(Only(space)) THEN Refuse(mem, "E106")
                        ELSE IF Only(space) = Unassigned THEN Refuse(mem, "E100")
                        ELSE Deliver(mem, ColumnValue(Only(space), Last(name)))
       [] space = {} /\ found # {} -> Found(mem, Only(found))
       [] OTHER -> Refuse(mem, "E100")

-----------------------------------------------------------------------------
(* What an expression mentions. *)
\* The operands of a node; of a function, none.
Operands(e) ==
  CASE e.node \in {"list", "tuple", "dict"} -> e.items
    [] e.node = "binary"  -> <<e.left, e.right>>
    [] e.node = "cond"    -> <<e.then, e.test, e.other>>
    [] e.node = "range"   -> <<e.start, e.stop>> \o e.step
    [] e.node = "index"   -> <<e.of>> \o e.items
    [] e.node = "call"    -> <<e.fn>> \o e.args
    [] e.node = "entry"   -> <<e.key, e.of>>
    [] e.node \in {"unary", "member", "arg", "alias"} -> <<e.of>>
    [] OTHER              -> <<>>

\* binaryNeedsRelaxedCombEval
RECURSIVE HasAlias(_)
HasAlias(e) == e.node = "alias" \/ \E i \in DOMAIN Operands(e) : HasAlias(Operands(e)[i])

\* The expressions, the bodies, and the names of a statement of a function.
StmtExprs(s) ==
  CASE s.op \in {"assign", "for", "while", "return", "expr"} -> <<s.expr>>
    [] s.op = "if" -> <<s.cond>> \o [i \in DOMAIN s.elifs |-> s.elifs[i].cond]
    [] OTHER -> <<>>
StmtBodies(s) ==
  CASE s.op = "if" -> <<s.then>> \o [i \in DOMAIN s.elifs |-> s.elifs[i].body] \o <<s.other>>
    [] s.op \in {"for", "while"} -> <<s.body>>
    [] OTHER -> <<>>

\* predeclareFunctionLocals, collectFunctionLocalNames
RECURSIVE LocalNames(_)
LocalNames(body) ==
  {body[i].name : i \in {j \in DOMAIN body : body[j].op \in {"assign", "for"}}}
  \cup UNION {UNION {LocalNames(StmtBodies(body[i])[k]) : k \in DOMAIN StmtBodies(body[i])} : i \in DOMAIN body}

\* exprReferencesAnyName: names are hidden by the parameters before, and by
\* the locals, of a function in the expression.
ParamsBefore(params, i) == {params[j].name : j \in 1..(i - 1)}
RECURSIVE Mentions(_, _), BodyMentions(_, _)
Mentions(e, names) ==
  CASE e.node = "name" -> (IF Len(e.name) = 1 THEN e.name ELSE Front(e.name)) \in names
    [] e.node = "function" ->
         \/ \E i \in DOMAIN e.params : \E d \in ToSet(e.params[i].default) :
              Mentions(d, names \ ParamsBefore(e.params, i))
         \/ BodyMentions(e.body, names \ (ParamsBefore(e.params, Len(e.params) + 1) \cup LocalNames(e.body)))
    [] OTHER -> \E i \in DOMAIN Operands(e) : Mentions(Operands(e)[i], names)
BodyMentions(body, names) ==
  \E i \in DOMAIN body :
    \/ \E k \in DOMAIN StmtExprs(body[i]) : Mentions(StmtExprs(body[i])[k], names)
    \/ \E k \in DOMAIN StmtBodies(body[i]) : BodyMentions(StmtBodies(body[i])[k], names)

-----------------------------------------------------------------------------
(* Expressions.  After the limit of nested calls was hit, nothing has an   *)
(* effect and everything is null.                                          *)
RECURSIVE Eval(_, _, _), EvalAll(_, _, _, _), EvalDict(_, _, _, _)

\* The items in turn, behind those before; strings tells to end behind one
\* that is no string.
NoValues(mem) == [vals |-> <<>>, mem |-> mem]
EvalAll(items, strings, place, before) ==
  LET rest(v) == IF strings /\ v.kind # "string" THEN <<>> ELSE Tail(items)
      more(r) == EvalAll(rest(r.val), strings, place, [vals |-> Append(before.vals, r.val), mem |-> r.mem])
  IN IF items = <<>> THEN before ELSE more(Eval(Head(items), before.mem, place))

\* evalDictExpr: ends at a key that is none.
EvalDict(items, mem, place, before) ==
  LET entry(key, v) == EvalDict(Tail(items), v.mem, place, Append(before, <<key.val, v.val>>))
      keyed(key) == IF IsKey(key.val) THEN entry(key, Eval(Head(items).of, key.mem, place))
                    ELSE Refuse(key.mem, "E106")
  IN IF items = <<>> THEN Result(DictOf(before), mem) ELSE keyed(Eval(Head(items).key, mem, place))

\* evalBoolConditionWithCtx: whether it failed, and whether it holds.
Tested(mem, r) ==
  [mem |-> r.mem, failed |-> Failed(mem, r.mem), holds |-> ~Failed(mem, r.mem) /\ Truthy(r.val)]
Condition(e, mem, place) == Tested(mem, Eval(e, mem, place))

(***************************************************************************)
(* Sums and products.  If one operand is a table, the other has to be a    *)
(* table, or a name, which is a table of one column then.  If there is an  *)
(* alias in the expression, that holds in any case.                        *)
(***************************************************************************)
\* The operand as a table.
Algebraic(of, v, src) ==
  CASE of.node = "alias" -> IF of.name = <<>> \/ IsTable(v) THEN Fail("E106") ELSE Out(Named(of.name[1], v, src))
    [] of.node # "alias" /\ IsTable(v) -> Out(v)
    [] of.node = "name" /\ ~IsTable(v) /\ Len(of.name) = 1 -> Out(Named(of.name[1], v, src))
    [] OTHER -> Fail("E106")

Algebra(e, l, r, mem) ==
  LET left == Algebraic(e.left, l, mem.serial)
      right == Algebraic(e.right, r, mem.serial + 1)
      errs == left.errs \o right.errs
  IN Deliver([mem EXCEPT !.serial = @ + 2],
             IF errs # <<>> THEN [val |-> Null, errs |-> errs] ELSE TableOp(e.by, left.val, right.val))

Compares == {"==", "!=", "<", "<=", ">", ">="}
Binary(e, mem, place) ==
  LET sum == e.by \in {"+", "*"}
      aliased == sum /\ HasAlias(e)
      \* An alias is no value elsewhere.
      bare(of) == IF aliased /\ of.node = "alias" THEN of.of ELSE of
      of(l, r) == IF r.mem.aborted THEN Result(Null, r.mem)
                  ELSE IF e.by \in Compares THEN Deliver(r.mem, Comparison(e.by, l.val, r.val))
                  ELSE IF aliased \/ (sum /\ (IsTable(l.val) \/ IsTable(r.val)))
                  THEN Algebra(e, l.val, r.val, r.mem)
                  ELSE Deliver(r.mem, BinaryOp(e.by, l.val, r.val))
      behind(l) == of(l, Eval(bare(e.right), l.mem, place))
  IN behind(Eval(bare(e.left), mem, place))

\* evalDictIndex, evalSequenceIndex, evalCombIndex
IndexValue(v, selectors) ==
  LET selector == selectors[1]
      strings == \A i \in DOMAIN selectors : selectors[i].kind = "string"
  IN IF v.kind = "dict" THEN IF IsKey(selector) THEN DictIndex(v, selector) ELSE Fail("E106")
     ELSE IF IsSequence(v) THEN SequenceIndex(v, selector)
     ELSE IF Len(selectors) = 1 THEN TableIndex(v, selector)
     ELSE IF strings THEN Select(v, [i \in DOMAIN selectors |-> Text(selectors[i])]) ELSE Fail("E106")

Index(e, mem, place) ==
  LET one == Len(e.items) = 1
      at(v, r) == Deliver(r.mem, IndexValue(v, r.vals))
      indexed(base) ==
        IF \/ ~IsSequence(base.val) /\ ~IsTable(base.val) /\ base.val.kind # "dict"
           \/ e.items = <<>> \/ (~one /\ ~IsTable(base.val))
        THEN Refuse(base.mem, "E106")
        ELSE at(base.val, EvalAll(e.items, ~one, place, NoValues(base.mem)))
  IN indexed(Eval(e.of, mem, place))

\* newFunctionValue: the function keeps the frame it is made in, and the
\* values of the defaults that do not need its parameters.
Closure(e, mem, place) ==
  LET early(i) == e.params[i].default # <<>> /\ ~Mentions(e.params[i].default[1], ParamsBefore(e.params, i))
      mine == SelectSeq([i \in DOMAIN e.params |-> i], early)
      value(r, i) == r.vals[CHOOSE k \in DOMAIN mine : mine[k] = i]
      closed(r) == Result(Function("", e.params, e.body, [module |-> place.module, frame |-> place.frame],
                                   [i \in ToSet(mine) |-> value(r, i)]), r.mem)
  IN closed(EvalAll([k \in DOMAIN mine |-> e.params[mine[k]].default[1]], FALSE, place, NoValues(mem)))

\* evalRangeExpr
RangeBetween(e, mem, place) ==
  LET ranged(r) == Deliver(r.mem, RangeOp(r.vals)) IN ranged(EvalAll(Operands(e), FALSE, place, NoValues(mem)))

-----------------------------------------------------------------------------
(* Calls. *)
RECURSIVE Args(_, _, _), CallValues(_, _, _, _), Parameters(_, _, _, _, _), Applied(_, _, _, _),
          Reduced(_, _, _, _), Execute(_, _, _, _), Branches(_, _, _, _, _), Rounds(_, _, _, _, _, _)

\* evalCallValueArgs: * and ** give the items of a sequence and the entries
\* of a dictionary; nothing is called if they cannot.
NewArgs(arg, v) ==
  CASE arg.kind = "spread"   -> [i \in DOMAIN v.items |-> Arg(<<>>, v.items[i])]
    [] arg.kind = "keywords" -> [i \in DOMAIN v.entries |-> Arg(v.entries[i][1].words, v.entries[i][2])]
    [] OTHER                 -> <<Arg(arg.name, v)>>
Spreadable(arg, v) ==
  LET names == v.kind = "dict" /\ \A i \in DOMAIN v.entries :
                 v.entries[i][1].kind = "string" /\ v.entries[i][1].words # <<>>
  IN (arg.kind = "spread" => IsSequence(v)) /\ (arg.kind = "keywords" => names)

NoArgs(mem) == [ok |-> TRUE, args |-> <<>>, mem |-> mem]
WithArg(before, arg, r) ==
  IF Spreadable(arg, r.val) THEN [before EXCEPT !.args = @ \o NewArgs(arg, r.val), !.mem = r.mem]
  ELSE [ok |-> FALSE, args |-> <<>>, mem |-> Refuse(r.mem, "E106").mem]

Args(args, place, before) ==
  IF args = <<>> \/ ~before.ok THEN [before EXCEPT !.ok = @ /\ ~before.mem.aborted]
  ELSE Args(Tail(args), place, WithArg(before, Head(args), Eval(Head(args).of, before.mem, place)))

Without(f, names) == [n \in DOMAIN f \ names |-> f[n]]

\* What is not there cannot be deleted, nor what is built in.
NotThere(name, mem) ==
  Refuse(mem, IF IsBuiltinFunction(name) \/ name = <<"None">> THEN "E106" ELSE "E100").mem

\* The values of the globals are forgotten.
DeleteGlobalBug(name, mem, place) ==
  IF IsBuiltin(name) THEN Refuse(mem, "E106").mem
  ELSE IF name \notin DOMAIN mem.globals.values THEN NotThere(name, mem)
  ELSE IF mem.aborted THEN mem
  ELSE [mem EXCEPT !.roots[place.module] = Without(@, {name}),
                   !.globals.vars        = Without(@, {name}),
                   !.globals.bindings    = Without(@, {name})]

\* deleteGlobalName: a global is deleted from each of its copies.
DeleteGlobal(name, mem, place) ==
  IF IsBuiltin(name) THEN Refuse(mem, "E106").mem
  ELSE IF name \notin DOMAIN mem.globals.values THEN NotThere(name, mem)
  ELSE IF mem.aborted THEN mem
  ELSE [mem EXCEPT !.globals.values      = Without(@, {name}),
                   !.roots[place.module] = Without(@, {name}),
                   !.globals.vars        = Without(@, {name}),
                   !.globals.bindings    = Without(@, {name})]

\* deleteOneName: outside of functions a global, in one a variable of the call.
DeleteOne(name, mem, place) ==
  IF place.frame = 0 THEN DeleteGlobal(name, mem, place)
  ELSE IF name \notin DOMAIN mem.frames[place.frame].vars THEN NotThere(name, mem)
  ELSE IF mem.aborted THEN mem
  ELSE [mem EXCEPT !.frames[place.frame].vars = Without(@, {name})]

\* The targets in turn; one that is no name, <<>>, or repeats one is refused.
DeleteAll(targets, mem, place) ==
  LET again(k) == \E j \in 1..(k - 1) : targets[j] = targets[k]
      one(m, k) == IF targets[k] = <<>> \/ again(k) THEN Refuse(m, "E106").mem ELSE DeleteOne(targets[k], m, place)
  IN IF targets = <<>> THEN Refuse(mem, "E106")
     ELSE Result(Null, FoldLeft(one, mem, [k \in DOMAIN targets |-> k]))

\* evalDeleteValueCall: the targets are strings.
DeleteValues(args, mem, place) ==
  LET target(v) == IF v.kind = "string" THEN v.words ELSE <<>>
      delete(bound) == IF ~bound.ok THEN Refuse(mem, "E106")
                       ELSE DeleteAll([k \in DOMAIN bound.rest |-> target(bound.rest[k])], mem, place)
  IN delete(BindBuiltinArgs(SignatureOf("delete"), args))

\* evalDeleteCall: positional arguments are names, and not evaluated.
DeleteCall(args, mem, place) ==
  LET target(a) == IF a.of.node = "name" /\ Len(a.of.name) = 1 THEN a.of.name ELSE <<>>
      with(given) == IF given.ok THEN DeleteValues(given.args, given.mem, place) ELSE Result(Null, given.mem)
  IN IF \A i \in DOMAIN args : args[i].kind = "positional"
     THEN DeleteAll([i \in DOMAIN args |-> target(args[i])], mem, place)
     ELSE with(Args(args, place, NoArgs(mem)))

\* The function applied to the items in turn, and to what it gave so far
\* and the next item; an item whose call fails ends it.
Applied(fn, items, place, before) ==
  LET more(r) == IF Failed(before.mem, r.mem) THEN [ok |-> FALSE, vals |-> <<>>, mem |-> r.mem]
                 ELSE Applied(fn, Tail(items), place, [ok |-> TRUE, vals |-> Append(before.vals, r.val), mem |-> r.mem])
  IN IF items = <<>> THEN before ELSE more(CallValues(fn, <<Arg(<<>>, Head(items))>>, before.mem, place))

Reduced(fn, items, place, acc) ==
  LET more(r) == IF Failed(acc.mem, r.mem) THEN Result(Null, r.mem) ELSE Reduced(fn, Tail(items), place, r)
  IN IF items = <<>> THEN acc
     ELSE more(CallValues(fn, <<Arg(<<>>, acc.val), Arg(<<>>, Head(items))>>, acc.mem, place))

\* evalMapValueCall, evalReduceValueCall, evalFilterValueCall
Kept(v, vals) == Taking(v, SelectSeq([i \in DOMAIN vals |-> i - 1], LAMBDA i : Truthy(vals[i + 1])))

HigherOrderOf(name, fn, v, mem, place) ==
  LET rows == name = "filter" /\ IsTable(v)
      items == IF rows THEN [r \in DOMAIN v.rows |-> RowDict(v, r)] ELSE v.items
      with(r) == IF ~r.ok THEN Result(Null, r.mem)
                 ELSE IF name = "map" THEN Result(Like(v, r.vals), r.mem)
                 ELSE Deliver(r.mem, Warned(\E i \in DOMAIN r.vals : Cast(r.vals[i]), Kept(v, r.vals)))
  IN IF fn.kind # "function" \/ (~rows /\ ~IsSequence(v)) \/ (name = "reduce" /\ items = <<>>)
     THEN Refuse(mem, "E106")
     ELSE IF name = "reduce" THEN Reduced(fn, Tail(items), place, Result(Head(items), mem))
     ELSE with(Applied(fn, items, place, [ok |-> TRUE, vals |-> <<>>, mem |-> mem]))

HigherOrder(name, bound, mem, place) ==
  IF bound.ok THEN HigherOrderOf(name, bound.fixed[<<"fn">>], bound.fixed[<<"values">>], mem, place)
  ELSE Refuse(mem, "E106")

CallBuiltin(name, args, mem, place) ==
  CASE name \in {"map", "reduce", "filter"} ->
         HigherOrder(name, BindBuiltinArgs(SignatureOf(name), args), mem, place)
    [] name = "delete"                      -> DeleteValues(args, mem, place)
    [] OTHER                                -> Deliver(Fresh(mem), BuiltinCall(name, args, mem.serial))

\* The parameters from the i-th on; a default that was not evaluated before
\* is now, in the new frame.
Parameters(fn, i, binding, mem, ref) ==
  LET p == fn.params[i]
      default == Eval(p.default[1], mem, ref)
      with(v, m) == Parameters(fn, i + 1, binding, AssignLocal(m, ref, p.name, v), ref)
  IN IF i > Len(fn.params) THEN [ok |-> TRUE, mem |-> mem]
     ELSE IF p.kind = "args" THEN with(List(binding.rest), mem)
     ELSE IF p.kind = "kwargs" THEN with(KeywordDict(binding.keywords), mem)
     ELSE IF p.name \in DOMAIN binding.fixed THEN with(binding.fixed[p.name], mem)
     ELSE IF p.default = <<>> THEN [ok |-> FALSE, mem |-> Refuse(mem, "E106").mem]
     ELSE IF i \in DOMAIN fn.defaults THEN with(fn.defaults[i], mem)
     ELSE with(default.val, default.mem)

\* executeFunctionCallValues
CallFunction(fn, binding, mem, place) ==
  LET ref == [module |-> place.module, frame |-> Len(mem.frames) + 1, depth |-> place.depth + 1]
      frame == [vars |-> Nothing, parent |-> fn.capture]
      locals == [n \in LocalNames(fn.body) \ {<<>>} |-> Unassigned]
      declared(m) == [m EXCEPT !.frames[ref.frame].vars = @ @@ locals]
      ended(run) == IF run.end \in {"break", "continue"} THEN Refuse(run.mem, "E080") ELSE Result(run.val, run.mem)
      entered(set) == IF ~set.ok \/ set.mem.aborted THEN Result(Null, set.mem)
                      ELSE ended(Execute(fn.body, declared(set.mem), ref, Null))
  IN IF binding.ok THEN entered(Parameters(fn, 1, binding, [mem EXCEPT !.frames = Append(@, frame)], ref))
     ELSE Refuse(mem, "E106")

CallValues(fn, args, mem, place) ==
  IF fn.builtin # "" THEN CallBuiltin(fn.builtin, args, mem, place)
  ELSE IF place.depth >= MaxDepth THEN Result(Null, [Refuse(mem, "E106").mem EXCEPT !.aborted = TRUE])
  ELSE CallFunction(fn, BindFunctionArguments(fn.params, args), mem, place)

\* resolveCallable: the function, or an error; nothing is called if there
\* was as much as a warning.
Callable(mem, r) ==
  IF r.mem.aborted \/ r.mem.errs # mem.errs THEN Result(Null, r.mem)
  ELSE IF r.val.kind = "function" THEN r ELSE Refuse(r.mem, "E199")

Callee(fn, mem, place) ==
  LET found == Find(mem, place, fn.name)
  IN IF fn.node # "name" \/ Len(fn.name) # 1 THEN Callable(mem, Eval(fn, mem, place))
     ELSE IF found = {} /\ ~IsBuiltinFunction(fn.name) THEN Refuse(mem, "E199")
     ELSE Callable(mem, ReadName(mem, place, fn.name))

\* evalCall
CallArgs(fn, given, place) ==
  IF given.ok THEN CallValues(fn, given.args, given.mem, place) ELSE Result(Null, given.mem)

Call(e, mem, place) ==
  LET deletes == e.fn.node = "name" /\ e.fn.name = <<"delete">> /\ Find(mem, place, e.fn.name) = {}
      with(callee) == IF callee.val.kind = "function"
                      THEN CallArgs(callee.val, Args(e.args, place, NoArgs(callee.mem)), place)
                      ELSE Result(Null, callee.mem)
  IN IF deletes THEN DeleteCall(e.args, mem, place) ELSE with(Callee(e.fn, mem, place))

-----------------------------------------------------------------------------
(* Function bodies.  Executing statements gives [val, end, mem]: the value *)
(* of the last expression, and how they ended: "", "return", "break" or    *)
(* "continue".                                                             *)
Ran(v, end, mem) == [val |-> v, end |-> end, mem |-> mem]

BinaryBy(op) == CASE op = "+=" -> "+" [] op = "-=" -> "-" [] op = "*=" -> "*" [] op = "%=" -> "%"

\* executeLocalAssign: x += e needs a variable x, which may be a global.
LocalAssign(s, mem, place) ==
  LET found == Find(mem, place, s.name)
      sum(r) == IF s.by = "=" THEN r ELSE Deliver(r.mem, BinaryOp(BinaryBy(s.by), Only(found), r.val))
      assign(r) == AssignLocal(r.mem, place, s.name, r.val)
  IN IF s.by # "=" /\ (found = {} \/ found = {Unassigned}) THEN Refuse(mem, "E100").mem
     ELSE assign(sum(Eval(s.expr, mem, place)))

\* executeFunctionBody; last is the value so far.
Execute(body, mem, place, last) ==
  LET s == Head(body)
      r == Eval(s.expr, mem, place)
      on(m, v) == Execute(Tail(body), m, place, v)
      after(run) == IF run.end = "" THEN on(run.mem, run.val) ELSE run
  IN IF body = <<>> \/ mem.aborted THEN Ran(last, "", mem)
     ELSE CASE s.op = "assign" -> on(LocalAssign(s, mem, place), last)
            [] s.op = "return" -> Ran(r.val, "return", r.mem)
            [] s.op = "expr"   -> on(r.mem, r.val)
            [] s.op \in {"break", "continue"} -> Ran(last, s.op, mem)
            [] s.op = "if" -> after(Branches(<<[cond |-> s.cond, body |-> s.then]>> \o s.elifs, s.other, mem, place, last))
            [] s.op = "for" -> IF Iterable(r.val) THEN after(Rounds(s, Elements(r.val), 0, r.mem, place, Null))
                               ELSE on(Refuse(r.mem, "E106").mem, Null)
            [] s.op = "while" -> after(Rounds(s, <<>>, 0, mem, place, Null))

\* The branches of an if: one whose condition fails ends it.
Branches(branches, other, mem, place, last) ==
  LET test == Condition(Head(branches).cond, mem, place)
  IN IF branches = <<>> THEN IF other = <<>> THEN Ran(last, "", mem) ELSE Execute(other, mem, place, Null)
     ELSE IF test.failed THEN Ran(last, "", test.mem)
     ELSE IF test.holds THEN Execute(Head(branches).body, test.mem, place, Null)
     ELSE Branches(Tail(branches), other, test.mem, place, last)

\* executeFuncForStmt, executeFuncWhileStmt: after n rounds, of a for with
\* the items left.
Rounds(s, items, n, mem, place, last) ==
  LET loop == s.op = "for"
      test == Condition(s.expr, mem, place)
      now == IF loop THEN AssignLocal(mem, place, s.name, Head(items)) ELSE test.mem
      run == Execute(s.body, now, place, Null)
  IN IF mem.aborted \/ (loop /\ items = <<>>) THEN Ran(last, "", mem)
     ELSE IF n >= MaxLoop THEN Ran(last, "", Refuse(mem, "E106").mem)
     ELSE IF ~loop /\ ~test.holds THEN Ran(last, "", test.mem)
     ELSE IF run.end = "return" THEN run
     ELSE IF run.end = "break" THEN Ran(run.val, "", run.mem)
     ELSE Rounds(s, IF loop THEN Tail(items) ELSE items, n + 1, run.mem, place, run.val)

-----------------------------------------------------------------------------
\* evalExprWithCtx
Node(e, mem, place) ==
  LET listed(r) == Result(IF e.node = "list" THEN List(r.vals) ELSE Tuple(r.vals), r.mem)
      signed(of) == Deliver(of.mem, UnaryOp(e.by, of.val))
      member(of) == IF IsTable(of.val) THEN Deliver(of.mem, ColumnValue(of.val, (e.field \o <<"">>)[1]))
                    ELSE Refuse(of.mem, "E106")
      chosen(test) == IF test.failed THEN Result(Null, test.mem)
                      ELSE Eval(IF test.holds THEN e.then ELSE e.other, test.mem, place)
  IN CASE e.node = "name" -> IF Len(e.name) = 1 THEN ReadName(mem, place, e.name) ELSE ReadQualified(mem, place, e.name)
       [] e.node = "num"   -> Result(IntVal(e.val), mem)
       [] e.node = "str"   -> Result(StrVal(e.words), mem)
       [] e.node = "bool"  -> Result(BoolVal(e.truth), mem)
       [] e.node \in {"list", "tuple"} -> listed(EvalAll(e.items, FALSE, place, NoValues(mem)))
       [] e.node = "dict"  -> EvalDict(e.items, mem, place, <<>>)
       [] e.node = "range" -> RangeBetween(e, mem, place)
       [] e.node = "unary" -> signed(Eval(e.of, mem, place))
       [] e.node = "binary" -> Binary(e, mem, place)
       [] e.node = "index" -> Index(e, mem, place)
       [] e.node = "call"  -> Call(e, mem, place)
       [] e.node = "alias" -> Refuse(mem, "E106")
       [] e.node = "function" -> Closure(e, mem, place)
       [] e.node = "member" -> member(Eval(e.of, mem, place))
       [] e.node = "cond"  -> chosen(Condition(e.test, mem, place))

Eval(e, mem, place) ==
  LET kept(r) == IF r.mem.aborted THEN Result(Null, r.mem) ELSE r
  IN IF mem.aborted THEN Result(Null, mem) ELSE kept(Node(e, mem, place))
=============================================================================
