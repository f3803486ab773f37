------------------------------ MODULE Operators ------------------------------
(***************************************************************************)
(* The operators of expressions on values (eval/expr_binary.go,            *)
(* expr_sequence.go, expr_index.go, expr_dict.go).                         *)
(*                                                                         *)
(* Numbers are integers that do not overflow; the quotient, which is no    *)
(* integer, and the order of strings are left out, and so are the limits   *)
(* of the sizes of results.                                                *)
(***************************************************************************)
EXTENDS Tables, TLC

\* What was computed item by item, as a list.
AsList(outs) ==
  [val |-> List([i \in DOMAIN outs |-> outs[i].val]),
   errs |-> FlattenSeq([i \in DOMAIN outs |-> outs[i].errs])]

\* The pairs of a binary operation on sequences: the shorter one again from
\* its start, and none if one is empty.
Broadcast(l, r) ==
  LET longer(m, n) == IF m = 0 \/ n = 0 THEN 0 ELSE IF m > n THEN m ELSE n
      item(xs, i) == xs[((i - 1) % Len(xs)) + 1]
      pairs(xs, ys) == [i \in 1..longer(Len(xs), Len(ys)) |-> <<item(xs, i), item(ys, i)>>]
  IN pairs(ToSeries(l), ToSeries(r))

RECURSIVE UnaryOp(_, _), BinaryOp(_, _, _), Comparison(_, _, _)

\* evalUnary, evalLogicalNot
UnaryOp(by, v) ==
  CASE by = "!" ->
         LET items == ToSeries(v)
             not == [i \in DOMAIN items |-> BoolVal(~Truthy(items[i]))]
         IN Warned(\E i \in DOMAIN items : Cast(items[i]), Out(IF IsSequence(v) THEN List(not) ELSE not[1]))
    [] by # "!" /\ IsSequence(v) -> AsList([i \in DOMAIN v.items |-> UnaryOp(by, v.items[i])])
    [] by # "!" /\ v.kind = "int" -> Out(IF by = "-" THEN IntVal(-v.val) ELSE v)
    [] OTHER -> Fail("E103")

\* evalLogicalBinary: both operands have been evaluated.
Logical(by, l, r) ==
  LET holds(p) == IF by = "&" THEN Truthy(p[1]) /\ Truthy(p[2]) ELSE Truthy(p[1]) \/ Truthy(p[2])
      each(pairs) == [i \in DOMAIN pairs |-> BoolVal(holds(pairs[i]))]
      casts(pairs) == \E i \in DOMAIN pairs : Cast(pairs[i][1]) \/ Cast(pairs[i][2])
      mismatch(pairs) == pairs # <<>> /\ Len(ToSeries(l)) # Len(ToSeries(r))
      given(pairs) ==
        Warned(casts(pairs) \/ mismatch(pairs),
               Out(IF IsSequence(l) \/ IsSequence(r) THEN List(each(pairs)) ELSE each(pairs)[1]))
  IN given(Broadcast(l, r))

Repeated(s, n) == FlattenSeq([i \in 1..n |-> s])

\* evalParamTupleBinary
TupleOp(by, l, r) ==
  IF by = "+" /\ l.kind = "tuple" /\ r.kind = "tuple" THEN Out(Tuple(l.items \o r.items))
  ELSE IF by = "*" /\ l.kind = "tuple" /\ r.kind = "int"
  THEN IF r.val >= 0 THEN Out(Tuple(Repeated(l.items, r.val))) ELSE Fail("E106")
  ELSE Fail("E106")

\* Value.String, of what is no container.
Words(v) ==
  CASE v.kind = "string" -> v.words
    [] v.kind = "int"    -> <<ToString(v.val)>>
    [] v.kind = "bool"   -> <<IF v.truth THEN "true" ELSE "false">>
    [] v.kind = "null"   -> <<>>

\* Strings are joined with anything, and repeated, from either side.
StringOp(by, l, r) ==
  LET s == IF l.kind = "string" THEN l ELSE r
      n == IF l.kind = "string" THEN r ELSE l
  IN IF by = "+" THEN Out(StrVal(Words(l) \o Words(r)))
     ELSE IF by = "*" /\ n.kind = "int"
     THEN IF n.val >= 0 THEN Out(StrVal(Repeated(s.words, n.val))) ELSE Fail("E105")
     ELSE Fail("E105")

\* The remainder has the sign of the dividend.
Remainder(a, b) ==
  LET n == IF b < 0 THEN -b ELSE b IN IF a < 0 THEN -((-a) % n) ELSE a % n

IntOp(by, a, b) ==
  CASE by = "+" -> Out(IntVal(a + b))
    [] by = "-" -> Out(IntVal(a - b))
    [] by = "*" -> Out(IntVal(a * b))
    [] by = "%" -> IF b = 0 THEN Fail("E107") ELSE Out(IntVal(Remainder(a, b)))

\* evalBinary
BinaryOp(by, l, r) ==
  LET either(kind) == l.kind = kind \/ r.kind = kind
      each(pairs) == AsList([i \in DOMAIN pairs |-> BinaryOp(by, pairs[i][1], pairs[i][2])])
  IN CASE by \in {"&", "|"} -> Logical(by, l, r)
       [] by \notin {"&", "|"} /\ either("function") -> Fail("E106")
       [] by \notin {"&", "|"} /\ ~either("function") ->
            IF either("dict")
            THEN IF by = "+" /\ l.kind = r.kind
                 THEN Out(FoldLeft(LAMBDA d, e : Put(d, e[1], e[2]), l, r.entries))
                 ELSE Fail("E106")
            ELSE IF either("table")
            THEN IF by \in {"+", "*"} /\ l.kind = r.kind THEN TableOp(by, l, r) ELSE Fail("E106")
            ELSE IF either("tuple") THEN TupleOp(by, l, r)
            ELSE IF either("list") THEN each(Broadcast(l, r))
            ELSE IF either("string") THEN StringOp(by, l, r)
            ELSE IF l.kind = "int" /\ r.kind = "int" THEN IntOp(by, l.val, r.val)
            ELSE Fail("E106")

\* evalCompare: what cannot be compared is reported, and false.
Comparison(by, l, r) ==
  LET each(pairs) == AsList([i \in DOMAIN pairs |-> Comparison(by, pairs[i][1], pairs[i][2])])
      holds(a, b) == CASE by = "<" -> a < b [] by = "<=" -> a <= b [] by = ">" -> a > b [] by = ">=" -> a >= b
  IN CASE IsSequence(l) \/ IsSequence(r) -> each(Broadcast(l, r))
       [] by \in {"==", "!="} /\ {l.kind, r.kind} \cap {"list", "tuple", "function"} = {} ->
            Out(BoolVal(Equal(l, r) = (by = "==")))
       [] by \notin {"==", "!="} /\ l.kind = "int" /\ r.kind = "int" -> Out(BoolVal(holds(l.val, r.val)))
       [] OTHER -> [Fail("E110") EXCEPT !.val = BoolVal(FALSE)]

-----------------------------------------------------------------------------
\* evalRangeCall, evalRangeInt
RangeOp(args) ==
  LET n == Len(args)
      start == IF n = 1 THEN 0 ELSE args[1].val
      stop == IF n = 1 THEN args[1].val ELSE args[2].val
      step == IF n = 3 THEN args[3].val ELSE IF start > stop THEN -1 ELSE 1
      span == IF step > 0 THEN stop - start ELSE start - stop
      size == IF step > 0 THEN step ELSE -step
      count == IF (n = 1 /\ stop < 0) \/ span <= 0 THEN 0 ELSE (span + size - 1) \div size
  IN IF \E i \in DOMAIN args : args[i].kind = "null" THEN Out(Null)
     ELSE IF (\E i \in DOMAIN args : args[i].kind # "int") \/ step = 0 THEN Fail("E106")
     ELSE Out(List([i \in 1..count |-> IntVal(start + (i - 1) * step)]))

AllOf(kind, v) == \A i \in DOMAIN v.items : v.items[i].kind = kind
Vals(v) == [i \in DOMAIN v.items |-> v.items[i].val]
Truths(v) == [i \in DOMAIN v.items |-> v.items[i].truth]
\* A mask that does not cover n items evenly.
Ragged(n, mask) == mask.items # <<>> /\ n % Len(mask.items) # 0

\* evalSequenceIndex with its selector: an index counts from either end.
SequenceIndex(v, selector) ==
  LET n == Len(v.items)
      at(k) == IF k < 0 THEN n + k ELSE k
      take(ks) == IF \A i \in DOMAIN ks : at(ks[i]) \in 0..(n - 1)
                  THEN Out(Like(v, [i \in DOMAIN ks |-> v.items[at(ks[i]) + 1]]))
                  ELSE Fail("E106")
  IN CASE selector.kind = "int" ->
            IF at(selector.val) \in 0..(n - 1) THEN Out(v.items[at(selector.val) + 1]) ELSE Fail("E106")
       [] IsSequence(selector) ->
            IF AllOf("int", selector) THEN take(Vals(selector))
            ELSE IF AllOf("bool", selector) THEN Warned(Ragged(n, selector), take(Masked(n, Truths(selector))))
            ELSE Fail("E106")
       [] OTHER -> Fail("E106")

\* A string as a name; one of several words is no name.
Text(v) == IF Len(v.words) = 1 THEN v.words[1] ELSE ""

\* evalCombIndex with one selector: a column, or rows, counted from 0.
TableIndex(t, selector) ==
  CASE selector.kind = "string" -> Select(t, <<Text(selector)>>)
    [] selector.kind = "list" ->
         IF AllOf("int", selector) THEN Gather(t, Vals(selector))
         ELSE IF AllOf("bool", selector) 
         THEN Warned(Ragged(Len(t.rows), selector), Gather(t, Masked(Len(t.rows), Truths(selector))))
         ELSE Fail("E106")
    [] OTHER -> Fail("E106")

\* dictKeyFromValue, evalDictIndex
DictIndex(d, key) == IF Keyed(d, key) = {} THEN Fail("E106") ELSE Out(ValueAt(d, key))

\* IterableElements: a dictionary has its keys.
Iterable(v) == IsSequence(v) \/ v.kind = "dict"
Elements(v) == IF v.kind = "dict" THEN [i \in DOMAIN v.entries |-> v.entries[i][1]] ELSE v.items
=============================================================================
