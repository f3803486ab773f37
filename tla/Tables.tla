------------------------------- MODULE Tables -------------------------------
(***************************************************************************)
(* Values of the language and its table algebra (eval/values.go,           *)
(* table_eval.go, comb_eval.go, comb_value.go, expr_index.go,              *)
(* table_rename.go, table_rbind.go, unique.go, sample.go).                 *)
(*                                                                         *)
(* A table is a sequence of rows; a row gives every column a cell, which   *)
(* is a value and a projection key <<source, index>>: where the value came *)
(* from.  Selecting columns of a table drops the rows that repeat the keys *)
(* of an earlier row, so the keys, not the values, tell what a repetition  *)
(* is.  Whoever makes cells out of nothing takes a new source; sources are *)
(* given here by src, unique to the evaluation.                            *)
(*                                                                         *)
(* A string is a sequence of words.  A dictionary is a sequence of entries *)
(* <<key, value>>.  Floating-point numbers are left out.                   *)
(*                                                                         *)
(* An operation gives [val, errs]: a value, and the codes of the errors it *)
(* reports, in turn; after an error the value is mostly Null.              *)
(***************************************************************************)
EXTENDS Integers, Sequences, FiniteSets, SequencesExt

Nothing == [x \in {} |-> x]

IntVal(n)       == [kind |-> "int", val |-> n]
StrVal(words)   == [kind |-> "string", words |-> words]
BoolVal(b)      == [kind |-> "bool", truth |-> b]
List(items)     == [kind |-> "list", items |-> items]
Tuple(items)    == [kind |-> "tuple", items |-> items]
Dict(entries)   == [kind |-> "dict", entries |-> entries]
Table(order, rows) == [kind |-> "table", order |-> order, rows |-> rows]
Null            == [kind |-> "null"]

IsTable(v)    == v.kind = "table"
IsSequence(v) == v.kind \in {"list", "tuple"}
IsScalar(v)   == v.kind \in {"int", "string", "bool"}
HasNestedList(v) == IsSequence(v) /\ \E i \in DOMAIN v.items : IsSequence(v.items[i])

Out(v)     == [val |-> v, errs |-> <<>>]
Fail(code) == [val |-> Null, errs |-> <<code>>]

\* A warning, about a cast or lengths that do not match, is reported like an
\* error, but hinders little.
Warned(warns, out) == IF warns THEN [out EXCEPT !.errs = Append(@, "W101")] ELSE out
Errors(codes) == SelectSeq(codes, LAMBDA c : c # "W101")
Uneven(m, n) == m > 0 /\ n > 0 /\ m % n # 0 /\ n % m # 0

\* The same kind of sequence, of other items.
Like(v, items) == [v EXCEPT !.items = items]

\* ToSeries: the values a column is made of.
ToSeries(v) == IF IsSequence(v) THEN v.items ELSE <<v>>

\* truthy: what is no boolean is cast.
Cast(v) == v.kind # "bool"
Truthy(v) ==
  CASE v.kind = "bool"   -> v.truth
    [] v.kind = "int"    -> v.val # 0
    [] v.kind = "string" -> v.words # <<>>
    [] IsSequence(v)     -> v.items # <<>>
    [] v.kind = "dict"   -> v.entries # <<>>
    [] IsTable(v)        -> v.rows # <<>>
    [] OTHER             -> v.kind # "null"

Keyed(v, key) == {i \in DOMAIN v.entries : v.entries[i][1] = key}
\* Dict.Set: a new key comes last, a known one keeps its place.
Put(v, key, val) ==
  IF Keyed(v, key) = {} THEN Dict(Append(v.entries, <<key, val>>))
  ELSE Dict([i \in DOMAIN v.entries |-> IF i \in Keyed(v, key) THEN <<key, val>> ELSE v.entries[i]])
DictOf(entries) == FoldLeft(LAMBDA d, e : Put(d, e[1], e[2]), Dict(<<>>), entries)
ValueAt(v, key) == v.entries[CHOOSE i \in Keyed(v, key) : TRUE][2]

\* Equal: the cells of tables by their values, dictionaries in any order.
RECURSIVE Equal(_, _)
Equal(a, b) ==
  CASE a.kind # b.kind -> FALSE
    [] a.kind \in {"list", "tuple"} ->
            Len(a.items) = Len(b.items) /\ \A i \in DOMAIN a.items : Equal(a.items[i], b.items[i])
    [] a.kind = "dict" ->
            /\ Len(a.entries) = Len(b.entries)
            /\ \A i \in DOMAIN a.entries :
                 Keyed(b, a.entries[i][1]) # {} /\ Equal(a.entries[i][2], ValueAt(b, a.entries[i][1]))
    [] a.kind = "table" ->
            /\ a.order = b.order /\ Len(a.rows) = Len(b.rows)
            /\ \A r \in DOMAIN a.rows : \A c \in DOMAIN a.rows[r] :
                 Equal(a.rows[r][c].val, b.rows[r][c].val)
    [] OTHER -> a = b

Columns(t) == ToSet(t.order)
Cell(v, source, index) == [val |-> v, key |-> <<source, index>>]
Column(t, name) == [r \in DOMAIN t.rows |-> t.rows[r][name].val]

-----------------------------------------------------------------------------
\* evalNamedTableValueColumns, buildTableFromColumns: every column is a
\* source of its own, and the shorter ones are repeated, with the keys of
\* the elements they repeat.
ColumnTable(names, values, src) ==
  LET series == [c \in DOMAIN names |-> ToSeries(values[c])]
      longest == CHOOSE n \in {Len(series[c]) : c \in DOMAIN names} :
                   \A c \in DOMAIN names : Len(series[c]) <= n
      column(name) == CHOOSE c \in DOMAIN names : names[c] = name
      cell(name, r) == LET c == column(name)
                           i == (r - 1) % Len(series[c])
                       IN Cell(series[c][i + 1], <<src, c>>, i)
  IN IF \/ ~IsInjective(names)
        \/ \E c \in DOMAIN values : IsTable(values[c])
        \/ longest > 0 /\ \E c \in DOMAIN names : series[c] = <<>>
     THEN Fail("E106")
     ELSE Warned(\E c \in DOMAIN names : Uneven(longest, Len(series[c])),
                 Out(Table(names, [r \in 1..longest |-> [name \in ToSet(names) |-> cell(name, r)]])))

\* tableFromRowDictList and read_csv: one source for the rows, so that the
\* columns of a row have one key.
RowTable(names, rows, src) ==
  Table(names, [r \in DOMAIN rows |->
                 [name \in ToSet(names) |-> Cell(rows[r][name], <<src, 0>>, r - 1)]])

-----------------------------------------------------------------------------
(***************************************************************************)
(* mergeRows: a column of both rows must have one value; the cell of the   *)
(* left row is kept.  Rows that disagree are an error, and left out.       *)
(***************************************************************************)
Agree(a, b) == \A c \in DOMAIN a \cap DOMAIN b : Equal(a[c].val, b[c].val)
MergeRows(a, b) == [c \in DOMAIN a \cup DOMAIN b |-> IF c \in DOMAIN a THEN a[c] ELSE b[c]]

MergedOrder(s, t) == s.order \o SelectSeq(t.order, LAMBDA c : c \notin Columns(s))

\* The table of the given pairs of rows.
Merged(s, t, pairs) ==
  LET merged(agreed) ==
        [val |-> Table(MergedOrder(s, t), [i \in DOMAIN agreed |-> MergeRows(agreed[i][1], agreed[i][2])]),
         errs |-> [i \in 1..(Len(pairs) - Len(agreed)) |-> "E042"]]
  IN merged(SelectSeq(pairs, LAMBDA p : Agree(p[1], p[2])))

\* productRows: every row of the left table with every row of the right.
ProductPairs(s, t) ==
  [i \in 1..(Len(s.rows) * Len(t.rows)) |->
    <<s.rows[((i - 1) \div Len(t.rows)) + 1], t.rows[((i - 1) % Len(t.rows)) + 1]>>]

\* rowWiseMergeRows: row by row, the shorter table again from its start.
RowWisePairs(s, t) ==
  LET m == Len(s.rows)
      n == Len(t.rows)
  IN [i \in 1..(IF m = 0 \/ n = 0 THEN 0 ELSE IF m > n THEN m ELSE n) |->
       <<s.rows[((i - 1) % m) + 1], t.rows[((i - 1) % n) + 1]>>]

TableOp(by, s, t) ==
  IF by = "*" THEN Merged(s, t, ProductPairs(s, t))
  ELSE Warned(Uneven(Len(s.rows), Len(t.rows)), Merged(s, t, RowWisePairs(s, t)))

\* combRowsFromNamedValue: a value as a table of one column.
Named(name, v, src) ==
  IF IsTable(v) THEN v
  ELSE Table(<<name>>, [r \in DOMAIN ToSeries(v) |->
                         [c \in {name} |-> Cell(ToSeries(v)[r], <<src, name>>, r - 1)]])

-----------------------------------------------------------------------------
\* CombProject: the given columns; of the rows with one tuple of keys, the first.
Keys(row, cols) == [c \in cols |-> row[c].key]
Project(t, names) ==
  LET cols == ToSet(names)
      order == FoldLeft(LAMBDA seen, c : IF c \in ToSet(seen) THEN seen ELSE Append(seen, c), <<>>, names)
      first == {r \in DOMAIN t.rows :
                  \A q \in 1..(r - 1) : Keys(t.rows[q], cols) # Keys(t.rows[r], cols)}
      kept == SelectSeq([r \in DOMAIN t.rows |-> r], LAMBDA r : r \in first)
  IN Table(order, [i \in DOMAIN kept |-> [c \in cols |-> t.rows[kept[i]][c]]])

Select(t, names) ==
  IF ToSet(names) \subseteq Columns(t) THEN Out(Project(t, names)) ELSE Fail("E106")

\* renameTableValue: the cells keep their keys.
Rename(t, new) ==
  LET renamed(c) == IF c \in DOMAIN new THEN new[c] ELSE c
      order == [i \in DOMAIN t.order |-> renamed(t.order[i])]
      old(c) == t.order[CHOOSE i \in DOMAIN order : order[i] = c]
  IN IF ~IsTable(t) \/ ~(DOMAIN new \subseteq Columns(t)) \/ ~IsInjective(order) THEN Fail("E106")
     ELSE Out(Table(order, [r \in DOMAIN t.rows |-> [c \in ToSet(order) |-> t.rows[r][old(c)]]]))

\* The rows keep the keys they came with.
RebasedBug(row, src, argument) == row

\* rbindTables: the rows of all arguments; every argument gets new sources,
\* so that rows of two arguments never count as repetitions.
Rebased(row, src, argument) ==
  [c \in DOMAIN row |-> [row[c] EXCEPT !.key[1] = <<src, argument, @>>]]
Rbind(tables, src) ==
  IF \E i \in DOMAIN tables : ~IsTable(tables[i]) \/ Columns(tables[i]) # Columns(tables[1])
  THEN Fail("E106")
  ELSE LET rows(i) == [r \in DOMAIN tables[i].rows |-> Rebased(tables[i].rows[r], src, i)]
       IN Out(Table(tables[1].order, FlattenSeq([i \in DOMAIN tables |-> rows(i)])))

-----------------------------------------------------------------------------
\* evalCombGatherRows, head, tail, and sample without replacement: rows by
\* their index, from 0; a row taken twice keeps its keys.
Gather(t, picks) ==
  IF \A i \in DOMAIN picks : picks[i] + 1 \in DOMAIN t.rows
  THEN Out(Table(t.order, [i \in DOMAIN picks |-> t.rows[picks[i] + 1]]))
  ELSE Fail("E106")

\* sampleTable with replacement: every row drawn is a row of its own
\* (rebaseRowsByOutputRow).
Redrawn(t, picks, src) ==
  Out(Table(t.order, [i \in DOMAIN picks |->
        [c \in Columns(t) |-> Cell(t.rows[picks[i] + 1][c].val, <<src, 0>>, i - 1)]]))

\* The indices, from 0, of the items that a mask keeps, which is repeated
\* as often as needed.
Masked(n, bits) ==
  SelectSeq([i \in 1..n |-> i - 1], LAMBDA i : bits # <<>> /\ bits[(i % Len(bits)) + 1])

\* duplicatedSequenceMask, duplicatedTableMask: which items, or rows, equal
\* an earlier one.
Duplicated(v) ==
  LET same(a, b) == IF IsTable(v) THEN \A c \in Columns(v) : Equal(v.rows[a][c].val, v.rows[b][c].val)
                    ELSE Equal(v.items[a], v.items[b])
  IN [i \in IF IsTable(v) THEN DOMAIN v.rows ELSE DOMAIN v.items |-> \E j \in 1..(i - 1) : same(j, i)]

\* unique: the others.
Distinct(v) ==
  LET others(mask) == SelectSeq([i \in DOMAIN mask |-> i], LAMBDA i : ~mask[i])
      taken(kept) == IF IsTable(v) THEN Gather(v, [i \in DOMAIN kept |-> kept[i] - 1])
                     ELSE Out(Like(v, [i \in DOMAIN kept |-> v.items[kept[i]]]))
  IN taken(others(Duplicated(v)))

-----------------------------------------------------------------------------
\* In a column of a table, a key stands for one value.
KeysDetermineValues(t) ==
  \A c \in Columns(t) : \A r, q \in DOMAIN t.rows :
    t.rows[r][c].key = t.rows[q][c].key => t.rows[r][c].val = t.rows[q][c].val

\* A product repeats the rows of its factors, and the columns of a factor
\* select exactly its rows; a table bound to itself has every row twice.
RepetitionsUndone(t, u) ==
  /\ (Columns(t) \cap Columns(u) = {} /\ u.rows # <<>>) =>
       Project(TableOp("*", t, u).val, t.order) = Project(t, t.order)
  /\ (Columns(t) \cap Columns(u) = {} /\ t.rows # <<>>) =>
       Project(TableOp("*", t, u).val, u.order) = Project(u, u.order)
  /\ \A c \in Columns(t) :
       /\ Project(Project(t, t.order), <<c>>) = Project(t, <<c>>)
       /\ Len(Project(Rbind(<<t, t>>, <<"twice">>).val, <<c>>).rows) = 2 * Len(Project(t, <<c>>).rows)
=============================================================================
