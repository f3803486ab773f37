----------------------------- MODULE Statements -----------------------------
(***************************************************************************)
(* The parser of files (parser.go, parser_toplevel.go, parser_blocks.go,   *)
(* parser_clauses.go, parser_with_items.go, parser_fsub.go,                *)
(* parser_bodies_analyse.go) and its scanners (parser_scan.go,             *)
(* statement_scan.go).                                                     *)
(*                                                                         *)
(* The file is read from left to right: a scanner finds where a statement, *)
(* a header or a block ends, by looking at brackets, strings and comments, *)
(* and what it found is lexed and parsed by itself (Expressions).  After   *)
(* an error the parser goes on behind the statement.                       *)
(*                                                                         *)
(* The layout of headers, which is kept for printing, is left out.         *)
(***************************************************************************)
EXTENDS Parsing

CONSTANT Expr(_, _)      \* the parser of expressions

-----------------------------------------------------------------------------
(* Scanners. *)
RECURSIVE Skip(_, _, _), StatementEnd(_, _, _), SkipLines(_, _, _),
          ExpansionEnd(_, _, _), DoubleEnd(_, _), BlockEnd(_, _, _, _)

Skip(text, i, words) ==
  IF WordAt(text, i) = "#" THEN Skip(text, LineEnd(text, i), words)
  ELSE IF WordAt(text, i) \in words THEN Skip(text, i + 1, words) ELSE i

SkipTrivia(text, i) == Skip(text, i, {"\n", ";"})
SkipInline(text, i) == Skip(text, i, {"\n"})

\* Open brackets, by kind; one that closes nothing is ignored.
Opening == [w \in {"{", "(", "["} |-> 0]
Partner(w) == CASE w = "}" -> "{" [] w = ")" -> "(" [] w = "]" -> "["
Counted(open, w) ==
  IF w \in DOMAIN open THEN [open EXCEPT ![w] = @ + 1]
  ELSE IF w \in {"}", ")", "]"} /\ open[Partner(w)] > 0 THEN [open EXCEPT ![Partner(w)] = @ - 1]
  ELSE open

\* scanTopLevelStatementOffsets: where the statement ends, and where the
\* next one begins.  A newline, `;` or comment ends it outside of brackets,
\* a brace that closes nothing ends it anywhere.
Ends(end, next) == [end |-> end, next |-> next]

\* hasTrailingBackslashContinuation, of the line that ends at i.
Continued(text, i) == WordAt(text, i - 1) = "\\" /\ WordAt(text, i - 2) # "\\"

\* A newline ends the statement, whatever is open.
StatementEndBug(text, i, open) ==
  LET w == WordAt(text, i)
  IN IF i > Len(text) THEN Ends(i, i)
     ELSE IF w = "}" /\ open["{"] = 0 THEN Ends(i, i)
     ELSE IF w \in {"\n", ";"} THEN Ends(i, i + 1)
     ELSE IF w \in Quotes THEN StatementEnd(text, QuoteEnd(text, i) + 1, open)
     ELSE StatementEnd(text, i + 1, Counted(open, w))

StatementEnd(text, i, open) ==
  LET w == WordAt(text, i)
      outside == open = Opening
      line == LineEnd(text, i)
  IN IF i > Len(text) THEN Ends(Len(text) + 1, Len(text) + 1)
     ELSE IF w = "}" /\ open["{"] = 0 THEN Ends(i, i)
     ELSE IF w = ";" /\ outside THEN Ends(i, i + 1)
     ELSE IF w = "\n" /\ outside /\ ~Continued(text, i) THEN Ends(i, i + 1)
     ELSE IF w = "#" THEN IF outside THEN Ends(i, line + 1) ELSE StatementEnd(text, line, open)
     ELSE IF w \in Quotes THEN StatementEnd(text, QuoteEnd(text, i) + 1, open)
     ELSE StatementEnd(text, i + 1, Counted(open, w))

\* readTopLevelStatement: something is read, be it the blank behind the
\* keyword that the statement began with; or, if there is none, the brace.
ReadTo(text, i, scan) == [at |-> scan.next] @@ Lex(Slice(text, i, scan.end))

StatementScan(text, i) ==
  LET scan == StatementEnd(text, i, Opening)
  IN IF scan.next > i \/ i > Len(text) THEN scan ELSE Ends(i + 1, i + 1)

Statement(text, i) == ReadTo(text, i, StatementScan(text, i))
Remainder(text, i) ==
  ReadTo(text, i, IF WordAt(text, i) \in Tight THEN StatementScan(text, i)
                  ELSE StatementEnd(text, i, Opening))

\* ${...}, with the expansions and strings in it: the place behind it, or 0.
ExpansionEnd(text, i, depth) ==
  LET w == WordAt(text, i)
  IN IF i > Len(text) THEN 0
     ELSE IF w = "\\" THEN ExpansionEnd(text, i + 2, depth)
     ELSE IF w \in Quotes THEN ExpansionEnd(text, QuoteEnd(text, i) + 1, depth)
     ELSE IF w = "$" /\ WordAt(text, i + 1) = "{" THEN ExpansionEnd(text, i + 2, depth + 1)
     ELSE IF w # "}" THEN ExpansionEnd(text, i + 1, depth)
     ELSE IF depth > 1 THEN ExpansionEnd(text, i + 1, depth - 1)
     ELSE i + 1

Expansion(text, i) ==
  IF WordAt(text, i) = "$" /\ WordAt(text, i + 1) = "{" THEN ExpansionEnd(text, i + 2, 1) ELSE 0

\* The end of a double-quoted shell string, from a place inside of it.
DoubleEnd(text, i) ==
  IF i > Len(text) \/ WordAt(text, i) = "\"" THEN i
  ELSE IF Expansion(text, i) # 0 THEN DoubleEnd(text, Expansion(text, i))
  ELSE IF WordAt(text, i) = "\\" THEN DoubleEnd(text, i + 2)
  ELSE DoubleEnd(text, i + 1)

\* parseHereDocRedirect: the delimiter after <<, as a sequence of at most one.
HereDoc(text, i) ==
  LET at == IF WordAt(text, i + 2) = "-" THEN i + 3 ELSE i + 2
      w == WordAt(text, at)
  IN IF WordAt(text, i - 1) = "<" \/ WordAt(text, i + 1) # "<" \/ w = "<" THEN <<>>
     ELSE IF w \in Quotes /\ QuoteEnd(text, at) <= Len(text)
     THEN <<Slice(text, at + 1, QuoteEnd(text, at))>>
     ELSE IF at <= Len(text) /\ IsWord(w) THEN <<<<w>>>> ELSE <<>>

\* The lines of the documents are skipped, each up to its delimiter.
SkipLines(text, i, docs) ==
  LET end == LineEnd(text, i)
  IN IF docs = <<>> \/ i > Len(text) THEN i
     ELSE SkipLines(text, end + 1, IF Slice(text, i, end) = Head(docs) THEN Tail(docs) ELSE docs)

\* readBalancedBlockShared: the brace that closes the block, or 0.
BlockEnd(text, i, depth, docs) ==
  LET w == WordAt(text, i)
  IN IF i > Len(text) THEN 0
     ELSE IF w = "}" /\ depth = 1 THEN i
     ELSE CASE w = "}" -> BlockEnd(text, i + 1, depth - 1, docs)
            [] w = "{" -> BlockEnd(text, i + 1, depth + 1, docs)
            [] w = "#" -> BlockEnd(text, LineEnd(text, i), depth, docs)
            [] w = "'" -> BlockEnd(text, QuoteEnd(text, i) + 1, depth, docs)
            [] w = "\"" -> BlockEnd(text, DoubleEnd(text, i + 1) + 1, depth, docs)
            [] w = "\n" -> BlockEnd(text, SkipLines(text, i + 1, docs), depth, <<>>)
            [] w = "$" /\ Expansion(text, i) # 0 -> BlockEnd(text, Expansion(text, i), depth, docs)
            [] w = "<" -> BlockEnd(text, i + 1, depth, docs \o HereDoc(text, i))
            [] OTHER -> BlockEnd(text, i + 1, depth, docs)

\* Without the newlines at the end.
Trimmed(words) ==
  SubSeq(words, 1, Greatest({0} \cup {k \in DOMAIN words : words[k] # "\n"}))

\* readBalancedBlock: the block that begins with the brace at i.
BlockTo(text, i, end) ==
  IF end = 0 THEN Parsed(<<>>, Len(text) + 1, {"E025"})
  ELSE Parsed(Trimmed(Slice(text, i + 1, end)), end + 1, {})

Block(text, i) == BlockTo(text, i, BlockEnd(text, i + 1, 1, <<>>))

-----------------------------------------------------------------------------
(* Statements of tokens. *)
\* A whole expression; what is left over is an error.
AndNoMore(ts, of, code) ==
  [of EXCEPT !.errs = @ \cup IF TypeAt(ts, SkipSeparators(ts, of.at)) = "EOF" THEN {} ELSE {code}]
Whole(ts, i, code) == AndNoMore(ts, Expr(ts, i), code)

\* What a statement of tokens found, in the text.
InText(stmt, p) == Parsed(p.node, stmt.at, p.errs \cup stmt.errs)

AssignTokens(ts) ==
  LET assign(value) == [value EXCEPT !.node = Assignment(ts[1].val, ts[2].type, @)]
  IN IF TypeAt(ts, 1) # "IDENT" THEN Parsed(Pass, 1, {"E012"})
     ELSE Terminated(ts, assign(Expr(ts, 3)), Separators)

ExprTokens(ts) ==
  LET stmt(of) == [of EXCEPT !.node = [op |-> "expr", expr |-> @]]
  IN stmt(Whole(ts, SkipSeparators(ts, 1), "E061"))

SimpleStmt(stmt, assigned) ==
  InText(stmt, IF assigned THEN AssignTokens(stmt.tokens) ELSE ExprTokens(stmt.tokens))

\* parseUseStmt
Use(kind, source, alias, names) ==
  [op |-> "use", kind |-> kind, source |-> source, alias |-> alias, names |-> names]
NoUse == Use("none", <<>>, <<>>, <<>>)

RECURSIVE UseNames(_, _, _)
UseNames(ts, i, names) ==
  IF TypeAt(ts, i) # "IDENT" THEN Parsed(names, i, {"E430"})
  ELSE IF TypeAt(ts, i + 1) = "," THEN UseNames(ts, i + 2, Append(names, ts[i].val[1]))
  ELSE Parsed(Append(names, ts[i].val[1]), i + 1, {})

SourceKind(type) == CASE type = "IDENT" -> "bare" [] type = "STRING" -> "path" [] OTHER -> "none"

\* The last token of a use has to be the last of the statement.
AtEnd(ts, i) == IF TypeAt(ts, i) = "EOF" THEN {} ELSE {"E430"}

UseTokens(ts) ==
  LET names == UseNames(ts, 1, <<>>)
      kind == SourceKind(TypeAt(ts, names.at + 1))
      aliased == TypeAt(ts, 2) = "as" /\ TypeAt(ts, 3) = "IDENT"
  IN CASE TypeAt(ts, 1) = "STRING" ->
            IF aliased THEN Parsed(Use("path", ts[1].val, ts[3].val, <<>>), 4, AtEnd(ts, 4))
            ELSE Parsed(Use("path", ts[1].val, <<>>, <<>>), 2, {"E430"})
       [] TypeAt(ts, 1) # "IDENT" -> Parsed(NoUse, 1, {"E430"})
       [] TypeAt(ts, 1) = "IDENT" /\ TypeAt(ts, names.at) = "from" ->
            IF kind = "none" THEN Parsed(Use(kind, <<>>, <<>>, names.node), names.at, {"E430"})
            ELSE Parsed(Use(kind, ts[names.at + 1].val, <<>>, names.node), names.at + 2,
                        names.errs \cup AtEnd(ts, names.at + 2))
       [] OTHER -> IF Len(names.node) # 1 \/ TypeAt(ts, names.at) # "EOF"
                   THEN Parsed(Use("none", <<>>, <<>>, names.node), names.at, {"E430"})
                   ELSE Parsed(Use("bare", names.node, names.node, <<>>), names.at, names.errs)

UseStmt(stmt) == InText(stmt, UseTokens(stmt.tokens))

-----------------------------------------------------------------------------
(* Headers and blocks of control statements. *)
RECURSIVE ControlHeader(_, _, _, _, _)

\* parseControlConditionExpr, parseForHeaderTokens: the words before a body.
HeaderTokens(kind, ts) ==
  LET first == SkipSeparators(ts, 1)
      name == Expect(ts, first, "IDENT", "E080")
      in == Expect(ts, name.at, "in", "E080")
      loop == kind = "for"
      from == IF loop THEN in.at ELSE first
      header(of) == Parsed([name |-> IF loop THEN name.node ELSE <<>>, expr |-> of.node], of.at,
                           of.errs \cup IF loop THEN name.errs \cup in.errs ELSE {})
  IN header(IF TypeAt(ts, from) = "EOF" THEN Parsed(NoString, from, {"E080"}) ELSE Whole(ts, from, "E061"))

Header(kind, lexed) ==
  LET with(header) == [header EXCEPT !.errs = @ \cup lexed.errs] IN with(HeaderTokens(kind, lexed.tokens))

\* findControlBodyBrace, parseControlCondition, parseForHeaderCurrent: the
\* body begins with the first brace outside of other brackets with a header
\* before it that makes sense; braces of the header are tried, too.  Without
\* a body, the header is the line.
ControlHeader(text, start, i, kind, open) ==
  LET w == WordAt(text, i)
      line == StatementScan(text, start)
      last == i > Len(text)
      candidate == w = "{" /\ open["("] = 0 /\ open["["] = 0
      next == IF w \in Quotes THEN QuoteEnd(text, i) + 1 ELSE IF w = "#" THEN LineEnd(text, i) ELSE i + 1
      try(header) ==
        IF last THEN [found |-> FALSE, node |-> header.node, at |-> line.next, errs |-> header.errs \cup {"E080"}]
        ELSE IF header.errs = {} THEN [found |-> TRUE, node |-> header.node, at |-> i, errs |-> {}]
        ELSE ControlHeader(text, start, next, kind, Counted(open, w))
  IN IF last \/ candidate THEN try(Header(kind, Lex(Slice(text, start, IF last THEN line.end ELSE i))))
     ELSE ControlHeader(text, start, next, kind, Counted(open, w))

RECURSIVE StmtList(_, _, _), ElifStmts(_, _, _), Stmt(_, _, _), NameList(_, _, _),
          WithItems(_, _, _), ItemEnd(_, _, _, _, _), AliasAt(_, _, _),
          MapOpen(_, _), DoClauses(_, _, _, _),
          AnalyseAssigns(_, _, _), Columns(_, _, _)

\* Where a statement stands: in a control body, and in how many loops.
TopLevel == [control |-> FALSE, loops |-> 0]
InControl(ctx) == [ctx EXCEPT !.control = TRUE]
InLoop(ctx) == [control |-> TRUE, loops |-> ctx.loops + 1]

\* A body, from behind its brace.
Body(text, i, ctx) ==
  LET closed(stmts) == IF WordAt(text, stmts.at) = "}" THEN [stmts EXCEPT !.at = @ + 1]
                       ELSE [stmts EXCEPT !.errs = @ \cup {"E025"}]
  IN closed(StmtList(text, ctx, Parsed(<<>>, i, {})))

\* The header and, if there is one, the body.
HeaderBody(text, header, ctx) ==
  LET with(body) == Joined([cond |-> header.node.expr, name |-> header.node.name, body |-> body.node,
                            found |-> header.found], <<header, body>>)
  IN with(IF header.found THEN Body(text, header.at + 1, ctx) ELSE Parsed(<<>>, header.at, {}))

Controlled(text, i, kind, ctx) ==
  HeaderBody(text, ControlHeader(text, SkipInline(text, i), SkipInline(text, i), kind, Opening), ctx)

WithElif(before, branch) ==
  Joined(Append(before.node, [cond |-> branch.node.cond, body |-> branch.node.body]), <<before, branch>>)

ElifStmts(text, ctx, before) ==
  LET at == SkipTrivia(text, before.at)
  IN IF WordAt(text, at) # "elif" THEN [before EXCEPT !.at = at]
     ELSE ElifStmts(text, ctx, WithElif(before, Controlled(text, at + 1, "elif", InControl(ctx))))

ElseStmt(text, i, ctx) ==
  LET at == SkipTrivia(text, i)
  IN IF WordAt(text, at) = "{" THEN Body(text, at + 1, InControl(ctx))
     ELSE IF WordAt(text, at) = "if" THEN Dropped(Stmt(text, at, ctx))
     ELSE Parsed(<<>>, at, {"E080"})

IfNode(then, elifs, other) ==
  Joined([op |-> "if", cond |-> then.node.cond, then |-> then.node.body,
          elifs |-> elifs.node, other |-> other.node], <<then, elifs, other>>)

IfElifs(text, then, elifs, ctx) ==
  IfNode(then, elifs, IF WordAt(text, elifs.at) = "else" THEN ElseStmt(text, elifs.at + 1, ctx)
                      ELSE Parsed(<<>>, elifs.at, {}))

\* parseIfStmt: an if without a body has no branches either.
IfStmt(text, then, ctx) ==
  LET none == Parsed(<<>>, then.at, {})
  IN IF then.node.found THEN IfElifs(text, then, ElifStmts(text, ctx, none), ctx)
     ELSE IfNode(then, none, none)

\* parseForStmt, parseWhileStmt
LoopStmt(op, loop) ==
  LET rest == [op |-> op, expr |-> loop.node.cond, body |-> loop.node.body]
  IN [loop EXCEPT !.node = IF op = "for" THEN [name |-> loop.node.name] @@ rest ELSE rest]

ControlStmt(text, i, op, ctx) ==
  LET with(p) == IF op = "if" THEN IfStmt(text, p, ctx) ELSE LoopStmt(op, p)
  IN with(Controlled(text, i, op, IF op = "if" THEN InControl(ctx) ELSE InLoop(ctx)))

\* parseBreakStmt, parseContinueStmt
LoopEndStmt(op, stmt, ctx) ==
  Parsed([op |-> op], stmt.at,
         stmt.errs \cup (IF ctx.loops = 0 THEN {"E080"} ELSE {})
           \cup (IF TypeAt(stmt.tokens, SkipSeparators(stmt.tokens, 1)) = "EOF" THEN {} ELSE {"E061"}))

-----------------------------------------------------------------------------
(* do and analyse blocks. *)
\* parseRequiredIdent: any word, keywords too.
RequiredIdent(text, i, code) ==
  LET at == SkipInline(text, i)
  IN IF IsWord(WordAt(text, at)) /\ at <= Len(text) THEN Parsed(<<text[at]>>, at + 1, {})
     ELSE Parsed(<<>>, at, {code})

NameList(text, i, before) ==
  LET with(name) == LET comma == SkipInline(text, name.at)
                    IN IF WordAt(text, comma) # "," THEN [name EXCEPT !.node = before \o @, !.at = comma]
                       ELSE [NameList(text, comma + 1, before \o name.node) EXCEPT !.errs = @ \cup name.errs]
  IN with(RequiredIdent(text, i, "E028"))

Clauses == {"after", "with", "nproc", "fsub"}

\* nextWithItemBoundaryWord: a word in an item, with blanks around it.
Boundary(text, start, i) ==
  /\ i > start /\ i <= Len(text) /\ IsWord(text[i]) /\ WordAt(text, i + 1) \notin Tight
  /\ text[i - 1] \notin {"(", "[", "."}

\* readWithItemExprText: an item ends at a comma, a brace, a comment, the
\* next clause, or a word that is not part of an alias.
ItemEnd(text, start, i, open, aliased) ==
  LET w == WordAt(text, i)
      here == open = Opening
      word == here /\ Boundary(text, start, i)
  IN IF i > Len(text) \/ (here /\ w \in {",", "{", "#"}) THEN i
     ELSE IF word /\ (w \in Clauses \/ (w # "as" /\ ~aliased)) THEN i
     ELSE ItemEnd(text, start, IF w \in Quotes THEN QuoteEnd(text, i) + 1 ELSE i + 1,
                  Counted(open, w), aliased \/ (word /\ w = "as"))

\* ParseStandaloneExpr: what looks like a statement is refused.
Standalone(lexed) ==
  LET first == SkipSeparators(lexed.tokens, 1)
      refused == \/ TypeAt(lexed.tokens, first) \in {"EOF", "do", "analyse", "use"}
                 \/ /\ TypeAt(lexed.tokens, first) = "IDENT"
                    /\ TypeAt(lexed.tokens, first + 1) \in AssignOps
      judged(of) == IF of.errs \cup lexed.errs = {} THEN Parsed(<<of.node>>, 1, {})
                    ELSE Parsed(<<>>, 1, of.errs \cup lexed.errs \cup {"E023"})
  IN IF refused THEN Parsed(<<>>, 1, {"E023"}) ELSE judged(Whole(lexed.tokens, first, "E061"))

\* findTopLevelWithAlias: the first `as` outside of brackets and strings,
\* or 0.
AliasAt(words, k, open) ==
  LET w == WordAt(words, k)
  IN IF k >= Len(words) THEN 0
     ELSE IF w = "as" /\ open = Opening /\ Boundary(words, 1, k) THEN k
     ELSE AliasAt(words, IF w \in Quotes THEN QuoteEnd(words, k) + 1 ELSE k + 1, Counted(open, w))

\* splitWithAlias: the expression, and the alias that follows it.
WithItem(words) ==
  LET as == AliasAt(words, 1, Opening)
      alias == IF as = 0 THEN <<>> ELSE SelectSeq(SubSeq(words, as + 1, Len(words)), LAMBDA w : w # "\n")
      aliased(of) == [of EXCEPT !.node = [k \in DOMAIN @ |-> [expr |-> @[k], alias |-> alias]]]
  IN IF Len(alias) > 1 \/ \E k \in DOMAIN alias : ~IsWord(alias[k]) THEN Parsed(<<>>, 1, {"E023"})
     ELSE aliased(Standalone(Lex(IF as = 0 THEN words ELSE SubSeq(words, 1, as - 1))))

\* parseWithItems: the items before the first that is wrong.
WithItems(text, i, before) ==
  LET start == SkipInline(text, i)
      end == ItemEnd(text, start, start, Opening, FALSE)
      comma == SkipInline(text, end)
      behind(item) == IF item.node = <<>> THEN Parsed(before, end, item.errs)
                      ELSE IF WordAt(text, comma) # "," THEN Parsed(before \o item.node, comma, item.errs)
                      ELSE WithItems(text, comma + 1, before \o item.node)
  IN IF WordAt(text, start) \in {"", ",", "{"} THEN Parsed(before, start, {"E023"})
     ELSE behind(WithItem(Trimmed(Slice(text, start, end))))

\* parseNProcValue: a sign and digits; after something else it is skipped.
NProc(text, i) ==
  LET start == SkipInline(text, i)
      at == IF WordAt(text, start) \in {"+", "-"} THEN start + 1 ELSE start
      sign == IF WordAt(text, start) = "-" THEN -1 ELSE 1
  IN IF WordAt(text, at) \in Numerals THEN Parsed(<<sign * ValueOf(text[at])>>, at + 1, {})
     ELSE Parsed(<<>>, at, {"E034"})

\* parseFileSubstitution: a path, and a dictionary of patterns.
FSubPart(lexed) ==
  LET with(of) == [of EXCEPT !.errs = @ \cup lexed.errs]
  IN with(Whole(lexed.tokens, SkipSeparators(lexed.tokens, 1), "E035"))

FSubPath(of) ==
  IF of.node.node = "str" THEN Parsed(of.node.words, of.at, of.errs)
  ELSE Parsed(<<>>, of.at, of.errs \cup {"E035"})

FSubRules(of) ==
  LET items == IF of.node.node = "dict" THEN of.node.items ELSE <<>>
      kept == SelectSeq(items, LAMBDA e : e.key.node = "str")
  IN Parsed([k \in DOMAIN kept |-> [pattern |-> kept[k].key.words, expr |-> kept[k].of]], of.at,
            of.errs \cup IF of.node.node = "dict" /\ Len(kept) = Len(items) THEN {} ELSE {"E035"})

FSubNode(path, rules, at) ==
  Parsed([path |-> path.node, rules |-> rules.node], at, path.errs \cup rules.errs)

\* advanceUntilFSubMapOpen: the first brace outside of strings.
MapOpen(text, i) ==
  IF i > Len(text) \/ WordAt(text, i) = "{" THEN i
  ELSE MapOpen(text, IF text[i] \in Quotes THEN QuoteEnd(text, i) + 1 ELSE i + 1)

FSub(text, i) ==
  LET start == SkipInline(text, i)
      open == MapOpen(text, start)
      path == IF open = start THEN Parsed(<<>>, open, {"E035"})
              ELSE FSubPath(FSubPart(Lex(Slice(text, start, open))))
      rules(block) == IF block.errs # {} THEN Parsed(<<>>, block.at, block.errs)
                      ELSE FSubRules(FSubPart(Lex(Slice(text, open, block.at))))
      behind(block) == FSubNode(path, rules(block), block.at)
  IN IF open > Len(text) THEN Parsed([path |-> <<>>, rules |-> <<>>], Len(text) + 1, {"E035"})
     ELSE behind(Block(text, open))

\* parseOptionalDoHeaderClauses; what repeats a clause adds to it, but
\* nproc, which keeps its first value.
NoClauses == [after |-> <<>>, with |-> <<>>, nproc |-> <<>>, fsubs |-> <<>>]

Clause(text, i, w, before) ==
  LET after(p) == [p EXCEPT !.node = [before EXCEPT !.after = @ \o p.node]]
      with(p) == [p EXCEPT !.node = [before EXCEPT !.with = @ \o p.node]]
      fsub(p) == [p EXCEPT !.node = [before EXCEPT !.fsubs = Append(@, p.node)]]
      again(p) == p.node # <<>> /\ before.nproc # <<>>
      nproc(p) == [p EXCEPT !.node = [before EXCEPT !.nproc = IF @ = <<>> THEN p.node ELSE @],
                            !.errs = @ \cup IF again(p) THEN {"E033"} ELSE {}]
  IN CASE w = "after" -> after(NameList(text, i, <<>>))
       [] w = "with"  -> with(WithItems(text, i, <<>>))
       [] w = "nproc" -> nproc(NProc(text, i))
       [] w = "fsub"  -> fsub(FSub(text, i))

DoClauses(text, i, allowed, before) ==
  LET at == SkipInline(text, i)
      w == WordAt(text, at)
      more(clause) == [DoClauses(text, clause.at, allowed, clause.node) EXCEPT !.errs = @ \cup clause.errs]
  IN IF w \in allowed THEN more(Clause(text, at + 1, w, before)) ELSE Parsed(before, at, {})

\* parseDoBlock
DoStmt(text, name, clauses) ==
  LET brace == SkipTrivia(text, clauses.at)
      with(body) == Joined([op |-> "do", name |-> name.node, body |-> body.node] @@ clauses.node,
                           <<name, clauses, body>>)
  IN with(IF WordAt(text, brace) # "{" THEN Parsed(<<>>, brace, {"E031"}) ELSE Block(text, brace))

-----------------------------------------------------------------------------
(* The bodies of analyse blocks: assignments, and a tuple of columns. *)
Target(ts, i) ==
  IF TypeAt(ts, i) \in {"STRING", "REGEX"}
  THEN Parsed(<<[regex |-> TypeAt(ts, i) = "REGEX", file |-> ts[i].val]>>, i + 1, {})
  ELSE Parsed(<<>>, i, {"bad"})

\* Up to the end of the statement, or of the line.
SkipStatement(ts, i) ==
  SkipSeparators(ts, Least({j \in i..Len(ts) : ts[j].type \in Separators}, Len(ts) + 1))
SkipLine(ts, i) ==
  SkipSeparators(ts, Least({j \in i..Len(ts) : ts[j].type \in Separators \ {";"}}, Len(ts) + 1))

\* parseAnalyseAssignment: what is malformed is left out.
AnalyseTarget(ts, i, of) ==
  LET target == Target(ts, of.at + 1)
      within == TypeAt(ts, of.at) = "in"
      last == IF within THEN target.at ELSE of.at
      node == [name |-> ts[i].val, by |-> TypeAt(ts, i + 1), expr |-> of.node,
               target |-> IF within THEN target.node ELSE <<>>]
      trailing == IF TypeAt(ts, last) \in Separators \cup {"EOF"} THEN {} ELSE {"E416"}
  IN IF within /\ target.node = <<>> THEN Parsed(<<>>, SkipStatement(ts, last), of.errs \cup {"E416"})
     ELSE Parsed(<<node>>, SkipStatement(ts, last), of.errs \cup trailing)

AnalyseAssign(ts, i) ==
  IF TypeAt(ts, i) # "IDENT" \/ TypeAt(ts, i + 1) \notin AssignOps
  THEN Parsed(<<>>, SkipStatement(ts, i), {"E416"})
  ELSE AnalyseTarget(ts, i, Expr(ts, i + 2))

RECURSIVE Qualified(_, _, _)
Qualified(ts, i, name) ==
  LET part == Expect(ts, i + 1, "IDENT", "E417")
  IN IF TypeAt(ts, i) # "." THEN Parsed(name, i, {})
     ELSE IF part.errs # {} THEN Parsed(name, part.at, part.errs)
     ELSE Qualified(ts, part.at, name \o part.node)

\* parseOptionalAnalyseColumnTitle
WithTitle(ts, column) ==
  IF TypeAt(ts, column.at) # "as" THEN column
  ELSE IF TypeAt(ts, column.at + 1) = "STRING"
  THEN [column EXCEPT !.node = [k \in DOMAIN @ |-> [@[k] EXCEPT !.title = ts[column.at + 1].val]],
                      !.at = @ + 2]
  ELSE Parsed(<<>>, SkipLine(ts, column.at + 1), column.errs \cup {"E417"})

\* parseAnalyseInlinePatternColumn
PatternColumn(ts, of) ==
  LET target == Target(ts, of.at + 1)
      column == [name |-> <<>>, pattern |-> <<of.node>>, target |-> target.node, title |-> <<>>]
  IN IF TypeAt(ts, of.at) # "in" THEN Parsed(<<>>, of.at, of.errs \cup {"E417"})
     ELSE IF target.node = <<>> THEN Parsed(<<>>, SkipLine(ts, target.at), of.errs \cup {"E417"})
     ELSE WithTitle(ts, Parsed(<<column>>, target.at, of.errs))

InlineColumn(ts, i) ==
  CASE TypeAt(ts, i) = "EOF"      -> Parsed(<<>>, i, {"E417"})
    [] TypeAt(ts, i) \in {",", ")"} -> Parsed(<<>>, i + 1, {"E417"})
    [] OTHER                      -> PatternColumn(ts, Expr(ts, i))

\* parseAnalyseNamedColumnIfPresent: a name with an operator behind it, or
\* `in`, begins an expression instead; and so does what is behind the line
\* of a malformed title.
TailWords == {"in", "(", "[", ":", "+", "-", "*", "/", "%", "&", "and", "|", "or",
              "==", "!=", "<", ">", "<=", ">=", "if"}
Column(ts, i) ==
  LET name == Qualified(ts, i + 1, ts[i].val)
      column == [name |-> name.node, pattern |-> <<>>, target |-> <<>>, title |-> <<>>]
      inline(at, errs) == [InlineColumn(ts, at) EXCEPT !.errs = @ \cup errs]
      named(of) == IF of.node = <<>> THEN inline(of.at, of.errs) ELSE of
  IN IF TypeAt(ts, i) # "IDENT" THEN InlineColumn(ts, i)
     ELSE IF TypeAt(ts, name.at) \in TailWords THEN inline(i, name.errs)
     ELSE named(WithTitle(ts, [name EXCEPT !.node = <<column>>]))

\* parseAnalyseTuple, from behind the parenthesis.
BehindColumn(ts, before, column) ==
  LET now == before \o column.node
      next == SkipNewlines(ts, column.at)
  IN CASE TypeAt(ts, next) = "," -> [Columns(ts, next + 1, now) EXCEPT !.errs = @ \cup column.errs]
       [] TypeAt(ts, next) = ")" -> Parsed(now, next + 1, column.errs)
       [] OTHER -> Parsed(now, SkipLine(ts, next), column.errs \cup {"E417"})

Columns(ts, i, before) ==
  LET at == SkipNewlines(ts, i)
  IN CASE TypeAt(ts, at) = "EOF" -> Parsed(before, at, {"E417"})
       [] TypeAt(ts, at) = ")" -> Parsed(before, at + 1, {})
       [] TypeAt(ts, at) = "," -> [Columns(ts, at + 1, before) EXCEPT !.errs = @ \cup {"E417"}]
       [] OTHER -> BehindColumn(ts, before, Column(ts, at))

\* parseAnalyseBody; the tuple has to be the last statement.
AnalyseAssigns(ts, i, before) ==
  LET at == SkipSeparators(ts, i)
      last(columns) == IF TypeAt(ts, SkipSeparators(ts, columns.at)) = "EOF" THEN {} ELSE {"E417"}
      end(columns) == Parsed([assigns |-> before, columns |-> columns.node], columns.at,
                             columns.errs \cup last(columns))
      more(assign) == [AnalyseAssigns(ts, assign.at, before \o assign.node) EXCEPT !.errs = @ \cup assign.errs]
  IN CASE TypeAt(ts, at) = "EOF" -> end(Parsed(<<>>, at, {"E417"}))
       [] TypeAt(ts, at) = "(" -> end(Columns(ts, at + 1, <<>>))
       [] OTHER -> more(AnalyseAssign(ts, at))

\* parseAnalyseBlock
AnalyseBody(lexed) ==
  LET with(body) == [body EXCEPT !.errs = @ \cup lexed.errs] IN with(AnalyseAssigns(lexed.tokens, 1, <<>>))

AnalyseStmt(text, name, clauses) ==
  LET brace == SkipTrivia(text, clauses.at)
      none(at, errs) == Parsed([assigns |-> <<>>, columns |-> <<>>], at, errs)
      inside(block) == IF block.errs # {} THEN none(block.at, block.errs)
                       ELSE [AnalyseBody(Lex(block.node)) EXCEPT !.at = block.at]
      refused == IF clauses.node.after = <<>> THEN {} ELSE {"E416"}
      with(body) == Parsed([op |-> "analyse", name |-> name.node, with |-> clauses.node.with] @@ body.node,
                           body.at, name.errs \cup clauses.errs \cup refused \cup body.errs)
  IN with(IF WordAt(text, brace) # "{" THEN none(brace, {"E416"}) ELSE inside(Block(text, brace)))

\* The header of the block, and the block.
BlockClauses(text, op, name, clauses) ==
  IF op = "do" THEN DoStmt(text, name, clauses) ELSE AnalyseStmt(text, name, clauses)

BlockName(text, op, name) ==
  BlockClauses(text, op, name,
               DoClauses(text, name.at, IF op = "do" THEN Clauses ELSE {"after", "with"}, NoClauses))

BlockStmt(text, i, op) ==
  BlockName(text, op, RequiredIdent(text, i, IF op = "do" THEN "E030" ELSE "E416"))

-----------------------------------------------------------------------------
(* Files. *)
StmtWords ==
  {"if", "elif", "else", "for", "while", "break", "continue", "do", "analyse", "use"}

\* rejectControlBodyDeclaration
Declared(p, ctx, code) == [p EXCEPT !.errs = @ \cup IF ctx.control THEN {code} ELSE {}]

\* parseTopLevelStmt
Stmt(text, i, ctx) ==
  LET w == text[i]
      assigned == IsWord(w) /\ w \notin StmtWords /\ WordAt(text, i + 1) \in AssignOps
  IN CASE w \in {"if", "for", "while"} -> ControlStmt(text, i + 1, w, ctx)
       [] w \in {"break", "continue"} -> LoopEndStmt(w, Remainder(text, i + 1), ctx)
       [] w \in {"elif", "else"} -> Parsed(Pass, StatementEnd(text, i + 1, Opening).next, {"E080"})
       [] w \in {"do", "analyse"} -> Declared(BlockStmt(text, i + 1, w), ctx, "E080")
       [] w = "use" -> Declared(UseStmt(Remainder(text, i + 1)), ctx, "E430")
       [] OTHER -> SimpleStmt(Statement(text, i), assigned)

\* parseStmtList: a brace ends a body; elsewhere it is reported.
WithStmt(before, stmt) == Joined(Append(before.node, stmt.node), <<before, stmt>>)

StmtList(text, ctx, before) ==
  LET at == SkipTrivia(text, before.at)
  IN IF at > Len(text) \/ (ctx.control /\ text[at] = "}") THEN [before EXCEPT !.at = at]
     ELSE StmtList(text, ctx,
                   WithStmt(before, IF text[at] = "}" THEN Parsed(Pass, at + 1, {"E058"}) ELSE Stmt(text, at, ctx)))

\* Parse
Program(text) == StmtList(text, TopLevel, Parsed(<<>>, 1, {}))
=============================================================================
