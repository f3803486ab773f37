------------------------------ MODULE Parsing ------------------------------
(***************************************************************************)
(* What the parsers share (parser.go, parser_expr.go): a token parser goes *)
(* from left to right.  Parsing at a place gives [node, at, errs]: the     *)
(* syntax tree, the place of the next token, and the codes of the errors;  *)
(* an error is reported and the parser goes on.                            *)
(***************************************************************************)
EXTENDS Lexer

Parsed(node, at, errs) == [node |-> node, at |-> at, errs |-> errs]
NoString == [node |-> "str", words |-> <<>>]

TypeAt(ts, i) == IF i \in DOMAIN ts THEN ts[i].type ELSE "EOF"

\* A node made of what several parses found, the last of them last.
Joined(node, parts) == Parsed(node, Last(parts).at, UNION {parts[k].errs : k \in DOMAIN parts})

\* expect: a token that is not there is reported, and nothing is skipped.
Expect(ts, i, type, code) ==
  IF TypeAt(ts, i) = type THEN Parsed(ts[i].val, i + 1, {}) ELSE Parsed(<<>>, i, {code})

RECURSIVE SkipTypes(_, _, _)
SkipTypes(ts, i, types) == IF TypeAt(ts, i) \in types THEN SkipTypes(ts, i + 1, types) ELSE i

SkipNewlines(ts, i) == SkipTypes(ts, i, {"NEWLINE", "COMMENT"})
Separators == {"NEWLINE", "COMMENT", ";"}
SkipSeparators(ts, i) == SkipTypes(ts, i, Separators)

\* A statement ends here, or what follows is an error and skipped.
Terminated(ts, p, terminators) ==
  LET ends == Least({j \in p.at..Len(ts) : ts[j].type \in terminators}, Len(ts) + 1)
  IN Parsed(p.node, SkipSeparators(ts, ends),
            p.errs \cup IF ends > p.at THEN {"E061"} ELSE {})

AssignOps == {"=", "+=", "-=", "*=", "/=", "%="}
Assignment(name, by, expr) == [op |-> "assign", name |-> name, by |-> by, expr |-> expr]

Pass == [op |-> "expr", expr |-> NoString]

\* What is read, but not kept.
Dropped(p) == Parsed(<<>>, p.at, p.errs \cup {"E080"})
=============================================================================
