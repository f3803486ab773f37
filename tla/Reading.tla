------------------------------ MODULE Reading ------------------------------
(***************************************************************************)
(* From the text of a file to the statements that the later stages go      *)
(* through (parser/, sema/global_plan_build.go): a sequence in which the   *)
(* statements in the body of an if or a loop follow it, so that a          *)
(* statement is known by its place.  It is a record with the field op:     *)
(*   assign [name, by, expr]   for [name, expr, body]   while [expr, body] *)
(*   if [expr, then, other]    expr [expr]              break, continue    *)
(*   do [name, after, with]    analyse [name]           nested [of, name]  *)
(*   use [kind, source, alias, names]                                      *)
(* where body, then and other are numbers of statements; an elif is an if  *)
(* in .other; nested is a declaration in a body, which is an error.        *)
(* Expressions are syntax trees (Expressions).                             *)
(***************************************************************************)
EXTENDS Integers, Sequences, FiniteSets, SequencesExt, TLC

CONSTANT Written(_)  \* the text of a source (Lexer)

Grammar == INSTANCE Expressions
Parser == INSTANCE Statements WITH Expr <- Grammar!Expr

-----------------------------------------------------------------------------
Word(words) == IF words = <<>> THEN "" ELSE words[1]

UseKind(s) ==
  IF s.kind = "path" /\ (s.source = <<>> \/ Last(s.source) # ".jbs") THEN "suffix" ELSE s.kind

RECURSIVE Flat(_, _), Flattened(_, _)
\* The statements of a file, or of a body, as a sequence.
Flat(stmts, inner) == FlattenSeq([i \in DOMAIN stmts |-> Flattened(stmts[i], inner)])

\* buildGlobalInputStep
Flattened(s, inner) ==
  LET then == Flat(s.then, TRUE)
      elif == [op |-> "if", cond |-> s.elifs[1].cond, then |-> s.elifs[1].body,
               elifs |-> Tail(s.elifs), other |-> s.other]
      other == IF s.elifs = <<>> THEN Flat(s.other, TRUE) ELSE Flattened(elif, TRUE)
      body == Flat(s.body, TRUE)
      nested == <<[op |-> "nested", of |-> s.op, name |-> IF s.op = "use" THEN "" ELSE Word(s.name)]>>
  IN CASE s.op = "if" -> <<[op |-> "if", expr |-> s.cond, then |-> Len(then), other |-> Len(other)]>> \o then \o other
       [] s.op = "for" -> <<[op |-> "for", name |-> Word(s.name), expr |-> s.expr, body |-> Len(body)]>> \o body
       [] s.op = "while" -> <<[op |-> "while", expr |-> s.expr, body |-> Len(body)]>> \o body
       [] s.op \in {"do", "analyse", "use"} /\ inner -> nested
       [] s.op = "assign" -> <<[op |-> "assign", name |-> Word(s.name), by |-> s.by, expr |-> s.expr]>>
       [] s.op = "do" /\ ~inner ->
            <<[op |-> "do", name |-> Word(s.name), after |-> [i \in DOMAIN s.after |-> <<s.after[i]>>],
               with |-> s.with]>>
       [] s.op = "analyse" /\ ~inner -> <<[op |-> "analyse", name |-> Word(s.name)]>>
       [] s.op = "use" /\ ~inner -> <<[op |-> "use", kind |-> UseKind(s), source |-> Word(s.source),
                                       alias |-> Word(s.alias), names |-> s.names]>>
       [] OTHER -> <<s>>

\* What the loader is given of a source (ParsedAs of Imports).
ParsedText(source) ==
  LET parsed == Parser!Program(Written(source))
  IN [stmts |-> Flat(parsed.node, FALSE), errs |-> parsed.errs]
=============================================================================
