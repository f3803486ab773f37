------------------------------- MODULE Lexer -------------------------------
(***************************************************************************)
(* Source texts and their tokens (lexer/lexer.go, token.go), and the two   *)
(* things that every scanner of the parser skips, strings and comments.    *)
(*                                                                         *)
(* A text is a sequence of words: names, keywords, numerals, symbols, and  *)
(* the characters "\n", "#", "\\", "'", "\"" and "$".  There are blanks    *)
(* between the words; those in Tight are written next to what is before    *)
(* them.  A token is [type, val]: the type of a keyword or a symbol is the *)
(* word itself, val is the sequence of words it has for a value.           *)
(***************************************************************************)
EXTENDS Integers, Sequences, FiniteSets, SequencesExt, TLC

Keywords ==
  {"if", "elif", "else", "for", "while", "break", "continue", "and", "or", "function", "return",
   "do", "analyse", "with", "from", "after", "in", "as", "use"}

Symbols ==
  {",", ":", ";", ".", "=", "+=", "-=", "*=", "/=", "%=", "(", ")", "[", "]", "{", "}",
   "+", "-", "*", "**", "/", "%", "!", "&", "&&", "|", "||", "==", "!=", "<", ">", "<=", ">="}

\* The numerals that occur in texts, and their values.
NumeralNames == <<"0", "1", "2", "3", "4", "5", "6", "7", "8", "9">>
Numerals == ToSet(NumeralNames)
ValueOf(numeral) == (CHOOSE i \in DOMAIN NumeralNames : NumeralNames[i] = numeral) - 1

Quotes == {"'", "\""}
Special == {"\n", "#", "\\", "$"} \cup Quotes
Tight == {",", ":", ";", ".", "(", ")", "[", "]"}

\* peekWord: what begins with a letter.
IsWord(w) == w \notin Symbols \cup Numerals \cup Special
IsName(w) == IsWord(w) /\ w \notin Keywords

Slice(text, from, end) == SubSeq(text, from, end - 1)
WordAt(text, i) == IF i \in DOMAIN text THEN text[i] ELSE ""
Least(S, default) == IF S = {} THEN default ELSE CHOOSE n \in S : \A m \in S : n <= m
Greatest(S) == CHOOSE n \in S : \A m \in S : m <= n

\* A backslash in a string takes the next character with it: text[j] is
\* taken if the backslashes before it, after from, are odd in number.
Taken(text, from, j) ==
  (j - Greatest({k \in from..(j - 1) : text[k] # "\\"})) % 2 = 0

\* The end of the string that starts at i: the place of its closing quote,
\* or the end of the text.
QuoteEnd(text, i) ==
  Least({j \in (i + 1)..Len(text) : text[j] = text[i] /\ ~Taken(text, i, j)}, Len(text) + 1)

LineEnd(text, i) == Least({j \in i..Len(text) : text[j] = "\n"}, Len(text) + 1)

\* unescapeString: quotes and backslashes lose the backslash before them.
Unescaped(words) ==
  LET escapes(j) == j < Len(words) /\ words[j] = "\\" /\ ~Taken(<<"">> \o words, 1, j + 1)
                    /\ words[j + 1] \in Quotes \cup {"\\"}
      kept == SelectSeq([j \in DOMAIN words |-> j], LAMBDA j : ~escapes(j))
  IN [k \in DOMAIN kept |-> words[kept[k]]]

Token(type, val) == [type |-> type, val |-> val]
LexError(code) == Token("error", <<code>>)

StringTokens(type, text, i) ==
  LET end == QuoteEnd(text, i)
      content == Slice(text, i + 1, end)
  IN IF end > Len(text) THEN <<LexError("E001"), Token(type, content)>>
     ELSE <<Token(type, Unescaped(content))>>

\* One token per symbol or keyword; && and || are & and |.
Plain(w) ==
  CASE w = "&&"                    -> Token("&", <<w>>)
    [] w = "||"                    -> Token("|", <<w>>)
    [] w \in Keywords \cup Symbols -> Token(w, <<w>>)
    [] w \in Numerals              -> Token("NUMBER", <<w>>)
    [] w = "\n"                    -> Token("NEWLINE", <<>>)
    [] w \in {"\\", "$"}           -> LexError("E003")
    [] OTHER                       -> Token("IDENT", <<w>>)

RECURSIVE AllTokens(_, _)
AllTokens(text, i) ==
  IF i > Len(text) THEN <<>>
  ELSE CASE text[i] = "\\" /\ WordAt(text, i + 1) = "\n" -> AllTokens(text, i + 2)
         [] text[i] = "#" -> <<Token("COMMENT", <<>>)>> \o AllTokens(text, LineEnd(text, i))
         [] text[i] \in Quotes ->
              StringTokens("STRING", text, i) \o AllTokens(text, QuoteEnd(text, i) + 1)
         [] text[i] = "re" /\ WordAt(text, i + 1) \in Quotes ->
              StringTokens("REGEX", text, i + 1) \o AllTokens(text, QuoteEnd(text, i + 1) + 1)
         [] OTHER -> <<Plain(text[i])>> \o AllTokens(text, i + 1)

\* Lex: the tokens, and the codes of the errors.
WithoutErrors(all) ==
  [tokens |-> SelectSeq(all, LAMBDA t : t.type # "error"),
   errs |-> {t.val[1] : t \in {u \in ToSet(all) : u.type = "error"}}]

Lex(text) == WithoutErrors(AllTokens(text, 1))
=============================================================================
