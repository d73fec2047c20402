------------------------------- MODULE Lexer -------------------------------
(***************************************************************************)
(* The lexer: src/src/syntax/lexer.rs and token.rs.                        *)
(*                                                                         *)
(* A source text is a sequence of glyphs: a run of letters or of digits is *)
(* one glyph, every other character is a glyph of its own, and white       *)
(* space, however long, is the glyph " ".  Between two words, which cannot *)
(* touch, it is left out.                                                  *)
(* A token is a pair <<kind, content>>; punctuation and keywords are their *)
(* own kind and have no content.  A text inside a string literal is the    *)
(* sequence of its characters after the escapes have been undone.          *)
(***************************************************************************)
EXTENDS Naturals, Sequences

CONSTANTS
  Digits,     \* the runs of digits the instances use
  Huge        \* the run of digits that is above i64::MAX

ASSUME DigitsAssumption == Huge \in Digits

Keywords ==
  {"agent", "agent_net", "and", "as", "await", "break", "cap", "catch",
   "const", "continue", "defer", "deny", "do", "else", "ensures", "enum",
   "every", "extends", "false", "flow", "fn", "for", "from", "if", "in",
   "intent", "is", "let", "limit", "loop", "match", "model", "not", "or",
   "pipeline", "policy", "property", "pub", "raise", "record", "require",
   "requires", "retry", "return", "saga", "spawn", "step", "test",
   "timeout", "true", "type", "undo", "until", "use", "var", "when",
   "where", "while", "with"}

Singles == {"(", ")", "{", "}", "[", "]", ",", ";", "@", "#", "?", "^", ":",
            ".", "-", "=", "<", ">", "+", "*", "/", "%", "&", "|"}

\* Glyphs that stick together, the longest first: `next` after `first` makes
\* one token.  The match arms of lex_one.
Fused ==
  << <<<<".", ".", "=">>, "..=">>, <<<<".", ".">>, "..">>, <<<<"?", "?">>, "??">>,
     <<<<":", ":">>, "::">>, <<<<"-", ">">>, "->">>, <<<<"-", "=">>, "-=">>,
     <<<<"=", "=">>, "==">>, <<<<"=", ">">>, "=>">>, <<<<"!", "=">>, "!=">>,
     <<<<"<", "=">>, "<=">>, <<<<"<", "<">>, "<<">>, <<<<">", "=">>, ">=">>,
     <<<<">", ">">>, ">>">>, <<<<"+", "=">>, "+=">>, <<<<"*", "=">>, "*=">>,
     <<<<"/", "=">>, "/=">>, <<<<"%", "=">>, "%=">> >>

\* peek_at: the glyph at a position, or "eof" past the end.
PeekAt(g, i) == IF i \in 1 .. Len(g) THEN g[i] ELSE "eof"

StartsAt(g, i, word) == \A k \in 1 .. Len(word) : PeekAt(g, i + k - 1) = word[k]

Token(kind, content, next) ==
  [ok |-> TRUE, tok |-> <<kind, content>>, next |-> next]
LexError == [ok |-> FALSE, tok |-> <<"error", <<>>>>, next |-> 0]

\* The escapes a string literal knows, with what each stands for.
Escapes == [e \in {"n", "t", "r", "\\", "\"", "'", "0", "{", "}"} |->
              IF e \in {"n", "t", "r", "0"} THEN "ctl_" \o e ELSE e]

-----------------------------------------------------------------------------
(* Strings                                                                 *)

\* The position of the `}' that closes the interpolation whose body starts
\* at j; 0 when the text ends or a nested string begins first.
RECURSIVE BodyEnd(_, _, _)
BodyEnd(g, j, depth) ==
  IF PeekAt(g, j) \in {"eof", "\""} THEN 0
  ELSE IF g[j] = "}" /\ depth = 1 THEN j
  ELSE BodyEnd(g, j + 1, depth + (CASE g[j] = "{" -> 1
                                    [] g[j] = "}" -> 0 - 1
                                    [] OTHER -> 0))

IsBlank(s) == \A k \in 1 .. Len(s) : s[k] = " "

\* Literal text collected so far becomes a segment of its own.
Flush(segs, text) == IF text = <<>> THEN segs ELSE Append(segs, <<"text", text>>)

\* The body of `"..."' and `"""..."""': text is the run collected so far and
\* segs the finished segments.  A doubled brace is a literal one.
RECURSIVE Body(_, _, _, _, _)
Body(g, j, close, text, segs) ==
  CASE PeekAt(g, j) = "eof" -> LexError
    [] StartsAt(g, j, close) ->
         IF segs = <<>> THEN Token("Str", text, j + Len(close))
         ELSE Token("Interp", Flush(segs, text), j + Len(close))
    [] PeekAt(g, j) = "\\" ->
         IF PeekAt(g, j + 1) \in DOMAIN Escapes
         THEN Body(g, j + 2, close, Append(text, Escapes[g[j + 1]]), segs)
         ELSE LexError
    [] PeekAt(g, j) = "{" ->
         IF PeekAt(g, j + 1) = "{"
         THEN Body(g, j + 2, close, Append(text, "{"), segs)
         ELSE LET end  == BodyEnd(g, j + 1, 1)
                  code == SubSeq(g, j + 1, end - 1)
              IN  IF end = 0 \/ IsBlank(code) THEN LexError
                  ELSE Body(g, end + 1, close, <<>>,
                            Append(Flush(segs, text), <<"code", code>>))
    [] PeekAt(g, j) = "}" ->
         IF PeekAt(g, j + 1) = "}"
         THEN Body(g, j + 2, close, Append(text, "}"), segs)
         ELSE LexError
    [] OTHER -> Body(g, j + 1, close, Append(text, g[j]), segs)

LexString(g, i) == Body(g, i + 1, <<"\"">>, <<>>, <<>>)
LexTripleString(g, i) == Body(g, i + 3, <<"\"", "\"", "\"">>, <<>>, <<>>)

\* A raw string has neither escapes nor interpolation.
RECURSIVE RawBody(_, _, _, _)
RawBody(g, j, close, text) ==
  CASE PeekAt(g, j) = "eof"   -> LexError
    [] StartsAt(g, j, close) -> Token("Str", text, j + Len(close))
    [] OTHER                 -> RawBody(g, j + 1, close, Append(text, g[j]))

LexRawString(g, i) ==
  LET triple == <<"\"", "\"", "\"">>
  IN  IF StartsAt(g, i + 1, triple) THEN RawBody(g, i + 4, triple, <<>>)
      ELSE RawBody(g, i + 2, <<"\"">>, <<>>)

\* Bytes: the escapes of strings except the braces and the quote, and \xNN,
\* whose two digits are the glyph of the byte they name.
RECURSIVE BytesBody(_, _, _)
BytesBody(g, j, text) ==
  CASE PeekAt(g, j) = "eof"  -> LexError
    [] PeekAt(g, j) = "\"" -> Token("Bytes", text, j + 1)
    [] PeekAt(g, j) = "\\" ->
         IF PeekAt(g, j + 1) \in DOMAIN Escapes \ {"'", "{", "}"}
         THEN BytesBody(g, j + 2, Append(text, Escapes[g[j + 1]]))
         ELSE IF PeekAt(g, j + 1) = "x" THEN BytesBody(g, j + 3, Append(text, PeekAt(g, j + 2)))
         ELSE LexError
    [] OTHER -> BytesBody(g, j + 1, Append(text, g[j]))

\* A quote starts a character, closed by another quote, or a loop label.
LexQuote(g, i) ==
  CASE PeekAt(g, i + 1) = "\\" ->
         IF /\ PeekAt(g, i + 2) \in DOMAIN Escapes \ {"{", "}"}
            /\ PeekAt(g, i + 3) = "'"
         THEN Token("Char", <<Escapes[g[i + 2]]>>, i + 4) ELSE LexError
    [] PeekAt(g, i + 2) = "'" -> Token("Char", <<g[i + 1]>>, i + 3)
    [] PeekAt(g, i + 1) \in Singles \cup {"eof", " ", "\""} -> LexError
    [] OTHER -> Token("Label", <<g[i + 1]>>, i + 2)

-----------------------------------------------------------------------------
(* Numbers and what looks like one                                         *)

Units == {"ns", "us", "ms", "s", "m", "h", "d", "w"}

IsDate(g, i) == /\ PeekAt(g, i + 1) = "-" /\ PeekAt(g, i + 2) \in Digits
                /\ PeekAt(g, i + 3) = "-" /\ PeekAt(g, i + 4) \in Digits

\* A date needs no space inside, a float a digit right behind the point, a
\* duration its unit right behind the digits.
LexNumberLike(g, i) ==
  CASE g[i] = "2024" /\ IsDate(g, i) ->
         IF PeekAt(g, i + 5) = "T" THEN Token("Timestamp", SubSeq(g, i, i + 5), i + 6)
         ELSE Token("Date", SubSeq(g, i, i + 4), i + 5)
    [] PeekAt(g, i + 1) = "." /\ PeekAt(g, i + 2) \in Digits ->
         Token("Float", SubSeq(g, i, i + 2), i + 3)
    [] PeekAt(g, i + 1) = "e" /\ PeekAt(g, i + 2) \in Digits ->
         Token("Float", SubSeq(g, i, i + 2), i + 3)
    [] PeekAt(g, i + 1) \in Units -> Token("Duration", SubSeq(g, i, i + 1), i + 2)
    [] g[i] = Huge -> LexError                             \* IntegerOverflow
    [] OTHER -> Token("Int", <<g[i]>>, i + 1)

LexIdentOrKeyword(g, i) ==
  IF g[i] \in Keywords THEN Token(g[i], <<>>, i + 1)
  ELSE Token("Ident", <<g[i]>>, i + 1)

-----------------------------------------------------------------------------
(* The token stream                                                        *)

\* Comments are tokens too: `//' and `///' with the one glyph that stands for
\* their line, and block comments, which nest.
LexLineComment(g, i) ==
  IF StartsAt(g, i, <<"/", "/", "/">>) THEN Token("Doc", <<PeekAt(g, i + 3)>>, i + 4)
  ELSE Token("Comment", <<PeekAt(g, i + 2)>>, i + 3)

RECURSIVE LexBlockComment(_, _, _)
LexBlockComment(g, j, depth) ==
  CASE PeekAt(g, j) = "eof" -> LexError
    [] StartsAt(g, j, <<"/", "*">>) -> LexBlockComment(g, j + 2, depth + 1)
    [] StartsAt(g, j, <<"*", "/">>) ->
         IF depth = 1 THEN Token("Comment", <<>>, j + 2) ELSE LexBlockComment(g, j + 2, depth - 1)
    [] OTHER -> LexBlockComment(g, j + 1, depth)

LexPunct(g, i) ==
  LET fits == {k \in 1 .. Len(Fused) : StartsAt(g, i, Fused[k][1])}
      k    == CHOOSE k \in fits : \A o \in fits : k <= o
  IN  IF fits # {} THEN Token(Fused[k][2], <<>>, i + Len(Fused[k][1]))
      ELSE IF g[i] \in Singles THEN Token(g[i], <<>>, i + 1)
      ELSE LexError

LexOne(g, i) ==
  CASE StartsAt(g, i, <<"/", "/">>)          -> LexLineComment(g, i)
    [] StartsAt(g, i, <<"/", "*">>)          -> LexBlockComment(g, i + 2, 1)
    [] StartsAt(g, i, <<"b", "\"">>)         -> BytesBody(g, i + 2, <<>>)
    [] StartsAt(g, i, <<"r", "\"">>)         -> LexRawString(g, i)
    [] g[i] \in Digits                       -> LexNumberLike(g, i)
    [] StartsAt(g, i, <<"\"", "\"", "\"">>)  -> LexTripleString(g, i)
    [] g[i] = "\""                           -> LexString(g, i)
    [] g[i] = "'"                            -> LexQuote(g, i)
    [] g[i] \in Singles \cup {"!", "~", "\\", "$"} -> LexPunct(g, i)
    [] OTHER                                 -> LexIdentOrKeyword(g, i)

RECURSIVE TokensFrom(_, _, _)
TokensFrom(g, i, toks) ==
  CASE PeekAt(g, i) = "eof" -> [ok |-> TRUE, toks |-> Append(toks, <<"Eof", <<>>>>)]
    [] g[i] = " "         -> TokensFrom(g, i + 1, toks)
    [] OTHER -> LET one == LexOne(g, i)
                IN  IF one.ok THEN TokensFrom(g, one.next, Append(toks, one.tok))
                    ELSE [ok |-> FALSE, toks |-> <<>>]

Tokenize(g) == TokensFrom(g, 1, <<>>)

StripTrivia(toks) == SelectSeq(toks, LAMBDA t : t[1] \notin {"Doc", "Comment"})
=============================================================================
