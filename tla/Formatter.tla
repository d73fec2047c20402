------------------------------ MODULE Formatter ------------------------------
(***************************************************************************)
(* The formatter: src/src/syntax/fmt.rs.  A tree becomes the glyphs of its *)
(* canonical text; a glyph " " stands for the white space the code writes, *)
(* a line break and its indentation included.                              *)
(***************************************************************************)
EXTENDS Parser

Joined(parts, sep) ==
  FlattenSeq([k \in 1 .. Len(parts) |-> IF k = 1 THEN parts[k] ELSE sep \o parts[k]])
Comma == <<",", " ">>
Space == <<" ">>
Name(leaf) == <<leaf[1]>>
Map(F(_), list) == [k \in 1 .. Len(list[2]) |-> F(list[2][k])]
CommaList(F(_), list) == Joined(Map(F, list), Comma)
IfHas(opt, before, F(_)) == IF Has(opt) THEN before \o F(opt[2][1]) ELSE <<>>
Wrapped(open, text, close) == <<open>> \o text \o <<close>>

-----------------------------------------------------------------------------
(* Literals                                                                *)

Controls == [c \in {"ctl_n", "ctl_t", "ctl_r"} |->
               CASE c = "ctl_n" -> "n" [] c = "ctl_t" -> "t" [] OTHER -> "r"]

\* A character, escaped when it is a control or one of the given ones.
Escaped(text, special) ==
  FlattenSeq([k \in 1 .. Len(text) |->
    IF text[k] \in DOMAIN Controls THEN <<"\\", Controls[text[k]]>>
    ELSE IF text[k] \in special THEN <<"\\", text[k]>> ELSE <<text[k]>>])

EscapeStr(text) == Escaped(text, {"\\", "\"", "{", "}"})

Quoted(text) == Wrapped("\"", EscapeStr(text), "\"")

\* Bytes that are neither printable nor one of the escapes are in hex.
FmtBytes(text) ==
  <<"b", "\"">> \o
  FlattenSeq([k \in 1 .. Len(text) |->
    IF text[k] = "ctl_0" THEN <<"\\", "x", "ctl_0">> ELSE Escaped(<<text[k]>>, {"\\", "\""})])
  \o <<"\"">>

\* format_float: the exponent forms of the instances are too large for the
\* decimal point they would need.
FmtFloat(c) == IF c[2] = "e" THEN <<Huge>> ELSE c

FmtLiteral(e) ==
  CASE e[1] \in {"Int", "Date", "Timestamp", "Duration"} -> e[2]
    [] e[1] = "Float" -> FmtFloat(e[2])
    [] e[1] = "Str"   -> Quoted(e[2])
    [] e[1] = "Bytes" -> FmtBytes(e[2])
    [] e[1] = "Char"  -> Wrapped("'", Escaped(e[2], {"\\", "'"}), "'")
    [] OTHER          -> Name(e)

\* The source text of a const's value.
SourceOf(tok) ==
  CASE tok[1] \in {"Int", "Float", "Date", "Timestamp", "Duration", "Ident"} -> tok[2]
    [] tok[1] \in {"Str", "Bytes", "Char"} -> FmtLiteral(tok)
    [] tok[1] = "Label"  -> <<"'">> \o tok[2]
    [] tok[1] = "Interp" ->
         Wrapped("\"", FlattenSeq([k \in 1 .. Len(tok[2]) |->
           IF tok[2][k][1] = "code" THEN Wrapped("{", tok[2][k][2], "}")
           ELSE EscapeStr(tok[2][k][2])]), "\"")
    [] OTHER -> <<tok[1]>>
FmtRaw(toks) == Joined([k \in 1 .. Len(toks) |-> SourceOf(toks[k])], Space)

-----------------------------------------------------------------------------
(* Types                                                                   *)

FmtCapPath(p) == Name(p[2][1]) \o IfHas(p[2][2], <<".">>, Name)

FmtAllow(allow) ==
  LET quoted(text) == Quoted(text[2])
  IN  IF Len(allow[2]) = 1 THEN quoted(allow[2][1])
      ELSE Wrapped("[", CommaList(quoted, allow), "]")

FmtCapEntries(entries) ==
  LET one(e) == FmtCapPath(e[2][1]) \o IfHas(e[2][2], <<" ", "@", " ">>, FmtAllow)
  IN  CommaList(one, entries)

RECURSIVE FmtType(_)
FmtType(t) ==
  LET k == t[2]
  IN  CASE t[1] = "TNamed"   -> Name(k[1])
        [] t[1] = "TGeneric" -> Name(k[1]) \o Wrapped("<", CommaList(FmtType, k[2]), ">")
        [] t[1] = "TModel"   -> Name(k[1]) \o <<"@">> \o Name(k[2])
        [] t[1] = "TTuple"   -> Wrapped("(", CommaList(FmtType, Listed(k)), ")")
        [] t[1] = "TCap"     ->
             <<"cap">> \o Wrapped("[", IF k[1] = Leaf("yes") THEN <<"*">> ELSE FmtCapEntries(k[2]), "]")
        [] t[1] = "TFn"      ->
             <<"fn">> \o Wrapped("(", CommaList(FmtType, k[1]), ")") \o <<" ", "->", " ">> \o FmtType(k[2])

OfType(opt) == IfHas(opt, <<":", " ">>, FmtType)

-----------------------------------------------------------------------------
(* Expressions                                                             *)

Precedence(op) ==
  CASE op = "or" -> 2 [] op = "??" -> 3 [] op \in {"and", "is", "as"} -> 4
    [] op \in {"==", "!=", "<", "<=", ">", ">="} -> 5 [] op \in {"&", "|", "^"} -> 6
    [] op \in {"<<", ">>"} -> 7 [] op \in {"+", "-"} -> 8 [] OTHER -> 9

Binary == {"or", "??", "and", "==", "!=", "<", "<=", ">", ">=", "&", "|", "^", "<<", ">>",
           "+", "-", "*", "/", "%"}

\* Seeded fault: the side is not looked at.
BugNeedsParen(prec, outer, side) == prec < outer
\* An operand as tight as its operator needs no parentheses on the left.
NeedsParen(prec, outer, side) == prec < outer \/ (prec = outer /\ side = 1)

Paren(needed, text) == IF needed THEN Wrapped("(", text, ")") ELSE text

\* FmtExpr dispatches on the tag, which tells an expression from a pattern, a
\* statement and a block.
RECURSIVE FmtExpr(_, _, _)
Fmt(e) == FmtExpr(e, 0, 0)

Patterns == {"Wildcard", "Bind", "Lit", "Constructor", "RecordCtor", "PTuple", "PList"}
Statements == {"Let", "Var", "For", "While", "Defer", "Do"}

\* `{ a, b }': a space inside unless there is nothing.
Spaced(parts, sep) == IF parts = <<>> THEN <<"{", "}">>
                      ELSE <<"{", " ">> \o Joined(parts, sep) \o <<" ", "}">>

\* The spread comes first whatever its place was.
FmtRecordLit(k) ==
  LET init(f) == Name(f[2][1]) \o <<":", " ">> \o Fmt(f[2][2])
      spread  == IF Has(k[4]) THEN << <<"..">> \o Fmt(k[4][2][1]) >> ELSE <<>>
      named   == Name(k[1][2][1]) \o IfHas(k[2], <<"@">>, Name) \o Space
  IN  (IF Has(k[1]) THEN named ELSE <<>>) \o Spaced(spread \o Map(init, k[3]), Comma)

FmtMatchArm(a) ==
  Fmt(a[2][1]) \o IfHas(a[2][2], <<" ", "if", " ">>, Fmt)
  \o <<" ", "->", " ">> \o Fmt(a[2][3])

FmtPattern(p) ==
  LET k == p[2]
      field(f) == Name(f[2][1]) \o IfHas(f[2][2], <<":", " ">>, Fmt)
      elem(x)  == IF x[1] = "Rest" THEN <<"..">> \o IfHas(x[2][1], <<>>, Name) ELSE Fmt(x)
      fields   == Map(field, Listed(Tagged(k[2][2], {"PField"})))
      rest     == IF Tagged(k[2][2], {"Rest"}) = <<>> THEN <<>> ELSE << <<"..">> >>
  IN  CASE p[1] = "Wildcard"    -> <<"_">>
        [] p[1] = "Bind"        -> Name(k[1])
        [] p[1] = "Lit"         -> Fmt(k[1])
        [] p[1] = "Constructor" -> Name(k[1]) \o Wrapped("(", CommaList(Fmt, k[2]), ")")
        [] p[1] = "RecordCtor"  -> Name(k[1]) \o Space \o Spaced(fields \o rest, Comma)
        [] p[1] = "PTuple"      -> Wrapped("(", CommaList(Fmt, k[1]), ")")
        [] p[1] = "PList"       -> Wrapped("[", CommaList(elem, k[1]), "]")

FmtStmt(s) ==
  LET k == s[2]
      binding(word) == <<word, " ">> \o Name(k[1]) \o OfType(k[2]) \o <<" ", "=", " ">> \o Fmt(k[3])
  IN  CASE s[1] = "Let"   -> binding("let")
        [] s[1] = "Var"   -> binding("var")
        [] s[1] = "For"   -> <<"for", " ">> \o Name(k[1]) \o <<" ", "in", " ">> \o Fmt(k[2])
                             \o Space \o Fmt(k[3])
        [] s[1] = "While" -> <<"while", " ">> \o Fmt(k[1]) \o Space \o Fmt(k[2])
        [] s[1] = "Defer" -> <<"defer", " ">> \o Fmt(k[1])
        [] s[1] = "Do"    -> Fmt(k[1])

FmtBlock(b) ==
  LET tail == IF Has(b[2][2]) THEN <<Fmt(b[2][2][2][1])>> ELSE <<>>
  IN  Spaced(Map(Fmt, b[2][1]) \o tail, <<";", " ">>)

FmtLambdaParam(p) == Name(p[2][1]) \o OfType(p[2][2])

\* The forms that are operators or stand before a postfix.
FmtOperator(e, outer, side) ==
  LET k == e[2]
      p == Precedence(e[1])
      left == FmtExpr(k[1], p, 0) \o <<" ", e[1], " ">>
      arg(a) == IfHas(a[2][1], <<>>, LAMBDA n : Name(n) \o <<":", " ">>) \o Fmt(a[2][2])
  IN  CASE e[1] = "as" -> Paren(NeedsParen(p, outer, side), left \o FmtType(k[2]))
        [] e[1] = "is" -> Paren(NeedsParen(p, outer, side), left \o Fmt(k[2]))
        [] e[1] \in Binary ->
             Paren(NeedsParen(p, outer, side), left \o FmtExpr(k[2], p, 1))
        [] e[1] = "Neg" -> Paren(10 < outer, <<"-">> \o FmtExpr(k[1], 10, 0))
        [] e[1] = "Not" -> Paren(10 < outer, <<"not", " ">> \o FmtExpr(k[1], 10, 0))
        [] e[1] = "Range" ->
             Paren(1 < outer,
                   IfHas(k[1], <<>>, LAMBDA x : FmtExpr(x, 2, 0)) \o Name(k[2])
                   \o IfHas(k[3], <<>>, LAMBDA x : FmtExpr(x, 2, 1)))
        [] e[1] \in AssignOps ->
             Paren(0 < outer, FmtExpr(k[1], 11, 0) \o <<" ", e[1], " ">> \o FmtExpr(k[2], 0, 1))
        [] e[1] = "Field" -> FmtExpr(k[1], 11, 0) \o <<".">> \o Name(k[2])
        [] e[1] = "Call"  -> FmtExpr(k[1], 11, 0) \o Wrapped("(", CommaList(arg, k[3]), ")")
        [] e[1] = "Index" -> FmtExpr(k[1], 11, 0) \o Wrapped("[", Fmt(k[2]), "]")
        [] e[1] = "Try"   -> FmtExpr(k[1], 11, 0) \o <<"?">>
        [] e[1] = "Catch" -> FmtExpr(k[1], 11, 0) \o <<" ", "catch", " ">> \o Name(k[2])
                             \o Space \o Fmt(k[3])

Operators == Binary \cup AssignOps
             \cup {"is", "as", "Neg", "Not", "Range", "Field", "Call", "Index", "Try", "Catch"}

FmtInterp(segs) ==
  Wrapped("\"", FlattenSeq([k \in 1 .. Len(segs) |->
    IF segs[k][1] = "code" THEN Wrapped("{", Fmt(segs[k][2][1]), "}") ELSE EscapeStr(segs[k][2])]), "\"")

FmtExpr(e, outer, side) ==
  LET k == e[2]
      word(w) == <<w, " ">>
      label(l) == IfHas(l, <<" ", "'">>, Name)
  IN  CASE e[1] \in Operators -> FmtOperator(e, outer, side)
        [] e[1] = "Interp"    -> FmtInterp(k)
        [] e[1] = "Unit"      -> <<"(", ")">>
        [] e[1] = "Ident"     -> Name(k[1])
        [] e[1] = "ModelRef"  -> Name(k[1]) \o <<"@">> \o Name(k[2])
        [] e[1] = "Tuple"     -> Wrapped("(", CommaList(Fmt, Listed(k)), ")")
        [] e[1] = "List"      -> Wrapped("[", CommaList(Fmt, k[1]), "]")
        [] e[1] = "Record"    -> FmtRecordLit(k)
        [] e[1] = "Block"     -> FmtBlock(e)
        [] e[1] \in Patterns   -> FmtPattern(e)
        [] e[1] \in Statements -> FmtStmt(e)
        [] e[1] = "If"        -> word("if") \o Fmt(k[1]) \o Space \o Fmt(k[2])
                                 \o IfHas(k[3], <<" ", "else", " ">>, Fmt)
        [] e[1] = "Match"     ->
             word("match") \o Fmt(k[1]) \o <<" ">> \o Spaced(Map(FmtMatchArm, k[2]), Comma)
        [] e[1] = "Lambda"    ->
             <<"fn">> \o Wrapped("(", CommaList(FmtLambdaParam, k[1]), ")")
             \o IfHas(k[2], <<" ", "->", " ">>, FmtType) \o Space \o Fmt(k[3])
        [] e[1] = "Spawn"     -> word("spawn") \o Fmt(k[1])
        [] e[1] = "Await"     -> word("await") \o FmtExpr(k[1], 10, 0)
        [] e[1] = "Raise"     -> word("raise") \o Fmt(k[1])
        [] e[1] = "Return"    -> <<"return">> \o IfHas(k[1], Space, Fmt)
        [] e[1] = "Break"     -> <<"break">> \o label(k[1]) \o IfHas(k[2], Space, Fmt)
        [] e[1] = "Continue"  -> <<"continue">> \o label(k[1])
        [] e[1] = "IntentBlock" -> word("intent") \o Quoted(k[1][2]) \o Space \o Fmt(k[2])
        [] e[1] \in {"Every", "Timeout"} ->
             word(IF e[1] = "Every" THEN "every" ELSE "timeout") \o Fmt(k[1]) \o Space \o Fmt(k[2])
        [] e[1] = "Retry"     -> word("retry") \o Fmt(k[1]) \o <<",", " ", "delay", ":", " ">>
                                 \o Fmt(k[2]) \o Space \o Fmt(k[3])
        [] e[1] = "CapNarrow" -> <<"cap", ".">> \o Name(k[1]) \o Wrapped("[", FmtCapEntries(k[2]), "]")
        [] OTHER              -> FmtLiteral(e)

-----------------------------------------------------------------------------
(* Items                                                                   *)

FmtParam(p) == Name(p[2][1]) \o <<":", " ">> \o FmtType(p[2][2])
FmtParams(list) == Wrapped("(", CommaList(FmtParam, list), ")")
FmtGenerics(list) == IF list[2] = <<>> THEN <<>> ELSE Wrapped("<", CommaList(Name, list), ">")

\* `{', one part to a line, `}'.
Lines(parts) == <<"{">> \o FlattenSeq([k \in 1 .. Len(parts) |-> Space \o parts[k]]) \o <<" ", "}">>

FmtRecordField(f) ==
  Name(f[2][1]) \o <<":", " ">> \o FmtType(f[2][2]) \o IfHas(f[2][3], <<" ", "where", " ">>, Fmt)

FmtEnumVariant(v) ==
  LET data == v[2][2]
  IN  Name(v[2][1]) \o (CASE data[1] = "Unit"  -> <<>>
                          [] data[1] = "Tuple" -> Wrapped("(", CommaList(FmtType, data[2][1]), ")")
                          [] OTHER -> Space \o Lines(Map(FmtRecordField, data[2][1])))
  \o <<",">>

FmtClause(kw, e) == <<kw, ":", " ">> \o Fmt(e)
FmtClauses(kw, list) == Map(LAMBDA e : FmtClause(kw, e), list)

FmtSagaStep(s) ==
  LET k == s[2]
      undo == IF k[4][1] = "Noop" THEN <<"noop">> ELSE Fmt(k[4])
  IN  <<"step", " ">> \o Name(k[1]) \o Space
      \o Lines(FmtClauses("requires", k[2])
               \o << <<"do", " ">> \o Fmt(k[3]), <<"undo", " ">> \o undo >>)

FmtPipelineStep(s) ==
  LET k == s[2]
      label(text) == Quoted(text[2]) \o <<":", " ">>
      bound == k[3][2]
  IN  <<"|", " ">> \o IfHas(k[1], <<>>, label) \o Fmt(k[2])
      \o (IF Has(k[3]) THEN <<" ", "as", " ">> \o Name(bound[1]) \o IfHas(bound[2], <<" ", ":", " ">>, FmtType)
          ELSE <<>>)

FmtDeclField(f) == Name(f[2][1]) \o <<":", " ">> \o CommaList(Fmt, f[2][2])

FmtFlow(f) ==
  LET stage(s) == IF s[1] = "Single" THEN Name(s[2][1]) ELSE Spaced(Map(Name, s[2][1]), Comma)
  IN  <<"flow", " ">> \o Joined(Map(stage, f[2][1]), <<" ", "->", " ">>)

\* A part that may be absent, as a list of at most one line.
Line(opt, F(_)) == IF Has(opt) THEN <<F(opt[2][1])>> ELSE <<>>

FmtDecl(d) ==
  LET k == d[2]
      head(word) == <<word, " ">> \o Name(k[1])
      intent(s)  == <<"intent", " ">> \o Quoted(s[2])
  IN  CASE d[1] = "Fn" ->
             head("fn") \o FmtGenerics(k[2]) \o FmtParams(k[3]) \o IfHas(k[4], <<" ", "->", " ">>, FmtType)
             \o FlattenSeq(Map(LAMBDA e : Space \o FmtClause("requires", e), k[5])
                           \o Map(LAMBDA e : Space \o FmtClause("ensures", e), k[6]))
             \o Space \o Fmt(k[7])
        [] d[1] = "RecordDecl" -> head("record") \o FmtGenerics(k[2]) \o Space \o Lines(Map(FmtRecordField, k[3]))
        [] d[1] = "EnumDecl"   -> head("enum") \o FmtGenerics(k[2]) \o Space \o Lines(Map(FmtEnumVariant, k[3]))
        [] d[1] = "Model"      ->
             head("model") \o <<"@">> \o Name(k[2]) \o Space
             \o Lines(Map(FmtRecordField, k[4]) \o Map(LAMBDA w : FmtClause("where", w[2][1]), k[5]))
        [] d[1] = "TypeAlias"  -> head("type") \o FmtGenerics(k[2]) \o <<" ", "=", " ">> \o FmtType(k[3])
        [] d[1] = "Const"      -> head("const") \o OfType(k[2]) \o <<" ", "=", " ">> \o FmtRaw(k[4][2])
        [] d[1] = "Saga"       ->
             head("saga") \o FmtParams(k[2]) \o Space \o Lines(<<intent(k[3])>> \o Map(FmtSagaStep, k[4]))
        [] d[1] = "Pipeline"   ->
             head("pipeline") \o FmtParams(k[2]) \o Space
             \o Lines(<<intent(k[3]), <<"steps", ":">>>> \o Map(FmtPipelineStep, k[4])
                      \o Line(k[5], LAMBDA e : FmtClause("on_step", e))
                      \o Line(k[6], LAMBDA e : FmtClause("on_failure", e)))
        [] d[1] = "Agent"      -> head("agent") \o Space \o Lines(Map(FmtDeclField, k[2]))
        [] d[1] = "Policy"     -> head("policy") \o Space \o Lines(Map(FmtDeclField, k[2]))
        [] d[1] = "AgentNet"   ->
             head("agent_net") \o Space
             \o Lines(Line(k[2], LAMBDA n : intent(n[2][1])) \o Map(FmtFlow, k[3])
                      \o Line(k[4], LAMBDA n : FmtClause("until", n[2][1])))
        [] d[1] = "Test"       -> <<"test", " ", "\"">> \o k[1][2] \o <<"\"", " ">> \o Fmt(k[3])
        [] d[1] = "Property"   ->
             <<"property", " ", "\"">> \o k[1][2] \o <<"\"", " ", "with", " ">> \o FmtParams(k[2])
             \o Space \o Fmt(k[3])
        [] OTHER -> Fmt(d)

FmtItem(i) == (IF i[2][1] = Leaf("yes") THEN <<"pub", " ">> ELSE <<>>) \o FmtDecl(i[2][2])

\* Operators are written character by character: what stands next to them
\* may fuse with them when the text is read again.
Spelled(glyphs) ==
  FlattenSeq([k \in 1 .. Len(glyphs) |->
    LET same == {n \in 1 .. Len(Fused) : Fused[n][2] = glyphs[k]}
    IN  IF same = {} THEN <<glyphs[k]>> ELSE Fused[CHOOSE n \in same : TRUE][1]])

FormatModule(m) ==
  Spelled(Joined([k \in 1 .. Len(m.uses) |-> FmtRaw(m.uses[k].raw)]
                 \o [k \in 1 .. Len(m.items) |-> FmtItem(m.items[k])], Space))
=============================================================================
