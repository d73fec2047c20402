------------------------------- MODULE Parser -------------------------------
(***************************************************************************)
(* The parser: src/src/syntax/parser.rs over the trees of ast.rs.          *)
(*                                                                         *)
(* First its machinery: what the helpers of struct Parser (peek, advance,  *)
(* the expect and eat families) and the loop shapes its parse functions    *)
(* repeat do to its state.  A production is data, built with the           *)
(* constructors below; Production gives the one of a name, Run interprets  *)
(* one from a parser state.  The parser decides by lookahead and never     *)
(* goes back, so an error inside a production that has begun is an error   *)
(* of the whole.                                                           *)
(*                                                                         *)
(* Then one production per parse function.  An optional part is None or    *)
(* Some.  A tree is a pair <<tag, kids>>: the tag is a string, the kids    *)
(* are trees or, for a literal, the characters it holds.  Spans are kept   *)
(* only where the formatter slices the source with them (the value of a    *)
(* const).                                                                 *)
(***************************************************************************)
EXTENDS Lexer, SequencesExt

CONSTANTS
  Versions,   \* the identifiers of the form v<digits>
  Pascal      \* the identifiers that begin with an upper-case letter

\* struct Parser: the tokens, the position and the two modes.  lit: a record
\* literal may follow a name; pipe: `|' separates pipeline steps.
NewParser(toks) == [src |-> toks, toks |-> toks, i |-> 1, lit |-> TRUE, pipe |-> FALSE]

Ahead(s, k) == IF s.i + k <= Len(s.toks) THEN s.toks[s.i + k] ELSE <<"none", <<>>>>
Peek(s) == Ahead(s, 0)
AtEof(s) == Peek(s)[1] = "Eof"

\* advance: the end of the input is never passed.
Advance(s) == IF s.i < Len(s.toks) THEN [s EXCEPT !.i = @ + 1] ELSE s

\* The classes a lookahead may name: the token's kind, an identifier's text
\* and whether it reads as a model version or a constructor.  Inside a
\* pipeline step `|' is no operator; `lit{' is a brace where a record literal
\* is allowed.
Contextual == {"noop", "steps", "on_step", "on_failure", "delay", "fixture",
               "subset", "test_subset", "_"}

Classes(s, tok) ==
  CASE tok[1] = "Ident" ->
         {"Ident"} \cup ({tok[2][1]} \cap Contextual)
           \cup (IF tok[2][1] \in Versions THEN {"Version"} ELSE {})
           \cup (IF tok[2][1] \in Pascal THEN {"Pascal"} ELSE {})
    [] tok[1] = "{" -> IF s.lit THEN {"{", "lit{"} ELSE {"{"}
    [] tok[1] = "|" -> IF s.pipe THEN {} ELSE {"|"}
    [] OTHER -> {tok[1]}

\* A lookahead is a sequence of class sets; one that holds "except" is passed
\* by the tokens of no other class in it.
Fits(s, look) ==
  \A k \in 1 .. Len(look) :
    LET met == Classes(s, Ahead(s, k - 1)) \cap look[k] # {}
    IN  IF "except" \in look[k] THEN ~met ELSE met

Leaf(x) == <<x, <<>>>>
Listed(kids) == <<"list", kids>>
None == Leaf("none")
Some(kids) == <<"some", kids>>
Has(tree) == tree[1] = "some"

\* What a captured token contributes to the tree.
Content(tok) == CASE tok[1] \in {"Ident", "Label"} -> Leaf(tok[2][1])
                  [] tok[1] = "Str" -> tok
                  [] OTHER -> Leaf(tok[1])

\* A result: the state after it, the captured values and the span, a pair of
\* token positions, or <<>> for what leaves no span.
Done(s, v, sp) == [ok |-> TRUE, s |-> s, v |-> v, sp |-> sp]
Fail(s) == [ok |-> FALSE, s |-> s, v |-> <<>>, sp |-> <<>>]

SpanJoin(a, b) == IF a = <<>> THEN b ELSE IF b = <<>> THEN a ELSE <<a[1], b[2]>>

-----------------------------------------------------------------------------
(* Constructors                                                            *)

Tok(class)       == [op |-> "tok", at |-> {class}, keep |-> FALSE, loud |-> TRUE]
Get(classes)     == [op |-> "tok", at |-> classes, keep |-> TRUE, loud |-> TRUE]
Hush(g)          == [g EXCEPT !.loud = FALSE]     \* outside the span of the node
Lit(classes)     == [op |-> "lit", at |-> classes]
Val(x)           == [op |-> "val", x |-> x]
All(gs)          == [op |-> "all", gs |-> gs]
Node(tag, gs)    == [op |-> "node", tag |-> tag, gs |-> gs]
Opt(look, gs)    == [op |-> "opt", look |-> look, g |-> All(gs)]
Flag(class)      == [op |-> "flag", at |-> class, keep |-> TRUE]
Eat(class)       == [op |-> "flag", at |-> class, keep |-> FALSE]
Star(look, g)    == [op |-> "star", look |-> look, g |-> g]
Sep(g, sep, unless) == [op |-> "sep", g |-> g, sep |-> sep, unless |-> unless]
List(g, close)   == [op |-> "list", g |-> g, close |-> close]   \* (g ("," g)* ","?)?
\* Members up to a closing token: a comma may follow each (Loose) or must
\* stand between two (Strict); nothing follows a member that starts with last.
Loose(g, close)  == [op |-> "body", g |-> g, close |-> close, strict |-> FALSE, last |-> {}]
Strict(g, close, last) == [op |-> "body", g |-> g, close |-> close, strict |-> TRUE, last |-> last]
Pick(alts)       == [op |-> "pick", alts |-> alts]
When(look, g)    == [look |-> look, g |-> g]
With(mode, b, g) == [op |-> "with", mode |-> mode, b |-> b, g |-> g]
Grow(name, alts) == [op |-> "grow", name |-> name, alts |-> alts]
Then(look, tag, gs)    == [look |-> look, tag |-> tag, g |-> All(gs), trial |-> FALSE]
Trial(look, tag, gs, n) == [look |-> look, tag |-> tag, g |-> All(gs),
                            trial |-> TRUE, ahead |-> All(SubSeq(gs, 1, n))]
Ref(name)        == [op |-> "ref", name |-> name]
Build(how, gs)   == [op |-> "build", how |-> how, gs |-> gs]
Raw(g)           == [op |-> "raw", g |-> g]
CloseAngle       == [op |-> "close"]
Interpolated     == [op |-> "interp"]
StepExpr         == [op |-> "step"]

Ident == Get({"Ident"})
Text  == Get({"Str"})

-----------------------------------------------------------------------------
(* The productions.                                                        *)


Colon == <<{":"}>>
OptType == Opt(Colon, <<Tok(":"), Ref("type")>>)
Params(g) == All(<<Tok("("), List(g, {")"}), Tok(")")>>)

-----------------------------------------------------------------------------
(* Types                                                                   *)

Angle == {">", ">>", ">="}

Type ==
  Pick(<<When(<<{"("}>>,  Ref("tuple_type")),
         When(<<{"cap"}>>, Ref("cap_type")),
         When(<<{"fn"}>>,  Ref("fn_type")),
         When(<<{"Ident"}>>, Ref("named_type"))>>)

TupleOrParenType ==
  Pick(<<When(<<{"("}, {")"}>>, Node("TTuple", <<Tok("("), Tok(")")>>)),
         When(<<{"("}>>, Build("TTuple", <<Tok("("), Ref("type"),
                 Opt(<<{","}>>, <<Tok(","), List(Ref("type"), {")"})>>), Tok(")")>>))>>)

CapPath == Node("Path", <<Ident, Opt(<<{"."}>>, <<Tok("."), Ident>>)>>)

CapAllowList ==
  Pick(<<When(<<{"Str"}>>, Build("listed", <<Text>>)),
         When(<<{"["}>>, All(<<Tok("["), List(Text, {"]"}), Tok("]")>>))>>)

CapEntry == Node("Entry", <<CapPath, Opt(<<{"@"}>>, <<Tok("@"), CapAllowList>>)>>)
CapEntries == All(<<Tok("["), List(CapEntry, {"]"}), Tok("]")>>)

CapType ==
  Pick(<<When(<<{"cap"}, {"["}, {"*"}>>,
              Node("TCap", <<Tok("cap"), Tok("["), Flag("*"), Tok("]"), Val(Listed(<<>>))>>)),
         When(<<>>, Node("TCap", <<Tok("cap"), Val(Leaf("no")), CapEntries>>))>>)

FnType == Node("TFn", <<Tok("fn"), Params(Ref("type")), Tok("->"), Ref("type")>>)

NamedOrGenericOrModelType ==
  Pick(<<When(<<{"Ident"}, {"@"}>>, Node("TModel", <<Ident, Tok("@"), Get({"Version"})>>)),
         When(<<{"Ident"}, {"<"}>>,
              Node("TGeneric", <<Ident, Tok("<"), List(Ref("type"), Angle), CloseAngle>>)),
         When(<<>>, Node("TNamed", <<Ident>>))>>)

Generics ==
  Pick(<<When(<<{"<"}>>, All(<<Tok("<"), List(Ident, Angle), CloseAngle>>)),
         When(<<>>, Val(Listed(<<>>)))>>)

-----------------------------------------------------------------------------
(* Expressions, from the loosest operator to the tightest                  *)

\* expr_can_start: the tokens after which `..', return and break go on.
CanStart ==
  <<{"Int", "Float", "Str", "Interp", "Bytes", "Char", "Date", "Timestamp",
     "Duration", "Ident", "(", "[", "{", "-", "true", "false", "if", "match",
     "fn", "spawn", "await", "raise", "return", "break", "continue", "cap",
     "intent", "not"}>>

Ranges == {"..", "..="}
AssignOrder == <<"=", "+=", "-=", "*=", "/=", "%=">>
AssignOps == Range(AssignOrder)

Infix(op, sub) == Then(<<{op}>>, op, <<Tok(op), sub>>)

\* To the right of these two operators stands the production itself.
Assign == Grow("range", [k \in 1 .. 6 |-> Infix(AssignOrder[k], Ref("assign"))])

RangeExpr ==
  Pick(<<When(<<Ranges>>, Node("Range", <<Val(None), Get(Ranges), Opt(CanStart, <<Ref("or")>>)>>)),
         When(<<>>, Build("range", <<Ref("or"),
                Opt(<<Ranges>>, <<Hush(Get(Ranges)), Opt(CanStart, <<Ref("or")>>)>>)>>))>>)

Or == Grow("coalesce", <<Infix("or", Ref("coalesce"))>>)
Coalesce == Grow("and", <<Infix("??", Ref("coalesce"))>>)
And == Grow("is_as", <<Infix("and", Ref("is_as"))>>)
IsAs == Grow("cmp", <<Infix("is", Ref("pattern")), Infix("as", Ref("type"))>>)

Left(ops, sub) == Grow(sub, [k \in 1 .. Len(ops) |-> Infix(ops[k], Ref(sub))])
Cmp    == Left(<<"==", "!=", "<", "<=", ">", ">=">>, "bitops")
Bitops == Left(<<"&", "|", "^">>, "shift")
Shift  == Left(<<"<<", ">>">>, "addsub")
AddSub == Left(<<"+", "-">>, "muldiv")
MulDiv == Left(<<"*", "/", "%">>, "unary")

Unary ==
  Pick(<<When(<<{"-"}>>, Node("Neg", <<Tok("-"), Ref("unary")>>)),
         When(<<{"not"}>>, Node("Not", <<Tok("not"), Ref("unary")>>)),
         When(<<>>, Ref("postfix"))>>)

CallArg == Node("Arg", <<Opt(<<{"Ident"} \cup Keywords, {":"}>>,
                             <<Get({"Ident"} \cup Keywords), Tok(":")>>), Ref("expr")>>)

\* The turbofish is tried first and taken only when a `(' follows its `>'.
Turbofish == <<Tok("<"), Sep(Ref("type"), ",", <<>>), CloseAngle, Tok("(")>>

Postfix ==
  Grow("primary",
    <<Then(<<{"."}>>, "Field", <<Tok("."), Get({"Ident", "*"} \cup Keywords)>>),
      Then(<<{"("}>>, "Call", <<Val(Listed(<<>>)), Params(CallArg)>>),
      Trial(<<{"<"}>>, "Call", Turbofish \o <<List(CallArg, {")"}), Tok(")")>>, 4),
      Then(<<{"["}>>, "Index", <<Tok("["), With("lit", TRUE, Ref("expr")), Tok("]")>>),
      Then(<<{"?"}>>, "Try", <<Tok("?")>>),
      Then(<<{"catch"}>>, "Catch", <<Tok("catch"), Ident, Ref("block")>>)>>)

Primary ==
  Pick(<<When(<<{"Int", "Float", "Str", "Bytes", "Char", "Date", "Timestamp",
                 "Duration", "true", "false"}>>,
              Lit({"Int", "Float", "Str", "Bytes", "Char", "Date", "Timestamp",
                   "Duration", "true", "false"})),
         When(<<{"Interp"}>>, Interpolated),
         When(<<{"("}>>, Ref("paren")),
         When(<<{"["}>>, Ref("list")),
         When(<<{"{"}, {"Ident"}, {":"}>>, Ref("anon_record")),
         When(<<{"{"}, {".."}>>, Ref("anon_record")),
         When(<<{"{"}>>, Ref("block")),
         When(<<{"if"}>>, Ref("if")),
         When(<<{"match"}>>, Ref("match")),
         When(<<{"fn"}>>, Ref("lambda")),
         When(<<{"spawn"}>>, Node("Spawn", <<Tok("spawn"), Ref("block")>>)),
         When(<<{"await"}>>, Node("Await", <<Tok("await"), Ref("unary")>>)),
         When(<<{"raise"}>>, Node("Raise", <<Tok("raise"), Ref("expr")>>)),
         When(<<{"return"}>>, Node("Return", <<Tok("return"), Opt(CanStart, <<Ref("expr")>>)>>)),
         When(<<{"break"}>>, Ref("break")),
         When(<<{"continue"}>>,
              Node("Continue", <<Tok("continue"), Opt(<<{"Label"}>>, <<Get({"Label"})>>)>>)),
         When(<<{"cap"}>>, Ref("cap_primary")),
         When(<<{"intent"}>>, Node("IntentBlock", <<Tok("intent"), Text, Ref("block")>>)),
         When(<<{"every"}>>, Ref("every")),
         When(<<{"retry"}>>, Ref("retry")),
         When(<<{"timeout"}>>, Ref("timeout")),
         When(<<{"Ident"}>>, Ref("name"))>>)

\* A head in front of a block: no record literal, or the block would be one.
BeforeBlock(g) == With("lit", FALSE, g)

Every   == Node("Every", <<Tok("every"), BeforeBlock(Ref("expr")), Ref("block")>>)
Timeout == Node("Timeout", <<Tok("timeout"), BeforeBlock(Ref("expr")), Ref("block")>>)
Retry   == Node("Retry", <<Tok("retry"),
             BeforeBlock(All(<<Ref("expr"), Tok(","), Tok("delay"), Tok(":"), Ref("expr")>>)), Ref("block")>>)
Break   == Node("Break", <<Tok("break"), Opt(<<{"Label"}>>, <<Get({"Label"})>>),
                           Opt(CanStart, <<Ref("expr")>>)>>)

\* Parentheses leave neither a node nor a span; a comma makes a tuple.
ParenOrTuple ==
  Pick(<<When(<<{"("}, {")"}>>, Node("Unit", <<Tok("("), Tok(")")>>)),
         When(<<>>, Build("paren", <<Hush(Tok("(")),
                With("lit", TRUE, All(<<Ref("expr"),
                       Opt(<<{","}>>, <<Tok(","), List(Ref("expr"), {")"})>>),
                       Hush(Tok(")"))>>))>>))>>)

ListLiteral ==
  Node("List", <<Tok("["), With("lit", TRUE, All(<<List(Ref("expr"), {"]"}), Tok("]")>>))>>)

RecordLitBody ==
  With("lit", TRUE, Strict(
    Pick(<<When(<<{".."}>>, Node("Spread", <<Tok(".."), Ref("expr")>>)),
           When(<<>>, Node("Init", <<Ident, Tok(":"), Ref("expr")>>))>>), {"}"}, {}))

Braced == All(<<Tok("{"), RecordLitBody, Tok("}")>>)
AnonRecordLit == Build("anon", <<Braced>>)

IdentOrRecordLit ==
  Build("name", <<Ident,
    Opt(<<{"@"}, {"Version"}>>, <<Tok("@"), Get({"Version"})>>),
    Pick(<<When(<<{"lit{"}, {"Ident"}, {":"}>>, Build("some", <<Braced>>)),
           When(<<{"lit{"}, {".."}>>, Build("some", <<Braced>>)),
           When(<<>>, Val(None))>>)>>)

CapPrimary ==
  Pick(<<When(<<{"cap"}, {"."}, {"subset", "test_subset"}, {"["}>>,
              Node("CapNarrow", <<Tok("cap"), Tok("."), Get({"subset", "test_subset"}), CapEntries>>)),
         When(<<>>, Node("Ident", <<Get({"cap"})>>))>>)

IfExpr ==
  Node("If", <<Tok("if"), BeforeBlock(Ref("expr")), Ref("block"),
    Opt(<<{"else"}>>, <<Tok("else"), Pick(<<When(<<{"if"}>>, Ref("if")),
                                            When(<<>>, Ref("block"))>>)>>)>>)

MatchArm ==
  Node("Arm", <<Ref("pattern"), Opt(<<{"if"}>>, <<Tok("if"), BeforeBlock(Ref("expr"))>>),
                Tok("->"), Ref("expr")>>)
MatchExpr ==
  Node("Match", <<Tok("match"), BeforeBlock(Ref("expr")), Tok("{"),
                  Strict(MatchArm, {"}"}, {}), Tok("}")>>)

LambdaParam == Node("LParam", <<Ident, OptType>>)
Lambda == Node("Lambda", <<Tok("fn"), Params(LambdaParam),
                           Opt(<<{"->"}>>, <<Tok("->"), Ref("type")>>), Ref("block")>>)

-----------------------------------------------------------------------------
(* Patterns, blocks and statements                                         *)

Literals == {"Int", "Float", "Str", "Interp", "Char", "Date", "Timestamp",
             "Duration", "true", "false"}

Pattern ==
  Pick(<<When(<<{"_"}>>, Node("Wildcard", <<Tok("_")>>)),
         When(<<{"Ident"}, {"("}>>, Node("Constructor", <<Ident, Params(Ref("pattern"))>>)),
         When(<<{"Ident"}, {"{"}>>, Node("RecordCtor", <<Ident, Tok("{"),
           Strict(Pick(<<When(<<{".."}>>, Node("Rest", <<Tok("..")>>)),
                         When(<<>>, Node("PField", <<Ident, Opt(Colon, <<Tok(":"), Ref("pattern")>>)>>))>>),
                  {"}"}, {".."}), Tok("}")>>)),
         When(<<{"Pascal"}>>, Node("Constructor", <<Ident, Val(Listed(<<>>))>>)),
         When(<<{"Ident"}>>, Node("Bind", <<Ident>>)),
         When(<<Literals>>, Node("Lit", <<Ref("primary")>>)),
         When(<<{"-"}>>, Node("Lit", <<Ref("unary")>>)),
         When(<<{"("}>>, Node("PTuple", <<Params(Ref("pattern"))>>)),
         When(<<{"["}>>, Node("PList", <<Tok("["),
           Strict(Pick(<<When(<<{".."}>>, Node("Rest", <<Tok(".."), Opt(<<{"Ident"}>>, <<Ident>>)>>)),
                         When(<<>>, Ref("pattern"))>>), {"]"}, {}), Tok("]")>>))>>)

Semi == Eat(";")
LetStmt   == Node("Let", <<Tok("let"), Ident, OptType, Tok("="), Ref("expr"), Semi>>)
VarStmt   == Node("Var", <<Tok("var"), Ident, OptType, Tok("="), Ref("expr"), Semi>>)
ForStmt   == Node("For", <<Tok("for"), Ident, Tok("in"), BeforeBlock(Ref("expr")), Ref("block"), Semi>>)
WhileStmt == Node("While", <<Tok("while"), BeforeBlock(Ref("expr")), Ref("block"), Semi>>)
LoopStmt  == Node("While", <<Tok("loop"), Val(Leaf("true")), Ref("block"), Semi>>)

Stmt ==
  Pick(<<When(<<{"let"}>>, LetStmt), When(<<{"var"}>>, VarStmt),
         When(<<{"defer"}>>, Node("Defer", <<Tok("defer"), Ref("expr"), Semi>>)),
         When(<<{"for"}>>, ForStmt), When(<<{"while"}>>, WhileStmt), When(<<{"loop"}>>, LoopStmt),
         When(<<>>, Node("Do", <<Ref("expr"), Flag(";")>>))>>)

\* The last expression, when no `;' follows it, is the value of the block.
Block ==
  Build("block", <<Tok("{"),
    With("lit", TRUE, All(<<Star(<<{"except", "}", "Eof"}>>, Ref("stmt")), Tok("}")>>))>>)

-----------------------------------------------------------------------------
(* Items                                                                   *)

AnyType == <<"TNamed", <<Leaf("any")>>>>
CapStar == <<"TCap", <<Leaf("yes"), Listed(<<>>)>>>>

Param ==
  Pick(<<When(<<{"cap", "Ident"}, {":"}>>, Node("Param", <<Get({"cap", "Ident"}), Tok(":"), Ref("type")>>)),
         When(<<{"cap"}>>, Node("Param", <<Get({"cap"}), Val(CapStar)>>)),
         When(<<>>, Node("Param", <<Ident, Val(AnyType)>>))>>)

Clause(kw) == All(<<Tok(kw), Tok(":"), Ref("expr")>>)

FnWithAttrs ==
  Build("fn", <<Tok("fn"), Ident, Generics, Params(Param),
    Opt(<<{"->"}>>, <<Tok("->"), Ref("type")>>),
    Star(<<{"requires", "ensures"}>>,
         Node("Clause", <<Get({"requires", "ensures"}), Tok(":"), Ref("expr")>>)),
    Ref("block")>>)

\* `where e' belongs to the field, `where: e' to the model.
RecordFieldDecl ==
  Node("RField", <<Ident, Tok(":"), Ref("type"),
    Opt(<<{"where"}, {"except", ":"}>>, <<Tok("where"), Ref("expr")>>)>>)

RecordItem == Node("RecordDecl", <<Tok("record"), Ident, Generics, Tok("{"),
                                   Loose(RecordFieldDecl, {"}"}), Tok("}")>>)

VariantTupleElem ==
  Pick(<<When(<<{"Ident"}, {":"}>>, All(<<Tok("Ident"), Tok(":"), Ref("type")>>)),
         When(<<>>, Ref("type"))>>)

Variant ==
  Node("Variant", <<Ident,
    Pick(<<When(<<{"("}>>, Node("Tuple", <<Params(VariantTupleElem)>>)),
           When(<<{"{"}>>, Node("Fields", <<Tok("{"), Loose(RecordFieldDecl, {"}"}), Tok("}")>>)),
           When(<<>>, Node("Unit", <<>>))>>)>>)

EnumItem == Node("EnumDecl", <<Tok("enum"), Ident, Generics, Tok("{"), Loose(Variant, {"}"}), Tok("}")>>)

ModelItem ==
  Build("model", <<Tok("model"), Ident, Tok("@"), Get({"Version"}),
    Opt(<<{"extends"}>>, <<Tok("extends"), Ident, Tok("@"), Get({"Version"})>>), Tok("{"),
    Loose(Pick(<<When(<<{"where"}>>, Node("Where", <<Clause("where")>>)),
                 When(<<>>, RecordFieldDecl)>>), {"}"}), Tok("}")>>)

TypeAliasItem == Node("TypeAlias", <<Tok("type"), Ident, Generics, Tok("="), Ref("type")>>)
ConstItem == Node("Const", <<Tok("const"), Ident, OptType, Tok("="), Raw(Ref("expr"))>>)

Saga ==
  Node("Saga", <<Tok("saga"), Ident, Params(Param), Tok("{"), Tok("intent"), Text,
                 Star(<<{"step"}>>, Ref("saga_step")), Tok("}")>>)
SagaStep ==
  Node("SagaStep", <<Tok("step"), Ident, Tok("{"), Star(<<{"requires"}>>, Clause("requires")),
    Tok("do"), Ref("block"), Tok("undo"),
    Pick(<<When(<<{"noop"}>>, Node("Noop", <<Tok("noop")>>)), When(<<{"{"}>>, Ref("block"))>>),
    Tok("}")>>)

\* A step: the label needs its colon, and `do' or `undo' is refused.
PipelineStep ==
  Build("step", <<Tok("|"), Opt(<<{"Str"}, {":"}>>, <<Text, Tok(":")>>),
                  Pick(<<When(<<{"except", "do", "undo"}>>, StepExpr)>>)>>)
Pipeline ==
  Build("pipeline", <<Tok("pipeline"), Ident, Params(Param), Tok("{"), Tok("intent"), Text,
    Tok("steps"), Tok(":"), Star(<<{"|"}>>, PipelineStep),
    Star(<<{"on_step", "on_failure"}>>,
         Node("Hook", <<Get({"on_step", "on_failure"}), Tok(":"), Ref("expr")>>)), Tok("}")>>)

\* Values go on after a comma unless a field starts or the block ends there.
DeclFieldKeys == {"Ident", "match", "intent", "policy", "require", "deny", "limit", "when"}
StartsField == << <<{","}, {"}"}>>, <<{","}, {"Ident"} \cup Keywords, {":"}>> >>
DeclField == Node("DField", <<Get(DeclFieldKeys), Tok(":"), Sep(Ref("expr"), ",", StartsField)>>)
Decl(tag, kw) == Node(tag, <<Tok(kw), Ident, Tok("{"), Star(<<{"except", "}"}>>, DeclField), Tok("}")>>)
Agent  == Decl("Agent", "agent")
Policy == Decl("Policy", "policy")

FlowStage ==
  Pick(<<When(<<{"{"}>>, Node("FanOut", <<Tok("{"), List(Ident, {"}"}), Tok("}")>>)),
         When(<<>>, Node("Single", <<Ident>>))>>)
Flow == Node("Flow", <<Tok("flow"), Sep(FlowStage, "->", <<>>)>>)
AgentNet ==
  Build("net", <<Tok("agent_net"), Ident, Tok("{"),
    Star(<<{"except", "}"}>>,
         Pick(<<When(<<{"intent"}>>, Node("Intent", <<Tok("intent"), Text>>)),
                When(<<{"flow"}>>, Flow),
                When(<<{"until"}>>, Node("Until", <<Clause("until")>>))>>)), Tok("}")>>)

Test ==
  Node("Test", <<Tok("test"), Text,
    Opt(<<{"with"}>>, <<Tok("with"), Tok("fixture"), Tok(":"), Text>>), Ref("block")>>)
Property == Node("Property", <<Tok("property"), Text, Tok("with"), Params(Param), Ref("block")>>)

\* ident_starts_top_stmt: a call, a path or an assignment, never `name name'.
TopStarters == {".", "(", "=", "+=", "-=", "*=", "/=", "%=", "??", "?", "["}
TopExpr == Node("Do", <<Ref("expr"), Semi>>)
TopStmt ==
  Pick(<<When(<<{"let"}>>, LetStmt), When(<<{"for"}>>, ForStmt), When(<<{"while"}>>, WhileStmt),
         When(<<{"loop"}>>, LoopStmt), When(<<{"if"}>>, TopExpr),
         When(<<{"Ident"}, TopStarters>>, TopExpr)>>)

Attribute == All(<<Tok("#"), Tok("["), Tok("policy"), Params(Ident), Tok("]")>>)

Item ==
  Build("item", <<Star(<<{"#"}>>, Attribute), Flag("pub"),
    Pick(<<When(<<{"fn"}>>, FnWithAttrs), When(<<{"record"}>>, RecordItem),
           When(<<{"enum"}>>, EnumItem), When(<<{"model"}>>, ModelItem),
           When(<<{"type"}>>, TypeAliasItem), When(<<{"const"}>>, ConstItem),
           When(<<{"saga"}>>, Saga), When(<<{"pipeline"}>>, Pipeline),
           When(<<{"agent"}>>, Agent), When(<<{"agent_net"}>>, AgentNet),
           When(<<{"policy"}>>, Policy), When(<<{"test"}>>, Test),
           When(<<{"property"}>>, Property), When(<<>>, TopStmt)>>)>>)

Production(name) ==
  CASE name = "expr" -> Assign [] name = "assign" -> Assign
    [] name = "type" -> Type [] name = "tuple_type" -> TupleOrParenType
    [] name = "cap_type" -> CapType [] name = "fn_type" -> FnType
    [] name = "named_type" -> NamedOrGenericOrModelType
    [] name = "range" -> RangeExpr [] name = "or" -> Or
    [] name = "coalesce" -> Coalesce [] name = "and" -> And
    [] name = "is_as" -> IsAs [] name = "cmp" -> Cmp
    [] name = "bitops" -> Bitops [] name = "shift" -> Shift
    [] name = "addsub" -> AddSub [] name = "muldiv" -> MulDiv
    [] name = "unary" -> Unary [] name = "postfix" -> Postfix
    [] name = "primary" -> Primary [] name = "paren" -> ParenOrTuple
    [] name = "list" -> ListLiteral [] name = "anon_record" -> AnonRecordLit
    [] name = "name" -> IdentOrRecordLit
    [] name = "cap_primary" -> CapPrimary [] name = "if" -> IfExpr
    [] name = "match" -> MatchExpr [] name = "lambda" -> Lambda
    [] name = "every" -> Every [] name = "retry" -> Retry
    [] name = "timeout" -> Timeout [] name = "break" -> Break
    [] name = "pattern" -> Pattern [] name = "block" -> Block
    [] name = "stmt" -> Stmt [] name = "saga_step" -> SagaStep
    [] name = "item" -> Item

-----------------------------------------------------------------------------
(* What a production makes of the values it captured                       *)

LastOf(seq) == IF seq = <<>> THEN None ELSE Some(<<Last(seq)>>)
Tagged(seq, tags) == SelectSeq(seq, LAMBDA n : n[1] \in tags)

\* A record literal: its spread may stand anywhere and the last one counts.
RecordLit(name, version, members) ==
  LET spreads == Tagged(members, {"Spread"})
  IN  <<"Record", <<name, version, Listed(Tagged(members, {"Init"})),
                    IF spreads = <<>> THEN None ELSE Some(Last(spreads)[2])>>>>

\* The values of the clauses of one kind, in order.
ClausesOf(clauses, kw) ==
  LET those == SelectSeq(clauses, LAMBDA n : n[2][1] = Leaf(kw))
  IN  [k \in 1 .. Len(those) |-> those[k][2][2]]

BlockOf(stmts) ==
  LET plain(n) == IF n[1] = "Do" THEN <<"Do", <<n[2][1]>>>> ELSE n
      tail     == /\ stmts # <<>>
                  /\ Last(stmts)[1] = "Do"
                  /\ Last(stmts)[2][2] = Leaf("no")
      kept     == IF tail THEN Front(stmts) ELSE stmts
  IN  <<"Block", <<Listed([k \in 1 .. Len(kept) |-> plain(kept[k])]),
                   IF tail THEN Some(<<Last(stmts)[2][1]>>) ELSE None>>>>

\* Attributes are kept on functions only, visibility not on tests and
\* top-level statements.
ItemOf(attrs, vis, decl) ==
  <<"Item", <<IF decl[1] \in {"Test", "Property", "Let", "For", "While", "Do"}
              THEN Leaf("no") ELSE vis,
              decl,
              IF decl[1] = "Fn" THEN attrs ELSE Listed(<<>>)>>>>

BuildTree(how, v) ==
  CASE how = "TTuple" -> IF Has(v[2]) THEN <<"TTuple", <<v[1]>> \o v[2][2][1][2]>> ELSE v[1]
    [] how = "listed" -> Listed(v)
    [] how = "some"   -> Some(v)
    [] how = "range"  -> IF Has(v[2]) THEN <<"Range", <<Some(<<v[1]>>)>> \o v[2][2]>> ELSE v[1]
    [] how = "paren"  -> IF Has(v[2]) THEN <<"Tuple", <<v[1]>> \o v[2][2][1][2]>> ELSE v[1]
    [] how = "anon"   -> RecordLit(None, None, v[1][2])
    [] how = "name"   ->
         IF Has(v[3]) THEN RecordLit(Some(<<v[1]>>), v[2], v[3][2][1][2])
         ELSE IF Has(v[2]) THEN <<"ModelRef", <<v[1], v[2][2][1]>>>>
         ELSE <<"Ident", <<v[1]>>>>
    [] how = "block"  -> BlockOf(v[1][2])
    [] how = "fn"     ->
         <<"Fn", SubSeq(v, 1, 4) \o
                 <<Listed(ClausesOf(v[5][2], "requires")), Listed(ClausesOf(v[5][2], "ensures")), v[6]>>>>
    [] how = "model"  ->
         <<"Model", SubSeq(v, 1, 3) \o
                    <<Listed(Tagged(v[4][2], {"RField"})), Listed(Tagged(v[4][2], {"Where"}))>>>>
    [] how = "net"    ->
         <<"AgentNet", <<v[1], LastOf(Tagged(v[2][2], {"Intent"})),
                         Listed(Tagged(v[2][2], {"Flow"})), LastOf(Tagged(v[2][2], {"Until"}))>>>>
    [] how = "pipeline" ->
         <<"Pipeline", SubSeq(v, 1, 4) \o
            <<LastOf(ClausesOf(v[5][2], "on_step")), LastOf(ClausesOf(v[5][2], "on_failure"))>>>>
    [] how = "step"   -> <<"Step", v>>
    [] how = "item"   -> ItemOf(v[1], v[2], v[3])

-----------------------------------------------------------------------------
(* The interpreter                                                         *)

RECURSIVE Run(_, _)

\* The parts of a sequence, one after the other, each from where the last ended.
RECURSIVE Chain(_, _, _)
ChainOn(gs, k, r, q) ==
  IF q.ok THEN Chain(gs, k + 1, Done(q.s, r.v \o q.v, SpanJoin(r.sp, q.sp))) ELSE q
Chain(gs, k, r) == IF k > Len(gs) THEN r ELSE ChainOn(gs, k, r, Run(gs[k], r.s))

RECURSIVE Repeat(_, _, _)
Repeat(look, g, r) ==
  IF ~r.ok \/ ~Fits(r.s, look) THEN r
  ELSE Repeat(look, g, Chain(<<g>>, 1, r))

\* g (sep g)*: a separator that one of the `unless' lookaheads fits ends it.
RECURSIVE Separated(_, _)
Separated(g, r) ==
  IF ~r.ok \/ ~Fits(r.s, <<{g.sep}>>) \/ \E k \in 1 .. Len(g.unless) : Fits(r.s, g.unless[k])
  THEN r
  ELSE Separated(g, Chain(<<Tok(g.sep), g.g>>, 1, r))

RECURSIVE Members(_, _)
Members(g, r) ==
  IF ~r.ok \/ Fits(r.s, <<g.close>>) THEN r
  ELSE LET last == Fits(r.s, <<g.last>>)
           one  == Chain(<<g.g>>, 1, r)
           more == one.ok /\ Fits(one.s, <<{","}>>)
           next == IF more THEN [one EXCEPT !.s = Advance(@)] ELSE one
       IN  IF ~one.ok \/ last \/ (g.strict /\ ~more) THEN next ELSE Members(g, next)

\* Postfixes and left-associative operators: each wraps what stands before it.
Wrapping(tag, r, q) ==
  IF q.ok THEN Done(q.s, << <<tag, r.v \o q.v>> >>, SpanJoin(r.sp, q.sp)) ELSE q

RECURSIVE Growing(_, _)
GrowBy(alts, r) ==
  LET fits == {k \in 1 .. Len(alts) : Fits(r.s, alts[k].look)}
      a    == alts[CHOOSE k \in fits : TRUE]
  IN  IF fits = {} THEN r
      ELSE IF a.trial /\ ~Run(a.ahead, r.s).ok THEN r       \* rewound
      ELSE Growing(alts, Wrapping(a.tag, r, Run(a.g, r.s)))
Growing(alts, r) == IF r.ok THEN GrowBy(alts, r) ELSE r

Made(tag, r) == IF r.ok THEN [r EXCEPT !.v = << <<tag, r.v>> >>] ELSE r
Built(how, r) == IF r.ok THEN [r EXCEPT !.v = <<BuildTree(how, r.v)>>] ELSE r
AsList(r) == IF r.ok THEN [r EXCEPT !.v = <<Listed(r.v)>>] ELSE r

\* The code of an interpolated string is an expression of its own.
ToTheEnd(r) == IF r.ok /\ AtEof(r.s) THEN r ELSE Fail(r.s)
WholeExpr(toks) == ToTheEnd(Run(Ref("expr"), NewParser(toks)))

ParseExpression(glyphs) ==
  LET lexed == Tokenize(glyphs)
  IN  IF lexed.ok THEN WholeExpr(StripTrivia(lexed.toks)) ELSE Fail(NewParser(<<>>))

Interpolation(s, segs, whole) ==
  IF \E k \in DOMAIN segs : ~whole[k].ok THEN Fail(Advance(s))
  ELSE Done(Advance(s),
            << <<"Interp", [k \in DOMAIN segs |->
                  IF segs[k][1] = "code" THEN <<"code", whole[k].v>> ELSE segs[k]]>> >>,
            <<s.i, s.i>>)

RunInterpolated(s) ==
  LET segs == Peek(s)[2]
  IN  Interpolation(s, segs, [k \in DOMAIN segs |->
                                IF segs[k][1] = "code" THEN ParseExpression(segs[k][2])
                                ELSE Done(s, <<>>, <<>>)])

\* `|' ends a pipeline step; a cast to a plain name that ends it is the
\* binding, which may go on with a type.
Bound(e, r, ty) == IF ty.ok THEN Done(ty.s, <<e[2][1], Some(e[2][2][2] \o ty.v)>>, r.sp) ELSE ty

StepEnd(r, after) ==
  LET e == r.v[1]
  IN  IF ~r.ok THEN Fail(after)
      ELSE IF e[1] = "as" /\ e[2][2][1] = "TNamed" THEN Bound(e, r, Run(OptType, after))
      ELSE Done(after, <<e, None>>, r.sp)

RunStepExpr(s) ==
  LET r == Run(Ref("expr"), [s EXCEPT !.pipe = TRUE]) IN StepEnd(r, [r.s EXCEPT !.pipe = s.pipe])

\* One `>' of a fused token is taken, what remains of it stays.
RunCloseAngle(s) ==
  LET left(kind) == Done([s EXCEPT !.toks[s.i] = Leaf(kind)], <<>>, <<s.i, s.i>>)
  IN  CASE Peek(s)[1] = ">"  -> Done(Advance(s), <<>>, <<s.i, s.i>>)
        [] Peek(s)[1] = ">>" -> left(">")
        [] Peek(s)[1] = ">=" -> left("=")
        [] OTHER -> Fail(s)

Run(g, s) ==
  CASE g.op = "tok" ->
         IF Fits(s, <<g.at>>)
         THEN Done(Advance(s), IF g.keep THEN <<Content(Peek(s))>> ELSE <<>>,
                   IF g.loud THEN <<s.i, s.i>> ELSE <<>>)
         ELSE Fail(s)
    [] g.op = "lit"  -> Done(Advance(s), <<Peek(s)>>, <<s.i, s.i>>)
    [] g.op = "val"  -> Done(s, <<g.x>>, <<>>)
    [] g.op = "all"  -> Chain(g.gs, 1, Done(s, <<>>, <<>>))
    [] g.op = "node"  -> Made(g.tag, Chain(g.gs, 1, Done(s, <<>>, <<>>)))
    [] g.op = "build" -> Built(g.how, Chain(g.gs, 1, Done(s, <<>>, <<>>)))
    [] g.op = "opt"  ->
         LET r == Run(g.g, s)
         IN  IF ~Fits(s, g.look) THEN Done(s, <<None>>, <<>>)
             ELSE IF r.ok THEN [r EXCEPT !.v = <<Some(r.v)>>] ELSE r
    [] g.op = "flag" ->
         LET met == Fits(s, <<{g.at}>>)
         IN  Done(IF met THEN Advance(s) ELSE s,
                  IF g.keep THEN <<Leaf(IF met THEN "yes" ELSE "no")>> ELSE <<>>, <<>>)
    [] g.op = "star" -> AsList(Repeat(g.look, g.g, Done(s, <<>>, <<>>)))
    [] g.op = "sep"  -> AsList(Separated(g, Run(g.g, s)))
    [] g.op = "list" ->
         AsList(IF Fits(s, <<g.close>>) THEN Done(s, <<>>, <<>>)
                ELSE Members([g |-> g.g, close |-> g.close, strict |-> TRUE, last |-> {}],
                             Done(s, <<>>, <<>>)))
    [] g.op = "body" -> AsList(Members(g, Done(s, <<>>, <<>>)))
    [] g.op = "pick" ->
         LET fits == {k \in 1 .. Len(g.alts) : Fits(s, g.alts[k].look)}
         IN  IF fits = {} THEN Fail(s)
             ELSE Run(g.alts[CHOOSE k \in fits : \A o \in fits : k <= o].g, s)
    [] g.op = "with" ->                     \* an error leaves the mode as it is
         LET r == Run(g.g, [s EXCEPT ![g.mode] = g.b])
         IN  IF r.ok THEN [r EXCEPT !.s[g.mode] = s[g.mode]] ELSE r
    [] g.op = "grow" -> Growing(g.alts, Run(Production(g.name), s))
    [] g.op = "ref"  -> Run(Production(g.name), s)
    [] g.op = "raw"  ->
         LET r == Run(g.g, s)
         IN  IF r.ok THEN [r EXCEPT !.v = @ \o << <<"raw", SubSeq(s.src, r.sp[1], r.sp[2])>> >>] ELSE r
    [] g.op = "close"  -> RunCloseAngle(s)
    [] g.op = "interp" -> RunInterpolated(s)
    [] g.op = "step"   -> RunStepExpr(s)

-----------------------------------------------------------------------------
(* Modules                                                                 *)

ItemStart == {"pub", "fn", "record", "enum", "model", "type", "const", "use", "saga",
              "pipeline", "agent", "agent_net", "policy", "test", "property"}

IsLocalPath(text) == \/ text # <<>> /\ text[1] = "/"
                     \/ Len(text) > 1 /\ text[1] = "." /\ text[2] = "/"
                     \/ Len(text) > 2 /\ text[1] = "." /\ text[2] = "." /\ text[3] = "/"

\* One clause of a use declaration, from position i: the names it brings into
\* scope and the first local path of the declaration.  A pinned version makes
\* the declaration an external one.
UseClause(toks, i, u) ==
  LET at(k)    == IF i + k <= Len(toks) THEN toks[i + k][1] ELSE "Eof"
      name(k)  == toks[i + k][2][1]
      path(k)  == IF at(k) = "Str" /\ u.path = <<>> /\ IsLocalPath(toks[i + k][2])
                  THEN toks[i + k][2] ELSE u.path
      add(x)   == [u EXCEPT !.names = Append(@, x)]
      close    == CHOOSE j \in i .. Len(toks) :
                    toks[j][1] \in {"}", "Eof"} /\ \A o \in i .. j - 1 : toks[o][1] \notin {"}", "Eof"}
      next     == IF toks[close][1] = "}" THEN close + 1 ELSE close
      from     == IF at(2) = "Str" THEN 3 ELSE 2
      pinned   == at(from) = "Ident" /\ at(from + 1) = "@"
  IN  CASE at(0) = "{" ->
             <<IF toks[next][1] # "from" THEN next
               ELSE IF toks[next + 1][1] = "Ident" THEN next + 2 ELSE next + 1, u>>
        [] at(0) = "Str" -> <<i + 1, [u EXCEPT !.path = path(0)]>>
        [] at(0) = "Ident" /\ at(1) = "as" ->
             IF at(2) = "Ident" THEN <<i + 3, add(name(2))>> ELSE <<i + 2, add(name(0))>>
        [] at(0) = "Ident" /\ at(1) = "from" ->
             <<i + from + (IF ~pinned THEN IF at(from) = "Ident" THEN 1 ELSE 0
                           ELSE IF at(from + 2) = "Str" THEN 3 ELSE 2),
               [add(name(0)) EXCEPT !.path = IF pinned THEN <<>> ELSE path(2)]>>
        [] at(0) = "Ident" -> <<i + 1, add(name(0))>>
        [] OTHER -> <<i + 1, u>>

RECURSIVE UseClauses(_, _, _)
UseClauses(toks, i, u) ==
  IF toks[i][1] \in ItemStart \cup {"Eof"} THEN <<i, u>>
  ELSE LET c == UseClause(toks, i, u)
       IN  IF toks[c[1]][1] = "," THEN UseClauses(toks, c[1] + 1, c[2]) ELSE c

RECURSIVE ParseUses(_, _)
ParseUses(s, uses) ==
  IF Peek(s)[1] # "use" THEN [s |-> s, uses |-> uses]
  ELSE LET c == UseClauses(s.toks, s.i + 1, [names |-> <<>>, path |-> <<>>])
       IN  ParseUses([s EXCEPT !.i = c[1]],
                     Append(uses, [raw |-> SubSeq(s.src, s.i, c[1] - 1),
                                   names |-> c[2].names, path |-> c[2].path]))

\* sync_to_next_item: to the next item keyword outside every bracket.
RECURSIVE SyncToNextItem(_, _)
SyncToNextItem(s, depth) ==
  CASE AtEof(s) \/ (depth = 0 /\ Peek(s)[1] \in ItemStart) -> s
    [] Peek(s)[1] \in {"(", "[", "{"} -> SyncToNextItem(Advance(s), depth + 1)
    [] Peek(s)[1] \in {")", "]", "}"} ->
         SyncToNextItem(Advance(s), IF depth > 0 THEN depth - 1 ELSE 0)
    [] OTHER -> SyncToNextItem(Advance(s), depth)

\* The items from where r ends on, behind those it holds.
RECURSIVE ParseItems(_)
ParseItems(r) ==
  IF ~r.ok \/ AtEof(r.s) THEN r ELSE ParseItems(Chain(<<Ref("item")>>, 1, r))

\* Seeded fault: an item that fails at its first token is passed in silence.
BugAfterItem(acc, r) ==
  IF r.ok THEN [acc EXCEPT !.s = r.s, !.items = @ \o r.v]
  ELSE IF r.s.i = acc.s.i THEN [acc EXCEPT !.s = SyncToNextItem(Advance(r.s), 0)]
  ELSE [acc EXCEPT !.s = SyncToNextItem(r.s, 0), !.errors = Append(@, r.s.i)]
\* An error costs its item, and the token it stopped at when nothing else was
\* taken.
AfterItem(acc, r) ==
  LET from == IF r.s.i = acc.s.i THEN Advance(r.s) ELSE r.s
  IN  IF r.ok THEN [acc EXCEPT !.s = r.s, !.items = @ \o r.v]
      ELSE [acc EXCEPT !.s = SyncToNextItem(from, 0), !.errors = Append(@, r.s.i)]

\* parse_module_recovering
RECURSIVE RecoverItems(_)
RecoverItems(acc) ==
  IF AtEof(acc.s) THEN acc ELSE RecoverItems(AfterItem(acc, Run(Ref("item"), acc.s)))

NoModule == [ok |-> FALSE, uses |-> <<>>, items |-> <<>>]
ModuleOf(uses, body) ==
  IF body.ok THEN [ok |-> TRUE, uses |-> uses, items |-> body.v] ELSE NoModule

\* parse
ParseModule(glyphs) ==
  LET lexed == Tokenize(glyphs)
      head  == ParseUses(NewParser(StripTrivia(lexed.toks)), <<>>)
  IN  IF lexed.ok THEN ModuleOf(head.uses, ParseItems(Done(head.s, <<>>, <<>>))) ELSE NoModule

FoundIn(uses, acc) == [uses |-> uses, items |-> acc.items, errors |-> acc.errors]

\* parse_recovering
ParseRecovering(glyphs) ==
  LET lexed == Tokenize(glyphs)
      head  == ParseUses(NewParser(StripTrivia(lexed.toks)), <<>>)
  IN  IF lexed.ok
      THEN FoundIn(head.uses, RecoverItems([s |-> head.s, items |-> <<>>, errors |-> <<>>]))
      ELSE [uses |-> <<>>, items |-> <<>>, errors |-> <<0>>]
=============================================================================
