------------------------------- MODULE Frontend -------------------------------
(***************************************************************************)
(* The commands that read a source file as text: `aeris fmt' (cmd_fmt),    *)
(* the first half of `aeris check' (parse_recovering) and `aeris doc'      *)
(* (src/src/syntax/doc.rs), run in any order on a file that is being       *)
(* written.                                                                *)
(***************************************************************************)
EXTENDS Formatter, Integers

CONSTANTS
  Programs,    \* whole texts the file may hold to begin with
  Pieces,      \* the pieces of text the author may build it of instead
  MaxPieces    \* bound on the pieces of a file

ASSUME MaxPiecesAssumption == MaxPieces \in Nat

VARIABLES
  file,        \* the text on disk
  pieces,      \* what the author has written, in order
  result       \* what the last command made of the file

vars == <<file, pieces, result>>

-----------------------------------------------------------------------------
(* Documentation                                                           *)

DocItems == ItemStart \ {"pub", "use"}

\* scan_item: the name is the first identifier behind the keyword, or the
\* first text for a test or a property; a model has its version.
ScanItem(toks, i, lines) ==
  LET kind   == toks[i][1]
      named  == {j \in i + 1 .. Len(toks) :
                   \/ toks[j][1] = "Ident"
                   \/ toks[j][1] = "Str" /\ kind \in {"test", "property"}}
      j      == CHOOSE j \in named : \A o \in named : j <= o
      suffix == IF /\ kind = "model" /\ j + 2 < Len(toks)
                   /\ toks[j + 1][1] = "@" /\ toks[j + 2][1] = "Ident"
                THEN <<"@", toks[j + 2][2][1]>> ELSE <<>>
  IN  IF lines = <<>> \/ named = {} THEN <<>>
      ELSE << [kind |-> kind, name |-> toks[j][2] \o suffix, doc |-> lines] >>

\* extract_docs: doc lines are kept over comments and `pub', and dropped at
\* any other token.
RECURSIVE ExtractDocs(_, _, _, _)
\* Seeded fault: an item does not use its lines up.
BugExtractDocs(toks, i, lines, out) ==
  IF i > Len(toks) THEN out
  ELSE IF toks[i][1] = "Doc" THEN ExtractDocs(toks, i + 1, Append(lines, toks[i][2][1]), out)
  ELSE IF toks[i][1] \in DocItems
  THEN ExtractDocs(toks, i + 1, lines, out \o ScanItem(toks, i, lines))
  ELSE ExtractDocs(toks, i + 1, lines, out)
ExtractDocs(toks, i, lines, out) ==
  IF i > Len(toks) THEN out
  ELSE LET kind == toks[i][1]
       IN  CASE kind = "Doc" -> ExtractDocs(toks, i + 1, Append(lines, toks[i][2][1]), out)
             [] kind \in {"Comment", "pub"} -> ExtractDocs(toks, i + 1, lines, out)
             [] kind \in DocItems ->
                  ExtractDocs(toks, i + 1, <<>>, out \o ScanItem(toks, i, lines))
             [] OTHER -> ExtractDocs(toks, i + 1, <<>>, out)

-----------------------------------------------------------------------------
(* The commands                                                            *)

Init == file \in Programs \cup {<<>>} /\ pieces = <<>> /\ result = [cmd |-> "none"]

\* The author goes on writing.
Write(p) ==
  /\ file # <<>> => pieces # <<>>
  /\ Len(pieces) < MaxPieces
  /\ result.cmd = "none"
  /\ file' = file \o p
  /\ pieces' = Append(pieces, p)
  /\ UNCHANGED result

\* cmd_fmt: a file that does not parse stays as it is, any other is
\* overwritten with its canonical text.
FormatFile ==
  \E m \in {ParseModule(file)} :
      /\ result' = [cmd |-> IF m.ok THEN "fmt" ELSE "refused", module |-> m]
      /\ file' = IF m.ok THEN FormatModule(m) ELSE file
      /\ UNCHANGED pieces

CheckFile ==
  /\ result' = [cmd |-> "check", found |-> ParseRecovering(file)]
  /\ UNCHANGED <<file, pieces>>

DocFile ==
  LET lexed == Tokenize(file)
  IN  /\ result' = [cmd |-> "doc",
                    docs |-> IF lexed.ok THEN ExtractDocs(lexed.toks, 1, <<>>, <<>>) ELSE <<>>]
      /\ UNCHANGED <<file, pieces>>

Command == result.cmd = "none" /\ file # <<>> /\ (FormatFile \/ CheckFile \/ DocFile)

Next == (\E p \in Pieces : Write(p)) \/ Command

Spec == Init /\ [][Next]_vars

-----------------------------------------------------------------------------
(* What `aeris fmt', `aeris check' and `aeris doc' promise about a file.   *)

(* The forms the formatter is known to lose (README, Findings)             *)

Verbatim == {"Int", "Str", "Bytes", "Char", "Date", "Timestamp", "Duration", "text", "raw"}
Postfixes == {"Field", "Call", "Index", "Try", "Catch"}
Heads == {"If", "While", "For", "Match", "Every", "Timeout", "Retry"}
\* Their last operand is followed by a name that could go on from it.
Holders == {"RField", "Where", "DField", "Step", "Pipeline"}

\* An expression that goes on over what is written behind it.
RECURSIVE OpenEnded(_)
OpenEnded(e) ==
  CASE e[2] = <<>> -> FALSE
    [] e[1] \in {"Raise", "Return", "Break"} -> TRUE
    [] e[1] = "Range" -> ~Has(e[2][3]) \/ OpenEnded(e[2][3])
    [] e[1] \in Operators \ Postfixes ->
         OpenEnded(Last(e[2])) /\ (Last(e[2])[1] # "Range" \/ e[1] \in AssignOps)
    [] e[1] \in {"Do", "Await", "some", "list"} -> \E k \in 1 .. Len(e[2]) : OpenEnded(e[2][k])
    [] OTHER -> FALSE

\* An operand expr_can_start does not know the first token of.
Unstartable(opt) == Has(opt) /\ Fmt(opt[2][1])[1] \in {"every", "timeout", "retry", "..", "..="}

\* A form of the given kinds outside every bracket.
RECURSIVE Exposes(_, _)
Exposes(e, tags) ==
  \/ e[1] \in tags
  \/ /\ e[1] \in Operators \cup {"Raise", "Return", "Break", "Await", "some"}
     /\ \E k \in 1 .. Len(e[2]) : Exposes(e[2][k], tags)

\* Written in front of a block, it would take the block for its own.
TakesBrace(e) == \/ OpenEnded(e) \/ Exposes(e, {"Record", "is"})

LosesOperand(e) ==
  LET left == e[2][1]
  IN  \/ OpenEnded(left) /\ left[1] # "Range"
      \/ e[1] = "Range" /\ Unstartable(e[2][3])
      \/ e[1] = "Call" /\ e[2][2] # Listed(<<>>)
      \/ e[1] \in Postfixes /\ left[1] = "Await"
      \/ left[1] = e[1] /\ e[1] \in {"Try", "??"}
      \/ left[1] = "and" /\ e[1] \in {"is", "as"}

LossyHere(e) ==
  LET k == e[2]
  IN  CASE e[1] \in {"Tuple", "TTuple"} -> Len(k) = 1
        [] e[1] = "Float" -> k[2] = "e"
        [] e[1] \in Operators -> LosesOperand(e)
        [] e[1] = "Block" -> ~Has(k[2]) /\ k[1][2] # <<>> /\ Last(k[1][2])[1] = "Do"
        [] e[1] = "code"  -> Fmt(k[1])[1] = "{"
        [] e[1] = "Const" -> WholeExpr(Append(k[4][2], Leaf("Eof"))).v # <<k[3]>> \/ OpenEnded(k[3])
        [] e[1] = "Model" -> Has(k[3])
        [] e[1] = "Test"  -> Has(k[2]) \/ \E c \in {"\"", "\\", "{"} : Contains(k[1][2], c)
        [] e[1] = "Step"  -> OpenEnded(k[2]) \/ (Has(k[3]) /\ Exposes(k[2], {"or", "and", "??", "Range"} \cup AssignOps))
        [] e[1] \in Heads -> \E n \in 1 .. Len(k) : TakesBrace(k[n])
        [] e[1] = "Fn"    -> \E n \in 5 .. 6 : \E c \in Range(k[n][2]) : OpenEnded(c) \/ Exposes(c, {"is"})
        [] e[1] \in {"Return", "Break"} -> Unstartable(Last(k))
        [] e[1] = "Arm"   -> Exposes(k[2], {"Record"})
        [] e[1] = "Item"  -> k[3][2] # <<>> \/ OpenEnded(k[2])
        [] e[1] \in Holders -> \E n \in 1 .. Len(k) : OpenEnded(k[n])
        [] OTHER -> FALSE

RECURSIVE Lossy(_)
Lossy(e) ==
  /\ e[1] \notin Verbatim /\ e[2] # <<>>
  /\ LossyHere(e) \/ (e[1] # "Float" /\ \E k \in 1 .. Len(e[2]) : Lossy(e[2][k]))

-----------------------------------------------------------------------------
(* Formatting                                                              *)

\* `aeris fmt' writes a program back: unless it holds one of the forms above,
\* what is on disk afterwards parses to the very declarations it parsed to
\* before (fmt.rs: precedence, associativity, escapes and item layout against
\* the parser's).
RoundTrip ==
  (result.cmd = "fmt" /\ ~\E k \in DOMAIN result.module.items : Lossy(result.module.items[k]))
    => ParseModule(file) = result.module

\* `aeris check' reports no error exactly for the files the parser accepts,
\* and hands on the same declarations (parse_module_recovering against
\* parse_module).
RecoveryIsExact ==
  result.cmd = "check" =>
    \E m \in {ParseModule(file)} :
        /\ m.ok <=> result.found.errors = <<>>
        /\ m.ok => result.found.items = m.items /\ result.found.uses = m.uses

-----------------------------------------------------------------------------
(* One broken declaration among sound ones                                 *)

Complete(p) == /\ p[1] \in ItemStart \ {"use"}
               /\ Len(ParseModule(p).items) = 1

Depth(p, k) ==
  Cardinality({j \in 1 .. k : p[j] \in {"(", "[", "{"}})
    - Cardinality({j \in 1 .. k : p[j] \in {")", "]", "}"}})
Balanced(p) == Depth(p, Len(p)) = 0 /\ \A k \in 1 .. Len(p) : Depth(p, k) >= 0

\* Wrong inside its brackets, and not in the head of a block, where the parser
\* forgets to allow record literals again (README, Findings).
Broken(p) ==
  /\ p[1] \in ItemStart \ {"use"} /\ Balanced(p)
  /\ Tokenize(p).ok
  /\ \E r \in {Run(Ref("item"), NewParser(StripTrivia(Tokenize(p).toks)))} :
        ~r.ok /\ r.s.lit /\ ~AtEof(r.s)

RECURSIVE Subsequence(_, _)
Subsequence(a, b) ==
  IF a = <<>> THEN TRUE
  ELSE /\ b # <<>>
       /\ IF a[1] = b[1] THEN Subsequence(Tail(a), Tail(b)) ELSE Subsequence(a, Tail(b))

\* A mistake inside a declaration costs that declaration: all the sound ones
\* around it are found, in their order (sync_to_next_item).
RecoveryKeepsItems ==
  (result.cmd = "check" /\ \A k \in DOMAIN pieces : Complete(pieces[k]) \/ Broken(pieces[k]))
    => Subsequence(FlattenSeq([k \in DOMAIN pieces |->
                     IF Complete(pieces[k]) THEN ParseModule(pieces[k]).items ELSE <<>>]),
                   result.found.items)

\* Recovery, on files that parse and on files that do not.
RecoveryIsSound == RecoveryIsExact /\ RecoveryKeepsItems

-----------------------------------------------------------------------------
(* Documentation                                                           *)

DocLine(p) == Len(p) = 4 /\ \A k \in 1 .. 3 : p[k] = "/"
NameOf(item) == LET n == item[2][2][2][1] IN IF n[1] = "Str" THEN n[2] ELSE <<n[1]>>

\* Each sound declaration with the doc lines between it and the one before.
RECURSIVE Documented(_, _)
Documented(k, lines) ==
  IF k > Len(pieces) THEN <<>>
  ELSE IF DocLine(pieces[k]) THEN Documented(k + 1, Append(lines, pieces[k][4]))
  ELSE IF lines = <<>> THEN Documented(k + 1, <<>>)
  ELSE << <<NameOf(ParseModule(pieces[k]).items[1]), lines>> >> \o Documented(k + 1, <<>>)

\* `aeris doc' gives every documented declaration one entry, under its own
\* name and with its own lines, whatever keywords its body holds
\* (extract_docs, scan_item).
DocsFollowItems ==
  (result.cmd = "doc" /\ \A k \in DOMAIN pieces : Complete(pieces[k]) \/ DocLine(pieces[k]))
    => Documented(1, <<>>)
       = [k \in DOMAIN result.docs |-> <<SubSeq(result.docs[k].name, 1, 1), result.docs[k].doc>>]
=============================================================================
