------------------------------ MODULE MCFrontend ------------------------------
(***************************************************************************)
(* The instance: every frame around every operand, one program for each    *)
(* kind of declaration, and files of up to three small pieces, two of them *)
(* broken inside their brackets.                                           *)
(***************************************************************************)
EXTENDS Frontend

MCDigits == {"0", "1", "2", "3", "5", "01", "2024", "99999999999999999999"}
MCHuge == "99999999999999999999"
MCVersions == {"v1", "v2"}
MCPascal == {"Some", "Red", "P", "Q", "T", "Num", "R", "E", "M"}

\* Where an operand may stand.  The parentheses let any operand be read there;
\* they are not in the tree, so the formatter decides which of them to write.
Frames ==
  {
   [before |-> <<"fn", "f", "(", ")", "{", "(">>,
       after |-> <<")", "+", "x", "}">>],
     [before |-> <<"fn", "f", "(", ")", "{", "x", "-", "(">>,
       after |-> <<")", "}">>],
     [before |-> <<"fn", "f", "(", ")", "{", "(">>,
       after |-> <<")", "=", "=", "x", "}">>],
     [before |-> <<"fn", "f", "(", ")", "{", "-", "(">>,
       after |-> <<")", "}">>],
     [before |-> <<"fn", "f", "(", ")", "{", "(">>,
       after |-> <<")", ".", "y", "}">>],
     [before |-> <<"fn", "f", "(", ")", "{", "x", "?", "?", "(">>,
       after |-> <<")", "}">>],
     [before |-> <<"fn", "f", "(", ")", "{", "(">>,
       after |-> <<")", "and", "x", "}">>],
     [before |-> <<"fn", "f", "(", ")", "{", "x", ".", ".", "(">>,
       after |-> <<")", "}">>],
     [before |-> <<"fn", "f", "(", ")", "{", "y", "=", "(">>,
       after |-> <<")", "}">>],
     [before |-> <<"fn", "f", "(", ")", "{", "await", "(">>,
       after |-> <<")", "}">>],
     [before |-> <<"fn", "f", "(", ")", "{", "g", "(", "a", ":", "(">>,
       after |-> <<")", ",", "y", ")", "}">>],
     [before |-> <<"fn", "f", "(", ")", "{", "(">>,
       after |-> <<")", ";", "x", "}">>],
     [before |-> <<"fn", "f", "(", ")", "{", "x", ";", "(">>,
       after |-> <<")", "}">>],
     [before |-> <<"fn", "f", "(", ")", "{", "if", "(">>,
       after |-> <<")", "{", "x", "}", "}">>],
     [before |-> <<"fn", "f", "(", ")", "{", "match", "x", "{", "q", "if", "(">>,
       after |-> <<")", "-", ">", "q", "}", "}">>],
     [before |-> <<"fn", "f", "(", ")", "{", "x", "<", "<", "(">>,
       after |-> <<")", "}">>],
     [before |-> <<"fn", "f", "(", ")", "{", "not", "(">>,
       after |-> <<")", "}">>],
     [before |-> <<"fn", "f", "(", ")", "{", "(">>,
       after |-> <<")", "(", "y", ")", "}">>],
     [before |-> <<"fn", "f", "(", ")", "{", "(">>,
       after |-> <<")", "[", "y", "]", "}">>],
     [before |-> <<"fn", "f", "(", ")", "{", "(">>,
       after |-> <<")", "?", "}">>],
     [before |-> <<"fn", "f", "(", ")", "{", "(">>,
       after |-> <<")", "is", "q", "}">>],
     [before |-> <<"fn", "f", "(", ")", "{", "(">>,
       after |-> <<")", "as", "T", "}">>],
     [before |-> <<"fn", "f", "(", ")", "{", "(">>,
       after |-> <<")", ".", ".", "x", "}">>],
     [before |-> <<"fn", "f", "(", ")", "{", "raise", "(">>,
       after |-> <<")", "}">>],
     [before |-> <<"fn", "f", "(", ")", "{", "return", "(">>,
       after |-> <<")", "}">>],
     [before |-> <<"fn", "f", "(", ")", "{", "(">>,
       after |-> <<")", "catch", "e", "{", "y", "}", "}">>],
     [before |-> <<"fn", "f", "(", ")", "{", "\"", "a", "{", "(">>,
       after |-> <<")", "}", "\"", " ", "}">>],
     [before |-> <<"fn", "f", "(", ")", "requires", ":", "(">>,
       after |-> <<")", "{", "x", "}">>],
     [before |-> <<"record", "S", "{", "a", ":", "T", "where", "(">>,
       after |-> <<")", ",", "b", ":", "T", "}">>],
     [before |-> <<"agent", "a", "{", "tools", ":", "(">>,
       after |-> <<")", ",", "y", "policy", ":", "p", "}">>],
     [before |-> <<"const", "X", "=", "(">>,
       after |-> <<")">>],
     [before |-> <<"pipeline", "p", "(", ")", "{", "intent", "\"", "i", "\"", "steps",
       ":", "|", "(">>,
       after |-> <<")", "as", "r", "}">>]}

Operands ==
  {
   <<"-", "x">>,
     <<"x", "[", "y", "]">>,
     <<"x", "+", "y">>,
     <<"x", "*", "y">>,
     <<"x", "or", "y">>,
     <<"x", "and", "y">>,
     <<"x", "?", "?", "y">>,
     <<"x", "<", "<", "y">>,
     <<"x", ".", ".", "y">>,
     <<"x", "is", "P", "(", "y", ")">>,
     <<"x", "as", "T">>,
     <<"(", "x", ",", "y", ")">>,
     <<"R", "{", "r", ":", "x", ",", ".", ".", "y", "}">>,
     <<"{", "let", "q", "=", "x", ";", "q", "}">>,
     <<"if", "x", "{", "y", "}", "else", "{", "z", "}">>,
     <<"fn", "(", "q", ")", "{", "q", "}">>,
     <<"await", "x">>,
     <<"raise", "x">>,
     <<"\"", "a", "{", "x", "}", "\\", "n", "\"">>,
     <<"x", "=", "y">>,
     <<"not", "x">>,
     <<"x", ".", "y">>,
     <<"x", "(", "y", ")">>,
     <<"x", "?">>,
     <<"x", "=", "=", "y">>,
     <<"x", "&", "y">>,
     <<"x", ".", ".">>,
     <<"{", "r", ":", "x", "}">>,
     <<"match", "x", "{", "P", "(", "q", ")", "-", ">", "q", ",", "_", "-",
       ">", "y", "}">>,
     <<"return", "x">>,
     <<"timeout", "x", "{", "y", "}">>,
     <<"x", "+", "=", "y">>,
     <<"x", "catch", "e", "{", "y", "}">>,
     <<"{", "x", ";", "}">>,
     <<"(", "x", ",", ")">>,
     <<"f", "<", "T", ">", "(", "x", ")">>}

Declarations ==
  {
   <<"fn", "f", "(", ")", "{", "x", "}">>,
     <<"fn", "f", "(", "cap", ",", "y", ":", "Num", ")", "-", ">", "Opt", "<",
       "Opt", "<", "Num", ">", ">", "requires", ":", "y", ">", "1", " ",
       "ensures", ":", "y", "{", "let", "z", "=", "y", "+", "1", "*", "2",
       ";", "z", ";", "g", "(", "z", ",", "a", ":", "3", ")", "}">>,
     <<"pub", "record", "R", "<", "T", ">", "{", "a", ":", "Num", "where",
       "a", ">", "1", ",", "b", ":", "(", "Num", ",", "T", ")", "}">>,
     <<"enum", "E", "{", "A", ",", "B", "(", "Num", ",", "c", ":", "Num", ")",
       ",", "C", "{", "d", ":", "Num", "}", "}">>,
     <<"model", "M", "@", "v1", "{", "a", ":", "Num", "where", ":", "a", ">",
       "1", "}">>,
     <<"type", "A", "<", "T", ">", " ", "=", "fn", "(", "T", ")", "-", ">",
       "cap", "[", "fs", ".", "read", "@", "\"", "x", "\"", ",", "net", "]">>,
     <<"const", "X", ":", "Num", "=", "1", "+", "2">>,
     <<"saga", "s", "(", "cap", ")", "{", "intent", "\"", "hi", "\"", "step",
       "a", "{", "requires", ":", "x", "do", "{", "1", "}", "undo", "noop",
       "}", "step", "b", "{", "do", "{", "1", ";", "}", "undo", "{", "2", "}",
       "}", "}">>,
     <<"pipeline", "p", "(", "cap", ")", "{", "intent", "\"", "x", "\"",
       "steps", ":", "|", "\"", "l", "\"", ":", "f", "(", "x", ")", "as", "r",
       ":", "Num", "|", "g", "(", "r", ")", "as", "q", "|", "h", "on_step",
       ":", "k", "on_failure", ":", "fn", "(", "e", ")", "{", "e", "}", "}">>,
     <<"agent", "a", "{", "model", ":", "\"", "m", "\"", ",", "\"", "n", "\"",
       "policy", ":", "p", "tools", ":", "[", "1", ",", "2", "]", "}">>,
     <<"policy", "p", "{", "match", ":", "http", ".", "*", "deny", ":", "x",
       "=", "=", "1", " ", "or", "y", "}">>,
     <<"agent_net", "n", "{", "intent", "\"", "x", "\"", "flow", "a", "-",
       ">", "{", "b", ",", "c", "}", "-", ">", "d", "until", ":", "x", ">",
       "1", "}">>,
     <<"test", "\"", "t", "\"", "{", "if", "x", "{", "1", "}", "else", "if",
       "y", "{", "2", "}", "else", "{", "3", "}", "}">>,
     <<"property", "\"", "q", "\"", "with", "(", "a", ":", "Num", ")", "{",
       "match", "x", "{", "Some", "(", "y", ")", "if", "y", ">", "1", "-",
       ">", "y", ",", "P", "{", "a", ",", "b", ":", "_", ",", ".", ".", "}",
       "-", ">", "2", ",", "[", "a", ",", ".", ".", "r", "]", "-", ">", "3",
       ",", "(", "a", ",", "b", ")", "-", ">", "4", ",", "-", "1", "-", ">",
       "5", ",", "\"", "x", "\"", "-", ">", "6", ",", "Red", "-", ">", "7",
       ",", "_", "-", ">", "8", "}", "}">>,
     <<"for", "i", "in", "0", ".", ".", "3", "{", "f", "(", "i", ")", "}">>,
     <<"while", "x", "{", "break", "'", "l", "1", ";", "continue", "'", "l",
       "}">>,
     <<"let", "x", "=", "R", "{", "a", ":", "1", ",", ".", ".", "y", "}">>,
     <<"f", "(", "R", "@", "v1", "{", "a", ":", "1", "}", ",", "M", "@", "v1",
       ",", "{", "a", ":", "1", "}", ",", "[", "]", ",", "(", ")", ",", "(",
       "1", ",", "2", ")", ")">>,
     <<"fn", "f", "(", ")", "{", "a", "?", "?", "b", "?", "?", "c", "or", "d",
       "and", "not", "e", ";", "(", "a", "+", "b", ")", "*", "c", ";", "a",
       "-", "(", "b", "-", "c", ")", ";", "x", "is", "Some", "(", "y", ")",
       ";", "x", "as", "Num", ";", "a", ".", "b", "[", "1", "]", "?", ".",
       "c", "catch", "e", "{", "e", "}", "}">>,
     <<"fn", "f", "(", ")", "{", "every", "5", "s", "{", "x", "}", ";",
       "retry", "3", ",", "delay", ":", "5", "s", "{", "y", "}", ";",
       "timeout", "5", "s", "{", "z", "}", ";", "spawn", "{", "1", "}", ";",
       "intent", "\"", "a", "\"", "{", "b", "}", ";", "await", "x", ";",
       "raise", "e", ";", "return", "1", ";", "a", "=", "b", "=", "1", ";",
       "cap", ".", "subset", "[", "fs", ".", "read", "@", "[", "\"", "a",
       "\"", ",", "\"", "b", "\"", "]", "]", "}">>,
     <<"fn", "f", "(", ")", "{", "\"", "a", "{", "x", "}", "b", "{", "{", "c",
       "}", "}", "\"", ";", "\"", "q", "\\", "\"", "\\", "n", "\\", "{", "\"",
       ";", "b", "\"", "a", "\\", "n", "\"", ";", "'", "c", "'", ";", "2024",
       "-", "01", "-", "01", ";", "1", ".", "5", ";", "r", "\"", "a", "\\",
       "b", "{", "c", "}", "\"", ";", ".", ".", "3", ";", ".", ".", "=", "3",
       ";", "1", ".", ".", "=", "3", ";", "defer", "x", ";", "loop", "{", "1",
       "}", "}">>,
     <<"use", "io", ",", "fs", "as", "g", ",", "h", "from", "\"", ".", "/",
       "x", "\"", ",", "\"", ".", "/", "y", "\"">>,
     <<"#", "[", "policy", "(", "p", ",", "q", ")", "]", "fn", "f", "(", ")",
       "{", "}">>,
     <<"use", "utils", "from", "\"", "gh", "/", "x", "\"", "d", "@", "\"",
       "1", "\"", "fn", "f", "(", ")", "{", "f", "<", "Num", ">", "(", "1",
       ")", "}">>,
     <<"fn", "f", "(", ")", "{", "a", "<", "b", ";", "a", ">", ">", "b", ";",
       "a", "|", "b", "^", "c", "&", "d", ";", "fn", "(", "x", ":", "Num",
       ",", "y", ")", "-", ">", "Num", "{", "x", "}", "}">>,
     <<"+", "x", "fn", "f", "(", ")", "{", "x", "}">>}

MCPrograms == {f.before \o e \o f.after : f \in Frames, e \in Operands} \cup Declarations

MCPieces ==
  {
   <<"/", "/", "/", "one">>,
     <<"/", "/", "/", "two">>,
     <<"fn", "f", "(", ")", "{", "R", "{", "r", ":", "x", "}", "}">>,
     <<"agent", "b", "{", "policy", ":", "x", "}">>,
     <<"pub", "type", "A", "=", "fn", "(", "T", ")", "-", ">", "T">>,
     <<"fn", "g", "(", ")", "{", "(", "x", "+", ")", "{", "y", "}", "}">>,
     <<"test", "\"", "t", "\"", "{", "[", "x", "y", "]", "}">>}
=============================================================================
