------------------------------ MODULE MCLoader ------------------------------
(***************************************************************************)
(* Every import graph over three files in which a file imports at most two *)
(* (itself, one twice and a cycle included), may be missing or ill formed, *)
(* and may use io.                                                         *)
(***************************************************************************)
EXTENDS Loader

MCFiles == {"main", "a", "b"}
MCStdlib == {"io"}
Locals == UNION {[1..n -> MCFiles] : n \in 0..2}
MCSources == [state : {"ok"}, local : Locals, uses : SUBSET MCStdlib]
             \union [state : {"io", "parse"}, local : {<<>>}, uses : {{}}]
=============================================================================
