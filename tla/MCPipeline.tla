----------------------------- MODULE MCPipeline -----------------------------
(***************************************************************************)
(* Three steps, the first and the third with the same label, two of them   *)
(* with an `as` binding; parameters v, cap and w; every argument list of   *)
(* up to three arguments, a name that is no parameter among them.          *)
(***************************************************************************)
EXTENDS Pipeline

MCLabels == {"build", "push"}
MCLabel == <<"build", "push", "build">>
MCBound == {1, 2}
MCParams == <<"v", "cap", "w">>
ArgNames == {"v", "cap", "w", "other", Positional}
MCArgLists == UNION {[1..n -> ArgNames] : n \in 0..3}
=============================================================================
