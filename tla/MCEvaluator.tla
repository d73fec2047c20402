----------------------------- MODULE MCEvaluator ----------------------------
(***************************************************************************)
(* Programs of few forms, of families that bring together the constructs   *)
(* whose scopes and signals interact.                                      *)
(***************************************************************************)
EXTENDS Evaluator

Family(n, f) == [forms |-> f, choices |-> n]
MCFamilies ==
    { Family(5, {"Let", "Ident", "Defer", "Block", "Fail"}),
      Family(4, {"Defer", "match", "Ident", "Contract", "Call"}),
      Family(4, {"Defer", "Result", "try", "catch", "Call", "Contract"}),
      Family(6, {"Let", "Lambda", "Call", "assign"}),
      Family(4, {"For", "While", "Jump", "match", "Spawn"}),
      Family(3, {"every", "retry", "Jump", "Result", "if"}),
      Family(4, {"retry", "Contract", "Call", "Ident", "Spawn"}),
      Family(4, {"use", "interp", "Jump", "catch", "Result", "Defer"}) }
=============================================================================
