------------------------------- MODULE MCSaga -------------------------------
(***************************************************************************)
(* Four steps, the third with the name of the first: a failure of the     *)
(* third rolls back steps of different names, one of the fourth a step and *)
(* its namesake.  The second has a clause and no undo block.               *)
(***************************************************************************)
EXTENDS Saga

MCStepNames == {"a", "b", "c"}
MCStepName == <<"a", "b", "a", "c">>
MCClauses == <<0, 1, 0, 0>>
MCHasUndo == {1, 3, 4}
=============================================================================
