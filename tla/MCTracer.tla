------------------------------ MODULE MCTracer ------------------------------
(***************************************************************************)
(* A clock that reads 1 or 2, and a counter printed in binary, to two      *)
(* digits: the fourth event within a millisecond overflows them.           *)
(***************************************************************************)
EXTENDS Tracer

MCClock == {1, 2}
MCName == <<"a", "b", "c", "d", "e">>
MCOutcomes == {"ok", "err"}
=============================================================================
