------------------------------ MODULE MCReplay ------------------------------
(***************************************************************************)
(* Runs of up to three calls and replays of one call more, with two values *)
(* of each sort so that two answers can be told apart.  random.next and    *)
(* fs.read_* are left out: they are handled like clock.now and http.*.     *)
(***************************************************************************)
EXTENDS Replay, TLC

MCUses == AiOps \union {"clock.now", "http"}
MCSymmetry == Permutations(Numbers) \union Permutations(Texts)
=============================================================================
