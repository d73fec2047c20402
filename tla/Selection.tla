----------------------------- MODULE Selection ------------------------------
(***************************************************************************)
(* The elements of a sequence at the positions of a set, in their order:   *)
(* SelectSeq with the test replaced by the positions that meet it, which   *)
(* makes it a function of values that proofs can take step by step.        *)
(***************************************************************************)
EXTENDS Naturals, Sequences

Selected(s, P) ==
    LET upTo[k \in 0..Len(s)] ==
            IF k = 0 THEN <<>>
            ELSE IF k \in P THEN Append(upTo[k - 1], s[k]) ELSE upTo[k - 1]
    IN upTo[Len(s)]
=============================================================================
