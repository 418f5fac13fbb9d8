----------------------------- MODULE MCPlacement -----------------------------
(* Three engines; matches of nothing, half and all of a prompt of two      *)
(* tokens and one beyond its end; beta at its default, above and below it, *)
(* negative, infinite and not a number.                                    *)
EXTENDS Placement

MCUrl == {1, 2, 3}
MCBetas == {[num |-> 1, den |-> 1], [num |-> 3, den |-> 2], [num |-> 1, den |-> 3],
            [num |-> -1, den |-> 2], [num |-> 1, den |-> 0], [num |-> -1, den |-> 0],
            [num |-> 0, den |-> 0]}
MCMatches == {0, 1, 3}
MCPrompts == {0, 2}
MCFactors == {3}
=============================================================================
