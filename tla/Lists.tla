------------------------------- MODULE Lists -------------------------------
(***************************************************************************)
(* Python lists, beyond what the community modules have.                   *)
(***************************************************************************)
EXTENDS Naturals, Sequences

\* [x for x in s if x not in B]: the members of s outside B, in their order.
Without(s, B) ==
    LET kept[n \in 0..Len(s)] ==
            IF n = 0 THEN <<>>
            ELSE IF s[n] \in B THEN kept[n-1]
            ELSE Append(kept[n-1], s[n])
    IN  kept[Len(s)]

\* No two positions of s hold the same value.
Distinct(s) == \A p, q \in DOMAIN s : s[p] = s[q] => p = q
=============================================================================
