--------------------------- MODULE MCKvawareRouter ---------------------------
(* Two engines, the first of which may be replaced once; discovery reports *)
(* both of them, or the second alone; one match inside the band, one not.  *)
EXTENDS KvawareRouter

MCUrl == {1, 2}
MCMaxStarts == [u \in MCUrl |-> IF u = 1 THEN 2 ELSE 1]
MCEndpointLists == {<<1, 2>>, <<2>>}
=============================================================================
