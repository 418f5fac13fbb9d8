--------------------------- MODULE MCKVController ---------------------------
(* Two instances, one of them with two workers and two locations; prompts  *)
(* of three and two chunks that share their first chunk.                   *)
EXTENDS KVController

CONSTANTS k1, k2, k3, a, b

MCMeta ==
    {[instance |-> a, worker |-> 0, location |-> "cpu"],
     [instance |-> a, worker |-> 1, location |-> "disk"],
     [instance |-> b, worker |-> 0, location |-> "cpu"]}
MCRequests == {<<k1, k2, k3>>, <<k1, k3>>}
=============================================================================
