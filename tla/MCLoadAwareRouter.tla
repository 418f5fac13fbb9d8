-------------------------- MODULE MCLoadAwareRouter --------------------------
(* Two engines of one model, the first of which may be replaced once, and  *)
(* an engine of another model that never registers: discovery reports the  *)
(* two or the other; a load under which a warm first engine loses to the   *)
(* second.                                                                 *)
EXTENDS LoadAwareRouter

MCUrl == {1, 2, 3}
MCMaxStarts == <<2, 1, 0>>
MCBeta == [num |-> 1, den |-> 1]
MCEndpointLists == {<<1, 2>>, <<3>>}
MCOneList == {<<1, 2>>}
MCLoads == {<<[prefill |-> 1, decoding |-> 3]>>}
=============================================================================
