------------------------------ MODULE Holdings ------------------------------
(***************************************************************************)
(* What the cache controller promises the routers about its chunk table,   *)
(* with the lists, their order and their duplicates taken away: a relation *)
(* between chunk keys and the instance-worker-location that reported them. *)
(* KVController.tla is shown to implement it.                              *)
(***************************************************************************)

CONSTANTS Key, Meta

VARIABLE holds      \* set of <<key, metadata>>

HoldingsInit == holds = {}

\* A report of a chunk that is already known changes nothing.
Gain(k, m) == holds' = holds \union {<<k, m>>}

\* One report of a loss is enough, however often the chunk was reported.
Lose(k, m) == holds' = holds \ {<<k, m>>}

\* Deregistering forgets entries of that instance-worker and of no other.  The
\* promise stops short of "all of them": see DeregisterForgetsAll.
Forget(i, w) ==
    /\ holds' \subseteq holds
    /\ \A h \in holds \ holds' : h[2].instance = i /\ h[2].worker = w

HoldingsNext ==
    \/ \E k \in Key, m \in Meta : Gain(k, m) \/ Lose(k, m)
    \/ \E m \in Meta : Forget(m.instance, m.worker)

HoldingsSpec == HoldingsInit /\ [][HoldingsNext]_holds
=============================================================================
