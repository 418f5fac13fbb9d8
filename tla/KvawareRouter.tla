---------------------------- MODULE KvawareRouter ----------------------------
(***************************************************************************)
(* KvawareRouter.route_request, the baseline: it follows the first name of *)
(* layout_info alone, asks about every endpoint when that name is not in   *)
(* its bridge, and indexes the bridge with it.  The fleet changes between  *)
(* any two steps, as in LoadAwareRouter.tla.                               *)
(***************************************************************************)
EXTENDS Fleet, Bridge, FiniteSetsExt, SequencesExt

CONSTANTS
    EndpointLists,  \* the endpoints service discovery may report, as lists
    Matches,        \* matched token counts of the first name
    PromptTokens,   \* len(token_ids)
    Threshold       \* kv_aware_threshold

ASSUME KvawareAssumption ==
    /\ EndpointLists \subseteq Seq(Url) \ {<<>>}
    /\ Matches \subseteq Nat /\ PromptTokens \in Nat /\ Threshold \in Nat

VARIABLES
    bridge,     \* instance_id_to_ip
    pc,         \* where the handler is
    endpoints,  \* its argument
    first,      \* the first name of layout_info, NoId when it fell back
    asking,     \* position of the endpoint it asks about
    answer,     \* the id it was answered with
    url         \* what it returned, 0 for an exception

handlerVars == <<pc, endpoints, first, asking, answer, url>>
vars == <<fleetVars, bridge, handlerVars>>

Init ==
    /\ FleetInit
    /\ bridge = <<>>
    /\ pc = "idle" /\ endpoints = <<>> /\ first = NoId /\ asking = 1
    /\ answer = NoId /\ url = 0

Arrive(list) ==
    /\ pc \in {"idle", "ended"}
    /\ pc' = "lookup" /\ endpoints' = list
    /\ first' = NoId /\ asking' = 1 /\ answer' = NoId /\ url' = 0
    /\ UNCHANGED <<fleetVars, bridge>>

\* Nothing here catches an exception of the tokenizers, or the KeyError of a lookup
\* whose chunk an engine evicts between the test and the read (ConcurrentLookup
\* .tla, ReadFails).
RouteRequestRaises ==
    /\ pc = "lookup"
    /\ pc' = "ended" /\ url' = 0
    /\ UNCHANGED <<fleetVars, bridge, endpoints, first, asking, answer>>

\* The band: a match this far from the whole prompt is not worth following.
TooShort(matched) == matched + Threshold < PromptTokens

\* No name, or too short a match: the session's engine or the least asked one.
FallBack ==
    /\ pc = "lookup"
    /\ \/ named = {}
       \/ \E matched \in Matches : TooShort(matched)
    /\ pc' = "ended" /\ url' \in Range(endpoints)
    /\ UNCHANGED <<fleetVars, bridge, endpoints, first, asking, answer>>

\* return self.instance_id_to_ip[first], or KeyError.
Return(b, id) ==
    /\ pc' = "ended"
    /\ url' = IF id \in KnownIds(b) THEN UrlOf(b, id) ELSE 0

\* A match long enough, of an id that the bridge has or has not.
Follow(id) ==
    /\ pc = "lookup"
    /\ id \in named
    /\ \E matched \in Matches : ~TooShort(matched)
    /\ first' = id
    /\ \/ id \in KnownIds(bridge) /\ Return(bridge, id)
       \/ id \notin KnownIds(bridge) /\ pc' = "ask" /\ UNCHANGED url
    /\ UNCHANGED <<fleetVars, bridge, endpoints, asking, answer>>

Ask ==
    /\ pc = "ask"
    /\ pc' = "write"
    /\ answer' = Registered(endpoints[asking])
    /\ UNCHANGED <<fleetVars, bridge, endpoints, first, asking, url>>

\* A plausible wrong Write, for the mutation run: the loop stops at the first
\* endpoint that answers with an id.
WriteFirstAnswer ==
    /\ pc = "write"
    /\ bridge' = Put(bridge, answer, endpoints[asking])
    /\ \/ /\ asking < Len(endpoints) /\ answer = NoId
          /\ pc' = "ask" /\ asking' = asking + 1 /\ UNCHANGED url
       \/ /\ asking = Len(endpoints) \/ answer # NoId
          /\ Return(bridge', first) /\ UNCHANGED asking
    /\ UNCHANGED <<fleetVars, endpoints, first, answer>>

\* A plausible wrong Write, for the mutation run: the loop waits for the id.
WriteUntilFound ==
    /\ pc = "write"
    /\ bridge' = Put(bridge, answer, endpoints[asking])
    /\ \/ /\ first \notin KnownIds(bridge')
          /\ pc' = "ask" /\ asking' = (asking % Len(endpoints)) + 1 /\ UNCHANGED url
       \/ /\ first \in KnownIds(bridge')
          /\ Return(bridge', first) /\ UNCHANGED asking
    /\ UNCHANGED <<fleetVars, endpoints, first, answer>>

Write ==
    /\ pc = "write"
    /\ bridge' = Put(bridge, answer, endpoints[asking])
    /\ \/ /\ asking < Len(endpoints)
          /\ pc' = "ask" /\ asking' = asking + 1 /\ UNCHANGED url
       \/ /\ asking = Len(endpoints)
          /\ Return(bridge', first) /\ UNCHANGED asking
    /\ UNCHANGED <<fleetVars, endpoints, first, answer>>

Handler ==
    \/ RouteRequestRaises \/ FallBack \/ (\E id \in named : Follow(id))
    \/ Ask \/ Write

Environment == (FleetChange \/ CacheChange) /\ UNCHANGED <<bridge, handlerVars>>

Next ==
    \/ \E list \in EndpointLists : Arrive(list)
    \/ Handler
    \/ Environment

\* A handler that has its answer runs on; the fleet and the clients need not.
FairSpec == Init /\ [][Next]_vars /\ WF_vars(Handler)
-----------------------------------------------------------------------------
Ends == pc # "ended" /\ pc' = "ended"

\* The KeyError of the bridge, which cold_start.sh warns of, strikes only for an id
\* that is no endpoint's registered process: once a lookup has named a live, listed
\* engine, the request does not fail, though the fleet changed while the handler
\* was asking.
LiveHolderNeverFails ==
    [][Ends /\ url' = 0 =>
          \A u \in Range(endpoints) : registered[u] # 0 => Registered(u) # first']_vars

\* A request that follows the cache goes to the engine whose id was named, or
\* fails; it never goes to another engine that took that id's place.
FollowsTheName == [][Ends /\ first' # NoId => url' \in {0, first'.url}]_vars

\* Every request is answered, with an engine or with an error: of its tokenizer, its
\* lookup or the bridge.
EveryRequestEnds == pc = "lookup" ~> pc = "ended"
=============================================================================
