--------------------------- MODULE SessionFallback ---------------------------
(***************************************************************************)
(* SessionRouter.route_request, which is also the route that kvaware and   *)
(* loadaware fall back to (fallback_url): a request with a session goes    *)
(* where the hash ring says, one without to the engine with the lowest     *)
(* QPS.  The ring is a library, uhashring: a session has an order of all   *)
(* URLs in which it would meet them, and gets the first that is a node.    *)
(***************************************************************************)
EXTENDS Naturals, FiniteSetsExt, SequencesExt

CONSTANTS
    EndpointLists,  \* the lists discovery may report, of URLs as numbers
    Session,        \* session ids
    RingOrder,      \* the order in which each session meets the URLs
    Qps             \* rates the monitor may report

Url == UNION {Range(list) : list \in EndpointLists}

\* What a composition assumes of the constants.
SessionAssumption ==
    /\ EndpointLists \subseteq Seq(Nat \ {0}) \ {<<>>}
    /\ \A s \in Session :
           RingOrder[s] \in Seq(Nat) /\ Url \subseteq Range(RingOrder[s])
    /\ Qps \subseteq Nat

VARIABLES
    nodes,      \* the nodes of hash_ring
    url,        \* the last answer
    last        \* history: the last endpoints and answer of each session

vars == <<nodes, url, last>>

Init ==
    /\ nodes = {}
    /\ url = 0
    /\ last = [s \in Session |-> [among |-> {}, url |-> 0]]

\* hash_ring.get_node(session).
GetNode(session, ring) ==
    LET order == RingOrder[session]
    IN  order[Min({n \in DOMAIN order : order[n] \in ring})]

\* A plausible wrong UpdateHashRing, for the mutation run: nodes are added only
\* when none has left.
RemoveOrAddNodes(endpoints) ==
    nodes' = IF nodes \subseteq Range(endpoints) THEN Range(endpoints)
             ELSE nodes \intersect Range(endpoints)

\* _update_hash_ring: the nodes that left are removed, the new ones added.
UpdateHashRing(endpoints) ==
    LET new == Range(endpoints)
    IN  nodes' = (nodes \ (nodes \ new)) \union (new \ nodes)

\* The loop of _qps_routing prefers position n to position p.
Precedes(endpoints, qps, n, p) ==
    \/ qps[endpoints[n]] < qps[endpoints[p]]
    \/ qps[endpoints[n]] = qps[endpoints[p]] /\ n <= p

\* _qps_routing: the first engine without statistics, or else the first of the
\* lowest rate.
QpsRouting(endpoints, qps) ==
    LET unseen == {n \in DOMAIN endpoints : endpoints[n] \notin DOMAIN qps}
    IN  IF unseen # {} THEN endpoints[Min(unseen)]
        ELSE endpoints[CHOOSE n \in DOMAIN endpoints :
                           \A p \in DOMAIN endpoints : Precedes(endpoints, qps, n, p)]

RouteSession(session, endpoints) ==
    /\ UpdateHashRing(endpoints)
    /\ url' = GetNode(session, nodes')
    /\ last' = [last EXCEPT ![session] = [among |-> Range(endpoints), url |-> url']]

RouteByQps(endpoints, qps) ==
    /\ UpdateHashRing(endpoints)
    /\ url' = QpsRouting(endpoints, qps)
    /\ UNCHANGED last

Next ==
    \E endpoints \in EndpointLists :
        \/ \E session \in Session : RouteSession(session, endpoints)
        \/ \E seen \in SUBSET Range(endpoints) : \E qps \in [seen -> Qps] :
               RouteByQps(endpoints, qps)

Spec == Init /\ [][Next]_vars
-----------------------------------------------------------------------------
\* A session leaves its engine only if that engine is gone or if one that was
\* not there when it was last asked for takes it over, whatever lists the other
\* requests brought meanwhile.
SessionsStay ==
    [][\A s \in Session, endpoints \in EndpointLists :
          RouteSession(s, endpoints) /\ last[s].url \in Range(endpoints) =>
              url' = last[s].url \/ url' \notin last[s].among]_vars
=============================================================================
