------------------------------ MODULE Placement ------------------------------
(***************************************************************************)
(* The load feedback of loadaware: each decision raises the load that the  *)
(* next one reads.  stats is request_stats, kept by the router's request   *)
(* monitor: an engine enters it with its first request, which is counted   *)
(* as prefilling until its first token and as decoding until it ends.      *)
(***************************************************************************)
EXTENDS LoadAwareSelect

CONSTANTS
    Url,            \* engine URLs, as numbers
    Betas,          \* what LOADAWARE_BETA may be, as ratios
    Matches,        \* matched token counts a lookup may report
    Prompts,        \* prompt lengths in tokens
    Factors,        \* the factors by which ScaleFree stretches an input
    MaxInFlight     \* bound on the requests in flight

ASSUME PlacementAssumption ==
    /\ Url \subseteq Nat \ {NoUrl} /\ IsFiniteSet(Url)
    /\ Betas \subseteq [num : Int, den : Nat]
    /\ Matches \subseteq Nat /\ Prompts \subseteq Nat
    /\ Factors \subseteq Nat \ {0}
    /\ MaxInFlight \in Nat

VARIABLES beta, stats

vars == <<beta, stats>>

Init == beta \in Betas /\ stats = <<>>

\* The monitor counts a new request of u.
Started(u) ==
    [v \in DOMAIN stats \union {u} |->
        IF v # u THEN stats[v]
        ELSE IF u \in DOMAIN stats
             THEN [stats[u] EXCEPT !.prefill = @ + 1]
             ELSE [prefill |-> 1, decoding |-> 0]]

\* Without a best engine the request takes the fallback, to any of them.
Route(endpoints, matched, prompt) ==
    /\ TotalLoad(stats, Url) < MaxInFlight
    /\ LET best == SelectUrl(beta, endpoints, stats, matched, prompt)
       IN  \E u \in IF best = NoUrl THEN endpoints ELSE {best} : stats' = Started(u)
    /\ UNCHANGED beta

FirstToken(u) ==
    /\ stats[u].prefill > 0
    /\ stats' = [stats EXCEPT ![u].prefill = @ - 1, ![u].decoding = @ + 1]
    /\ UNCHANGED beta

Finish(u) ==
    /\ stats[u].decoding > 0
    /\ stats' = [stats EXCEPT ![u].decoding = @ - 1]
    /\ UNCHANGED beta

EndpointSets == (SUBSET Url) \ {{}}

Next ==
    \/ \E E \in EndpointSets, p \in Prompts :
           \E matched \in [E -> Matches] : Route(E, matched, p)
    \/ \E u \in DOMAIN stats : FirstToken(u) \/ Finish(u)

Spec == Init /\ [][Next]_vars
-----------------------------------------------------------------------------
Load(u) == LoadPenalty(stats, u)

\* score(u) >= score(v) as the class comment states it: what u gains in cache
\* is at least beta times what it is further above the fleet's mean.
NotBehind(u, v, E, matched, prompt) ==
    (AtMost(matched[u], prompt) - AtMost(matched[v], prompt)) * beta.den
            * AtLeast(Cardinality(E), TotalLoad(stats, E))
        >= beta.num * Cardinality(E) * (Load(u) - Load(v)) * AtLeast(prompt, 1)

\* The choice is a maximum of the documented score over every endpoint, and of
\* the maxima the least URL, so that a run can be reproduced; for a negative
\* beta too, which float() also reads.
ChoiceIsLeastBest ==
    beta.den # 0 =>
        \A E \in EndpointSets, p \in Prompts : \A matched \in [E -> Matches] :
            LET u == SelectUrl(beta, E, stats, matched, p)
            IN  /\ u \in E
                /\ \A v \in E : /\ NotBehind(u, v, E, matched, p)
                                /\ NotBehind(v, u, E, matched, p) => u <= v

\* No cache hit, however long, outweighs an overload: the chosen engine is at
\* most max(1, mean) / beta requests above the idlest one; and below the mean if
\* beta is infinite.
OverloadIsBounded ==
    beta.num > 0 =>
        \A E \in EndpointSets, p \in Prompts : \A matched \in [E -> Matches] :
            LET u == SelectUrl(beta, E, stats, matched, p)
            IN  IF beta.den = 0
                THEN u # NoUrl => Cardinality(E) * Load(u) < TotalLoad(stats, E)
                ELSE \A v \in E :
                         beta.num * Cardinality(E) * (Load(u) - Load(v))
                             <= beta.den * AtLeast(Cardinality(E), TotalLoad(stats, E))

\* "Returns None if there is nothing to route to" (select_url): among endpoints,
\* one is chosen whatever they hold and however they are loaded, unless no score
\* is above minus infinity: nan, or an infinite beta that meets equal loads.
FallbackHasCause ==
    \A E \in EndpointSets, p \in Prompts : \A matched \in [E -> Matches] :
        SelectUrl(beta, E, stats, matched, p) = NoUrl =>
            /\ beta.den = 0
            /\ beta.num = 0 \/ \A u, v \in E : Load(u) = Load(v)

Stretched(c) ==
    [u \in DOMAIN stats |-> [prefill  |-> c * stats[u].prefill,
                             decoding |-> c * stats[u].decoding]]

\* One beta is one policy on every deployment: the choice is the same when
\* the prompt and its matches grow by a common factor, and, once the mean load
\* is at least 1, when every load does.
ScaleFree ==
    \A E \in EndpointSets, p \in Prompts \ {0}, c \in Factors :
        \A matched \in [E -> Matches] :
            LET u == SelectUrl(beta, E, stats, matched, p)
            IN  /\ u = SelectUrl(beta, E, stats, [x \in E |-> c * matched[x]], c * p)
                /\ TotalLoad(stats, E) >= Cardinality(E) =>
                       u = SelectUrl(beta, E, Stretched(c), matched, p)
=============================================================================
