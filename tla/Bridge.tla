-------------------------------- MODULE Bridge --------------------------------
(***************************************************************************)
(* instance_id_to_ip, the routers' bridge from instance ids to URLs: a     *)
(* Python dict, as the sequence of its items in insertion order.           *)
(***************************************************************************)
EXTENDS Naturals, Sequences

KnownIds(bridge) == {bridge[n].id : n \in DOMAIN bridge}

MappedUrls(bridge) == {bridge[n].url : n \in DOMAIN bridge}

\* Plausible wrong versions of Put, for the mutation runs: a list of pairs; the
\* latest id in front.
PutAppend(bridge, id, url) == Append(bridge, [id |-> id, url |-> url])
PutInFront(bridge, id, url) ==
    IF id \in KnownIds(bridge) THEN bridge
    ELSE <<[id |-> id, url |-> url]>> \o bridge

\* instance_id_to_ip[id] = url: a key that is there keeps its place.
Put(bridge, id, url) ==
    IF id \in KnownIds(bridge)
    THEN [n \in DOMAIN bridge |->
             IF bridge[n].id = id THEN [id |-> id, url |-> url] ELSE bridge[n]]
    ELSE Append(bridge, [id |-> id, url |-> url])

\* A plausible wrong IdOf, for the mutation run: the first id of the URL.
FirstIdOf(bridge, url) ==
    LET at == {n \in DOMAIN bridge : bridge[n].url = url}
    IN  bridge[CHOOSE n \in at : \A p \in at : n <= p].id

\* The value of url in the inverted dict: the last id written in its order.
IdOf(bridge, url) ==
    LET at == {n \in DOMAIN bridge : bridge[n].url = url}
    IN  bridge[CHOOSE n \in at : \A p \in at : p <= n].id

\* A plausible wrong UrlOf, for the mutation run: what was learned last.
LatestUrl(bridge, id) == bridge[Len(bridge)].url

\* instance_id_to_ip[id], for an id that is there.
UrlOf(bridge, id) ==
    bridge[CHOOSE n \in DOMAIN bridge : bridge[n].id = id].url
=============================================================================
