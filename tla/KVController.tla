---------------------------- MODULE KVController ----------------------------
(***************************************************************************)
(* kv_controller.py: the controller's table of which engine holds which    *)
(* chunk.  kv_pool is an insertion-ordered dict from chunk key to a list   *)
(* of metadata; here the dict is a function and the sequence of its keys.  *)
(* Each handler is a coroutine without an await, so it is one step of the  *)
(* event loop that runs it; ConcurrentLookup.tla takes lookup apart.       *)
(***************************************************************************)
EXTENDS Naturals, Lists, FiniteSetsExt, SequencesExt

CONSTANTS
    Key,        \* chunk hashes
    Instance,   \* instance ids, never reused by another process
    Worker,     \* worker ids
    Location,   \* storage backends
    Meta,       \* the metadata the engines of this instance report
    Requests,   \* prompts, as the sequence of the keys of their chunks
    MaxCopies   \* bound on the length of one key's list

KVChunkMetadata ==
    [instance : Instance, worker : Worker, location : Location]

ASSUME KVAssumption ==
    /\ Meta \subseteq KVChunkMetadata
    /\ Requests \subseteq Seq(Key) \ {<<>>}
    /\ MaxCopies \in Nat

VARIABLES
    kv_pool,    \* the dict, as a function
    order,      \* its keys in insertion order
    raised      \* whether the last handler ended in an exception

vars == <<kv_pool, order, raised>>

Init == kv_pool = <<>> /\ order = <<>> /\ raised = FALSE
-----------------------------------------------------------------------------
\* A plausible wrong OfWorker, for the mutation run: the worker id is ignored.
OfInstance(i, w) == {m \in Meta : m.instance = i}

OfWorker(i, w) == {m \in Meta : m.instance = i /\ m.worker = w}

\* What the list comprehension of evict and deregister leaves of key k.
Remaining(k, B) == Without(kv_pool[k], B)

Admit(k, m) ==
    /\ raised' = FALSE
    /\ IF k \in DOMAIN kv_pool
       THEN /\ Len(kv_pool[k]) < MaxCopies
            /\ kv_pool' = [kv_pool EXCEPT ![k] = Append(@, m)]
            /\ UNCHANGED order
       ELSE /\ kv_pool' = [x \in DOMAIN kv_pool \union {k} |->
                               IF x = k THEN <<m>> ELSE kv_pool[x]]
            /\ order' = Append(order, k)

\* del pool[k], of the dict as it has become.
DeleteKey(pool, k) ==
    /\ kv_pool' = [x \in DOMAIN pool \ {k} |-> pool[x]]
    /\ order' = Without(order, {k})

\* A plausible wrong Evict, for the mutation run: the last holder of a chunk
\* leaves an empty list behind.
EvictKeepsEmpty(k, m) ==
    /\ k \in DOMAIN kv_pool
    /\ kv_pool' = [kv_pool EXCEPT ![k] = Remaining(k, {m})]
    /\ raised' = FALSE
    /\ UNCHANGED order

Evict(k, m) ==
    /\ k \in DOMAIN kv_pool
    /\ raised' = FALSE
    /\ IF Remaining(k, {m}) # <<>>
       THEN /\ kv_pool' = [kv_pool EXCEPT ![k] = Remaining(k, {m})]
            /\ UNCHANGED order
       ELSE DeleteKey(kv_pool, k)

\* Positions of the keys that deregister would empty.
Emptied(i, w) ==
    {n \in DOMAIN order : Remaining(order[n], OfWorker(i, w)) = <<>>}

\* The loop reaches the end of the dict because it deletes no key.
DeregisterCompletes(i, w) ==
    /\ Emptied(i, w) = {}
    /\ kv_pool' = [k \in DOMAIN kv_pool |-> Remaining(k, OfWorker(i, w))]
    /\ raised' = FALSE
    /\ UNCHANGED order

\* The loop deletes the first key it empties; the next turn of the iteration
\* over the dict raises RuntimeError, and the later keys keep their lists.
DeregisterRaises(i, w) ==
    \E cut \in Emptied(i, w) :
        /\ \A n \in Emptied(i, w) : cut <= n
        /\ raised' = TRUE
        /\ LET filtered == {order[n] : n \in 1..cut}
           IN  DeleteKey([x \in DOMAIN kv_pool |->
                              IF x \in filtered THEN Remaining(x, OfWorker(i, w))
                              ELSE kv_pool[x]],
                         order[cut])

Deregister(i, w) == DeregisterCompletes(i, w) \/ DeregisterRaises(i, w)

Next ==
    \/ \E k \in Key, m \in Meta : Admit(k, m) \/ Evict(k, m)
    \/ \E m \in Meta : Deregister(m.instance, m.worker)

Spec == Init /\ [][Next]_vars
-----------------------------------------------------------------------------
(* lookup: what each instance is credited with for one request.            *)

\* Plausible wrong versions of FirstOfEach, for the mutation runs: the walk
\* forgets who diverged earlier; only the head of the list is credited, which
\* is what the unpatched controller does.
FirstOfAny(list, contiguous) ==
    {n \in DOMAIN list :
        \A p \in 1..(n-1) : list[p].instance # list[n].instance}
HeadOnly(list, contiguous) ==
    {n \in DOMAIN list : n = 1 /\ list[n].instance \in contiguous}

\* The metadata that setdefault takes from a list: the first of each instance
\* that is still contiguous.
FirstOfEach(list, contiguous) ==
    {n \in DOMAIN list :
        /\ list[n].instance \in contiguous
        /\ \A p \in 1..(n-1) : list[p].instance # list[n].instance}

\* A plausible wrong FirstName, for the mutation run: the latest holder first.
LatestName(list, at) == list[Max(at)].instance

\* The name that layout_info, a dict, keeps in first place.
FirstName(list, at) == list[Min(at)].instance

\* One turn of the loop: chunk n of the request, given the walk so far.  An
\* absent key reads as an empty list; both end the walk.  Of the order of
\* layout_info only its first name is ever read, and a dict keeps the place of
\* a name that is written again.
LookupChunk(walk, list, n) ==
    LET at    == FirstOfEach(list, walk.contiguous)
        found == {list[p].instance : p \in at}
        Location1(i) == list[CHOOSE p \in at : list[p].instance = i].location
    IN  IF ~walk.going \/ at = {}
        THEN [walk EXCEPT !.going = FALSE]
        ELSE [going      |-> TRUE,
              contiguous |-> found,
              first      |-> IF DOMAIN walk.credit = {}
                             THEN {FirstName(list, at)} ELSE walk.first,
              credit     |-> [i \in found \union DOMAIN walk.credit |->
                                 IF i \in found
                                 THEN [location |-> Location1(i), matched |-> n]
                                 ELSE walk.credit[i]]]

LookupStart ==
    [going |-> TRUE, contiguous |-> Instance, first |-> {}, credit |-> <<>>]

ListOf(k) == IF k \in DOMAIN kv_pool THEN kv_pool[k] ELSE <<>>

\* layout_info, as the credit of each instance and the set of its first name.
Lookup(request) ==
    LET walk[n \in 0..Len(request)] ==
            IF n = 0 THEN LookupStart
            ELSE LET before == walk[n-1]
                 IN  LookupChunk(before, ListOf(request[n]), n)
    IN  walk[Len(request)]
-----------------------------------------------------------------------------
(* batched_p2p_lookup: the leading chunks one peer can serve.              *)

\* A plausible wrong Peers, for the mutation run: the asking instance counts.
AllHolders(k, query) == DOMAIN ListOf(k)

\* The metadata of key k that are not the querying instance's, first to last.
Peers(k, query) ==
    {n \in DOMAIN ListOf(k) : kv_pool[k][n].instance # query}

FirstPeer(k, query) ==
    LET m == kv_pool[k][Min(Peers(k, query))] IN <<m.instance, m.location>>

\* The count and the peer after the first n hashes.
BatchedP2PLookup(query, hashes) ==
    LET walk[n \in 0..Len(hashes)] ==
            IF n = 0 THEN [going |-> TRUE, hits |-> 0, peer |-> <<>>]
            ELSE LET before == walk[n-1]
                     k      == hashes[n]
                 IN  IF \/ ~before.going
                        \/ Peers(k, query) = {}
                        \/ before.hits > 0 /\ before.peer # FirstPeer(k, query)
                     THEN [before EXCEPT !.going = FALSE]
                     ELSE [going |-> TRUE, hits |-> before.hits + 1,
                           peer |-> FirstPeer(k, query)]
    IN  walk[Len(hashes)]
-----------------------------------------------------------------------------
(* Properties.                                                             *)

\* The dict: its lists are never empty (a key with no holder is deleted, which
\* is what makes the key test of lookup a test for holders), and its order
\* names each key once.
TypeOK ==
    /\ raised \in BOOLEAN
    /\ DOMAIN kv_pool \subseteq Key
    /\ \A k \in DOMAIN kv_pool : kv_pool[k] \in Seq(Meta) \ {<<>>}
    /\ order \in Seq(Key)
    /\ Range(order) = DOMAIN kv_pool
    /\ Distinct(order)

\* Instance i holds the chunk with key k, at any worker and location.
HeldBy(i, k) == \E n \in DOMAIN ListOf(k) : ListOf(k)[n].instance = i

\* The number of leading chunks of a request that i holds without a gap.
LongestPrefix(i, request) ==
    CHOOSE n \in 0..Len(request) :
        /\ \A j \in 1..n : HeldBy(i, request[j])
        /\ n = Len(request) \/ ~HeldBy(i, request[n+1])

\* lookup reports every instance that holds the first chunk, each with its own
\* longest gapless prefix and the location of that prefix's last chunk, and no
\* other instance: a cache match is a prefix match.
LookupIsLongestPrefix ==
    \A r \in Requests :
        LET credit == Lookup(r).credit
        IN  /\ DOMAIN credit = {i \in Instance : HeldBy(i, r[1])}
            /\ \A i \in DOMAIN credit :
                   LET n  == LongestPrefix(i, r)
                       at == {p \in DOMAIN ListOf(r[n]) :
                                 kv_pool[r[n]][p].instance = i}
                   IN  credit[i] = [location |-> kv_pool[r[n]][Min(at)].location,
                                    matched  |-> n]

\* kvaware takes the first name of layout_info; it must still be the instance
\* that upstream's lookup chose, the head of the first chunk's list.
FirstNameIsUpstreams ==
    \A r \in Requests :
        Lookup(r).first = IF r[1] \in DOMAIN kv_pool
                          THEN {kv_pool[r[1]][1].instance} ELSE {}

\* A peer-to-peer reply names one peer, never the asking instance, that holds
\* each of the chunks it counts at that location; and the count stops only
\* where no peer holds the next chunk or its first peer is another one.
P2PReplyIsOnePeer ==
    \A r \in Requests, query \in Instance :
        LET reply == BatchedP2PLookup(query, r)
        IN  /\ \A n \in 1..reply.hits :
                   /\ reply.peer[1] # query
                   /\ \E m \in Range(ListOf(r[n])) :
                          reply.peer = <<m.instance, m.location>>
            /\ reply.hits < Len(r) =>
                   LET k == r[reply.hits + 1]
                   IN  \/ \A i \in Instance : HeldBy(i, k) => i = query
                       \/ reply.hits > 0 /\ FirstPeer(k, query) # reply.peer

\* "Deregister all kv chunks of an instance-worker" (the docstring).
DeregisterForgetsAll ==
    [][\A m \in Meta : Deregister(m.instance, m.worker) =>
          \A k \in DOMAIN kv_pool' :
              Range(kv_pool'[k]) \cap OfWorker(m.instance, m.worker) = {}]_vars

\* The lists implement the relation: duplicates and order are invisible in it.
held == {h \in Key \X Meta : h[1] \in DOMAIN kv_pool /\ h[2] \in Range(kv_pool[h[1]])}
Abstract == INSTANCE Holdings WITH holds <- held
ImplementsHoldings == Abstract!HoldingsSpec
=============================================================================
