------------------------------ MODULE RoundRobin ------------------------------
(***************************************************************************)
(* RoundRobinRouter (routing_logic.py).  The router keeps a sorted copy of *)
(* the endpoint list and makes it anew only when the list it is handed has *)
(* another id() than the last one and other URLs than the copy.  The id of *)
(* a Python object is its address: a list that is gone gives its address   *)
(* to another, so heap says which list is at each address now.             *)
(***************************************************************************)
EXTENDS Integers, FiniteSetsExt, SequencesExt

CONSTANTS
    Address,        \* ids of list objects
    EndpointLists,  \* the lists discovery may report, of URLs as numbers
    MaxRequests     \* bound on req_id

None == <<>>

\* An address is not None, and discovery names no URL twice in a list.
ASSUME RoundRobinAssumption ==
    /\ None \notin Address
    /\ EndpointLists # {} /\ EndpointLists \subseteq Seq(Nat) \ {<<>>}
    /\ \A list \in EndpointLists : Len(list) = Cardinality(Range(list))
    /\ MaxRequests \in Nat

VARIABLES
    heap,                \* the list at each address
    req_id,
    sorted_endpoints,
    last_endpoints_id,   \* an address, or None
    last_endpoints_hash, \* the list hashed, or None
    url,                 \* what the last request was answered with
    turns                \* history: requests of each URL since the set changed

vars == <<heap, req_id, sorted_endpoints, last_endpoints_id,
          last_endpoints_hash, url, turns>>

Init ==
    /\ heap \in [Address -> EndpointLists]
    /\ req_id = 0
    /\ sorted_endpoints = <<>>
    /\ last_endpoints_id = None
    /\ last_endpoints_hash = None
    /\ url = 0
    /\ turns = <<>>

\* The list at an address dies and another is made there.
Reallocate(a, list) ==
    /\ heap' = [heap EXCEPT ![a] = list]
    /\ UNCHANGED <<req_id, sorted_endpoints, last_endpoints_id,
                   last_endpoints_hash, url, turns>>

\* A plausible wrong IsNew, for the mutation run: as many URLs, the same URLs.
IsLonger(list) == Len(list) # Len(last_endpoints_hash)

\* current_hash != self.last_endpoints_hash; hashes that collide are left out.
IsNew(list) == list # last_endpoints_hash

\* A plausible wrong SortedByUrl, for the mutation run: the list as it came.
AsItCame(list) == list

\* sorted(): the nth URL is the one with n URLs up to it.
SortedByUrl(list) ==
    LET urls == Range(list)
    IN  [n \in 1..Cardinality(urls) |->
            CHOOSE u \in urls : Cardinality({v \in urls : v <= u}) = n]

Choose(sorted) == sorted[(req_id % Len(sorted)) + 1]

\* The history: the count of a URL starts over when the set of URLs changes.
Count(sorted) ==
    LET before == IF DOMAIN turns = Range(sorted) THEN turns
                  ELSE [u \in Range(sorted) |-> 0]
    IN  turns' = [before EXCEPT ![Choose(sorted)] = @ + 1]

RouteRequest(a) ==
    LET changed == a # last_endpoints_id /\ IsNew(heap[a])
        sorted  == IF changed THEN SortedByUrl(heap[a]) ELSE sorted_endpoints
    IN  /\ req_id < MaxRequests
        /\ last_endpoints_id' = a
        /\ last_endpoints_hash' = IF changed THEN heap[a] ELSE last_endpoints_hash
        /\ sorted_endpoints' = sorted
        /\ url' = Choose(sorted)
        /\ req_id' = req_id + 1
        /\ Count(sorted)
        /\ UNCHANGED heap

Next ==
    \/ \E a \in Address, list \in EndpointLists : Reallocate(a, list)
    \/ \E a \in Address : RouteRequest(a)

Spec == Init /\ [][Next]_vars
-----------------------------------------------------------------------------
\* However discovery orders its lists and wherever they lie, the engines of an
\* unchanged set are asked in turn: no two of their counts differ by two.
TurnsAreEven ==
    \A u, v \in DOMAIN turns : turns[u] - turns[v] \in {-1, 0, 1}

\* A list at another address than the last one is never taken for an old one:
\* the request goes to an engine in it.
AnotherListIsSeen ==
    [][\A a \in Address \ {last_endpoints_id} :
          RouteRequest(a) => url' \in Range(heap[a])]_vars
=============================================================================
