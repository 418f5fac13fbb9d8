-------------------------------- MODULE Fleet --------------------------------
(***************************************************************************)
(* The engines as the routers see them through the cache controller: the   *)
(* registry that answers a QueryInstMsg with the instance id behind a URL, *)
(* and the ids that a lookup of one prompt names.  Neither is under this   *)
(* repository; they are modelled from how the routers use them and from    *)
(* what the comments of routing_logic.py, cold_start.sh and kv_controller  *)
(* say: a process registers under a fresh id, a crash deregisters nothing, *)
(* and deregistering may leave chunks behind (KVController!Deregister).    *)
(***************************************************************************)
EXTENDS Naturals

CONSTANTS
    Url,        \* engine URLs, as numbers
    MaxStarts   \* bound on the processes started behind each URL

ASSUME FleetAssumption == Url \subseteq Nat \ {0} /\ MaxStarts \in [Url -> Nat]

VARIABLES
    started,    \* how many processes have been started behind each URL
    running,    \* the URLs whose latest process runs
    registered, \* the process the registry names for each URL, 0 for none
    named       \* the ids a lookup of the prompt names

fleetVars == <<started, running, registered, named>>

\* The nth process behind a URL; NoId is the None of an unregistered address.
Id == [url : Url, nth : Nat \ {0}]
NoId == [url |-> 0, nth |-> 0]

Current(u) == [url |-> u, nth |-> started[u]]

\* What the registry answers about u.
Registered(u) ==
    IF registered[u] = 0 THEN NoId ELSE [url |-> u, nth |-> registered[u]]

FleetInit ==
    /\ started = [u \in Url |-> 0]
    /\ running = {}
    /\ registered = [u \in Url |-> 0]
    /\ named = {}

Start(u) ==
    /\ u \notin running
    /\ started[u] < MaxStarts[u]
    /\ started' = [started EXCEPT ![u] = @ + 1]
    /\ running' = running \union {u}
    /\ UNCHANGED <<registered, named>>

\* The registry and the chunk table keep the id of a process that crashed.
Crash(u) ==
    /\ u \in running
    /\ running' = running \ {u}
    /\ UNCHANGED <<started, registered, named>>

\* A graceful stop deregisters; the chunks may outlive it.
Stop(u) ==
    /\ u \in running
    /\ running' = running \ {u}
    /\ registered' = [registered EXCEPT ![u] = 0]
    /\ named' \in {named, named \ {Current(u)}}
    /\ UNCHANGED started

Register(u) ==
    /\ u \in running
    /\ registered[u] # started[u]
    /\ registered' = [registered EXCEPT ![u] = started[u]]
    /\ UNCHANGED <<started, running, named>>

FleetChange == \E u \in Url : Start(u) \/ Crash(u) \/ Stop(u) \/ Register(u)

Admit(u) ==
    /\ u \in running /\ registered[u] = started[u]
    /\ named' = named \union {Current(u)}
    /\ UNCHANGED <<started, running, registered>>

Evict(u) ==
    /\ u \in running
    /\ Current(u) \in named
    /\ named' = named \ {Current(u)}
    /\ UNCHANGED <<started, running, registered>>

CacheChange == \E u \in Url : Admit(u) \/ Evict(u)

FleetTypeOK ==
    /\ started \in [Url -> Nat]
    /\ running \subseteq Url
    /\ registered \in [Url -> Nat]
    /\ \A u \in Url : registered[u] <= started[u] /\ started[u] <= MaxStarts[u]
    /\ \A i \in named : i \in Id /\ i.nth <= started[i.url]
=============================================================================
